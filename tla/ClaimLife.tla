----------------------------- MODULE ClaimLife -----------------------------
(***************************************************************************)
(* What a VpcIpClaim promises a StatefulSet: a pod name is bound to one    *)
(* address; the binding outlives the pods and moves with them from node to *)
(* node; it ends only after it was detached; and an address is bound to    *)
(* one name at a time.  The promise does not cover an address that has     *)
(* been compromised: StaticIp says by which steps.                         *)
(***************************************************************************)
CONSTANTS Pods, IPs, Unbound

VARIABLES
  bound,        \* the address of each pod name
  attached,     \* the names whose binding is attached (in use)
  doomed,       \* the names whose binding ends at the next detach
  compromised   \* the addresses the promise no longer covers

vars == <<bound, attached, doomed, compromised>>

Init ==
  /\ bound = [p \in Pods |-> Unbound]
  /\ attached = {} /\ doomed = {} /\ compromised = {}

(* A new binding is attached from the start.                               *)
Bind(p, ip) ==
  /\ bound[p] = Unbound
  /\ ip \in compromised \/ \A q \in Pods : bound[q] # ip
  /\ bound' = [bound EXCEPT ![p] = ip]
  /\ attached' = attached \cup {p}
  /\ UNCHANGED <<doomed, compromised>>

Attach(p) ==
  /\ bound[p] # Unbound
  /\ attached' = attached \cup {p}
  /\ UNCHANGED <<bound, doomed, compromised>>

Detach(p) ==
  /\ p \in attached \ doomed
  /\ attached' = attached \ {p}
  /\ UNCHANGED <<bound, doomed, compromised>>

(* A request to end an attached binding waits for the detach.              *)
Doom(p) ==
  /\ p \in attached
  /\ doomed' = doomed \cup {p}
  /\ UNCHANGED <<bound, attached, compromised>>

Unbind(p) ==
  /\ bound[p] # Unbound
  /\ p \in attached => p \in doomed
  /\ bound' = [bound EXCEPT ![p] = Unbound]
  /\ attached' = attached \ {p} /\ doomed' = doomed \ {p}
  /\ UNCHANGED compromised

Compromise ==
  /\ compromised \subseteq compromised' /\ compromised' \in SUBSET IPs
  /\ UNCHANGED <<bound, attached, doomed>>

Next ==
  \/ \E p \in Pods : Attach(p) \/ Detach(p) \/ Doom(p) \/ Unbind(p)
  \/ \E p \in Pods, ip \in IPs : Bind(p, ip)
  \/ Compromise

Spec == Init /\ [][Next]_vars
=============================================================================
