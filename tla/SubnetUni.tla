----------------------------- MODULE SubnetUni -----------------------------
(***************************************************************************)
(* ensureSubnetUNI (cmd/cnivpc/rpc.go): before a pod with a PodNetworking  *)
(* gets its address, the plugin chooses a subnet and makes sure that the   *)
(* node has a network interface (UNI) in it.  It looks for the UNI in the  *)
(* metadata of the instance, which follows the VPC with a delay; it        *)
(* creates and attaches one if there is none, and waits until the metadata *)
(* shows it.  Other nodes use addresses of the same subnets all the time.  *)
(* Plugin processes follow each other under the plugin's lock.             *)
(***************************************************************************)
EXTENDS Integers, FiniteSets, SequencesExt

CONSTANTS
  SubnetIds,    \* the subnets of the PodNetworking, a sequence
  Uni,          \* the interfaces that can come into being
  Cpus,         \* the sizes a node may have, in vCPUs
  Strategy,     \* the values of PodNetworking's strategy that users write
  MaxAvail,     \* bound: free addresses of a subnet
  MaxAdds,      \* bound: number of ADDs
  FaultKinds,   \* the kinds of fault the environment may inject
  MaxFaults,    \* bound: how many faults it injects
  NoUni, NoSubnet

Subnet == ToSet(SubnetIds)

ASSUME UniAssumption ==
  /\ NoUni \notin Uni /\ NoSubnet \notin Subnet
  /\ IsFiniteSet(Uni)
  /\ Cpus \subseteq Nat /\ MaxAvail \in Nat /\ MaxAdds \in Nat /\ MaxFaults \in Nat

VARIABLES
  cpu,      \* the size of this node
  avail,    \* VPC: the free addresses of each subnet
  uni,      \* VPC: the interfaces, with subnet and state
  meta,     \* the interfaces that the metadata server shows
  proc,     \* the plugin process inside ensureSubnetUNI
  result,   \* what the last call returned: an interface, an error, or neither
  adds,     \* number of calls so far
  faults, losses,  \* injected faults, and those that may cost an interface
  gaveUp    \* history: a call ended before the metadata showed what it attached

cloudVars == <<cpu, avail, uni, meta>>
callVars == <<result, adds, gaveUp>>
vars == <<cloudVars, proc, callVars, faults, losses>>

NoProc == [pc |-> "idle", strategy |-> "", meta |-> {}, k |-> 0, subnets |-> <<>>,
           subnet |-> NoSubnet, uni |-> NoUni]
Absent == [subnet |-> NoSubnet, st |-> "absent"]
Attached == {u \in Uni : uni[u].st = "attached"}

TypeOK ==
  /\ cpu \in Cpus
  /\ avail \in [Subnet -> 0..MaxAvail]
  /\ uni \in [Uni -> [subnet : Subnet \cup {NoSubnet}, st : {"absent", "detached", "attached", "deleted"}]]
  /\ meta \subseteq Uni
  /\ proc.pc \in {"idle", "query", "select", "create", "attach", "cleanup", "wait", "describe"}
  /\ proc.k \in 0..(Len(SubnetIds) + 1)
  /\ \A j \in DOMAIN proc.subnets : proc.subnets[j] \in [id : Subnet, availableIPs : 1..MaxAvail]
  /\ proc.subnet \in Subnet \cup {NoSubnet} /\ proc.uni \in Uni \cup {NoUni}
  /\ result \in {"none", "uni", "error", "nil"}
  /\ adds \in 0..MaxAdds /\ faults \in 0..MaxFaults /\ losses \in 0..faults
  /\ gaveUp \in BOOLEAN

Init ==
  /\ cpu \in Cpus
  /\ avail \in [Subnet -> 0..MaxAvail]
  /\ uni = [u \in Uni |-> Absent]
  /\ meta = {}
  /\ proc = NoProc
  /\ result = "none" /\ adds = 0
  /\ faults = 0 /\ losses = 0
  /\ gaveUp = FALSE

(* A call that fails is handled; one whose answer is lost, a process that  *)
(* dies and a failing delete may cost an interface.                        *)
Fault(k) ==
  /\ k \in FaultKinds /\ faults < MaxFaults
  /\ faults' = faults + 1
  /\ losses' = IF k = "api" THEN losses ELSE losses + 1
NoFault == UNCHANGED <<faults, losses>>

Goto(pc) == proc' = [proc EXCEPT !.pc = pc] /\ UNCHANGED callVars

(* The call returns.  An interface it attached may be known to the VPC and *)
(* not yet to the metadata server.                                         *)
Return(r) ==
  /\ proc' = NoProc
  /\ result' = r
  /\ gaveUp' = (gaveUp \/ \E u \in Uni : uni'[u].st = "attached" /\ u \notin meta)
  /\ UNCHANGED adds

SetUni(u, s, st) == uni' = [uni EXCEPT ![u] = [subnet |-> s, st |-> st]]

----------------------------------------------------------------------------
(* ensureSubnetUNI.                                                        *)

ensureSubnetUNI(st) ==
  /\ proc = NoProc /\ adds < MaxAdds
  /\ adds' = adds + 1
  /\ \/ /\ proc' = [NoProc EXCEPT !.pc = "query", !.strategy = st, !.meta = meta, !.k = 1]
        /\ UNCHANGED result /\ NoFault
     \/ result' = "error" /\ UNCHANGED proc /\ Fault("api")   \* GetMeta fails
  /\ UNCHANGED <<cloudVars, gaveUp>>

(* One subnet after the other; a failing or exhausted one is skipped. *)
getSubnetAvailableIPs ==
  /\ proc.pc = "query" /\ proc.k <= Len(SubnetIds)
  /\ LET s == SubnetIds[proc.k] IN
     \/ /\ proc' = [proc EXCEPT !.k = @ + 1,
                      !.subnets = IF avail[s] > 0 THEN Append(@, [id |-> s, availableIPs |-> avail[s]]) ELSE @]
        /\ NoFault
     \/ proc' = [proc EXCEPT !.k = @ + 1] /\ Fault("api")
  /\ UNCHANGED <<cloudVars, callVars>>

(* The first subnet, or the first of those with the most addresses. *)
validateSubnetAllocationStrategy(st) == st \in {"", "sequential", "balanced"}
Most(subnets) ==
  CHOOSE j \in DOMAIN subnets :
    \A i \in DOMAIN subnets : /\ subnets[i].availableIPs <= subnets[j].availableIPs
                              /\ i < j => subnets[i].availableIPs < subnets[j].availableIPs
selectSubnetByAllocationStrategy(st, subnets) ==
  IF st = "balanced" THEN subnets[Most(subnets)].id ELSE subnets[1].id

(* The interface in the metadata that was read at the beginning. *)
Existing_Ignored(s) == {}
Existing(s) == {u \in proc.meta : uni[u].subnet = s}

(* Interfaces a node may have, the default one included. *)
GetNodeUNILimits ==
  CASE cpu > 64 -> 15 [] cpu \in 33..64 -> 12 [] cpu \in 9..32 -> 8
    [] cpu \in 5..8 -> 4 [] cpu \in 3..4 -> 3 [] OTHER -> 2
AtLimit_OffByOne == Cardinality(proc.meta) + 1 > GetNodeUNILimits
AtLimit == Cardinality(proc.meta) + 1 >= GetNodeUNILimits

chooseUNI ==
  /\ proc.pc = "query" /\ proc.k > Len(SubnetIds)
  /\ UNCHANGED cloudVars
  /\ IF validateSubnetAllocationStrategy(proc.strategy) /\ proc.subnets # <<>>
     THEN LET s == selectSubnetByAllocationStrategy(proc.strategy, proc.subnets) IN
          \/ \E u \in Existing(s) :
               /\ proc' = [proc EXCEPT !.pc = "describe", !.subnet = s, !.uni = u]
               /\ NoFault /\ UNCHANGED callVars
          \/ /\ Existing(s) = {} /\ ~AtLimit
             /\ proc' = [proc EXCEPT !.pc = "create", !.subnet = s]
             /\ NoFault /\ UNCHANGED callVars
          \/ Existing(s) = {} /\ AtLimit /\ NoFault /\ Return("error")
          \/ Existing(s) = {} /\ Fault("api") /\ Return("error")   \* no CPU count: the limit is 1
     ELSE NoFault /\ Return("error")

(* The answer may be lost; without free addresses the VPC refuses, or      *)
(* creates an interface without address, which is deleted.                 *)
createNetworkInterface ==
  /\ proc.pc = "create"
  /\ \/ \E u \in Uni :
          /\ uni[u].st = "absent"
          /\ SetUni(u, proc.subnet, "detached")
          /\ avail' = [avail EXCEPT ![proc.subnet] = IF @ > 0 THEN @ - 1 ELSE 0]
          /\ \/ /\ proc' = [proc EXCEPT !.uni = u,
                              !.pc = IF avail[proc.subnet] > 0 THEN "attach" ELSE "cleanup"]
                /\ NoFault /\ UNCHANGED callVars
             \/ Fault("lost") /\ Return("error")
     \/ /\ avail[proc.subnet] = 0 \/ \A u \in Uni : uni[u].st # "absent"
        /\ NoFault /\ UNCHANGED <<avail, uni>> /\ Return("error")
     \/ Fault("api") /\ UNCHANGED <<avail, uni>> /\ Return("error")
  /\ UNCHANGED <<cpu, meta>>

attachNetworkInterface_KeepsNew ==
  /\ proc.pc = "attach"
  /\ \/ SetUni(proc.uni, proc.subnet, "attached") /\ Goto("wait") /\ NoFault
     \/ Fault("api") /\ UNCHANGED uni /\ Return("error")
  /\ UNCHANGED <<cpu, avail, meta>>
attachNetworkInterface ==
  /\ proc.pc = "attach"
  /\ \/ SetUni(proc.uni, proc.subnet, "attached") /\ Goto("wait") /\ NoFault   \* or code 58205: it was
     \/ Fault("api") /\ Goto("cleanup") /\ UNCHANGED uni
     \/ Fault("lost") /\ SetUni(proc.uni, proc.subnet, "attached") /\ Goto("cleanup")
  /\ UNCHANGED <<cpu, avail, meta>>

(* deleteNetworkInterface; errors are only logged ("UNI might leak").  The *)
(* VPC may refuse to delete an interface that is attached.                 *)
deleteNetworkInterface ==
  \/ /\ SetUni(proc.uni, proc.subnet, "deleted") /\ NoFault
     /\ avail' = [avail EXCEPT ![proc.subnet] = IF @ < MaxAvail THEN @ + 1 ELSE @]
  \/ uni[proc.uni].st = "attached" /\ UNCHANGED <<uni, avail>> /\ NoFault
  \/ Fault("delete") /\ UNCHANGED <<uni, avail>>

cleanUpNewUNI ==
  /\ proc.pc = "cleanup"
  /\ deleteNetworkInterface
  /\ Return("error")
  /\ UNCHANGED <<cpu, meta>>

(* Every three seconds the metadata is read again. *)
ReloadMeta ==
  /\ proc.pc = "wait"
  /\ \E u \in meta : /\ uni[u].subnet = proc.subnet
                     /\ proc' = [proc EXCEPT !.pc = "describe", !.uni = u]
  /\ UNCHANGED <<cloudVars, callVars, faults, losses>>

waitTimeout_Restarted ==
  /\ proc.pc = "wait" /\ UNCHANGED vars
(* After 90 seconds the new interface is deleted and the call returns err, *)
(* which is nil since the attach succeeded.                                *)
waitTimeout ==
  /\ proc.pc = "wait"
  /\ deleteNetworkInterface
  /\ Return("nil")
  /\ UNCHANGED <<cpu, meta>>

describeNetworkInterface ==
  /\ proc.pc = "describe"
  /\ UNCHANGED cloudVars
  /\ \/ uni[proc.uni].st # "deleted" /\ Return("uni") /\ NoFault
     \/ uni[proc.uni].st = "deleted" /\ Return("error") /\ NoFault
     \/ Fault("api") /\ Return("error")

Kill ==
  /\ proc # NoProc
  /\ Fault("kill")
  /\ UNCHANGED cloudVars
  /\ Return("error")

----------------------------------------------------------------------------
(* The VPC: the metadata follows, other nodes take and return addresses.   *)

MetaFollows(u) ==
  /\ \/ uni[u].st = "attached" /\ u \notin meta /\ meta' = meta \cup {u}
     \/ uni[u].st = "deleted" /\ u \in meta /\ meta' = meta \ {u}
  /\ UNCHANGED <<cpu, avail, uni, proc, callVars, faults, losses>>

OthersUse(s) ==
  /\ \E n \in {avail[s] - 1, avail[s] + 1} \cap 0..MaxAvail : avail' = [avail EXCEPT ![s] = n]
  /\ UNCHANGED <<cpu, uni, meta, proc, callVars, faults, losses>>

CallStep == \/ getSubnetAvailableIPs \/ chooseUNI \/ createNetworkInterface
            \/ attachNetworkInterface \/ cleanUpNewUNI \/ ReloadMeta \/ waitTimeout
            \/ describeNetworkInterface

Next ==
  \/ \E st \in Strategy : ensureSubnetUNI(st)
  \/ CallStep \/ Kill
  \/ \E u \in Uni : MetaFollows(u)
  \/ \E s \in Subnet : OthersUse(s)

Spec == Init /\ [][Next]_vars

(* The process runs, and its timer fires. *)
FairSpec == Spec /\ WF_vars(CallStep)

----------------------------------------------------------------------------
(* Properties.                                                             *)

(* The node has at most one interface per subnet, although the plugin      *)
(* decides on metadata that is older than what it has attached itself, as  *)
(* long as no call ends before the metadata shows its interface.           *)
OneUniPerSubnet ==
  ~gaveUp => \A u, v \in Attached : u # v => uni[u].subnet # uni[v].subnet

(* ... and not more interfaces than its limit, the default one included. *)
WithinLimit == ~gaveUp => Cardinality(Attached) + 1 <= GetNodeUNILimits

(* An interface that is created ends up attached or deleted, unless an     *)
(* answer is lost, a delete fails or the process dies: each costs at most  *)
(* one.                                                                    *)
UniLeakBound ==
  Cardinality({u \in Uni : uni[u].st = "detached"} \ {proc.uni}) <= losses

(* Every call returns: the wait for the metadata is bounded. *)
CallEnds == proc # NoProc ~> proc = NoProc
=============================================================================
