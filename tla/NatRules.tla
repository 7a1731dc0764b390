------------------------------ MODULE NatRules ------------------------------
(***************************************************************************)
(* The iptables chains and the ipset that decide how the traffic of a pod  *)
(* leaves the node (cmd/cnivpc/if.go, nat_outgoing.go).                    *)
(*                                                                         *)
(* Every CNI ADD of a pod with a PodNetworking brings the chains up to     *)
(* date, one iptables command after the other, and any of them can fail or *)
(* be the last one of a process that dies.  The first ADD whose            *)
(* PodNetworking has NATGWOutgoingEnabled also fills the ipset with the    *)
(* pods that already run, and then installs the rule that lets the members *)
(* of the ipset bypass the mark, so that the NAT gateway and not the node  *)
(* translates their addresses.  ADD and DEL run under the plugin's lock;   *)
(* ipamd's reconciler, which edits the same records, does not.             *)
(***************************************************************************)
EXTENDS Integers, SequencesExt

CONSTANTS
  Pod,           \* the pods of the node, one sandbox each
  PodNetworking, \* the PodNetworking objects
  NetOf,         \* the PodNetworking each pod selects
  Legacy,        \* pods that an older plugin has set up, with their address
  LegacyIP,
  IP,            \* addresses
  Cidrs,         \* vpcCIDRs, a sequence
  FaultKinds,    \* the kinds of fault the environment may inject
  MaxFaults,     \* bound: how many faults it injects
  MaxEdits,      \* bound: how often users edit NATGWOutgoingEnabled
  NoIP, NoPod

ASSUME NatAssumption ==
  /\ NetOf \in [Pod -> PodNetworking]
  /\ Legacy \subseteq Pod /\ LegacyIP \in [Legacy -> IP]
  /\ \A p, q \in Legacy : LegacyIP[p] = LegacyIP[q] => p = q
  /\ Cidrs \in Seq(ToSet(Cidrs))
  /\ ToSet(Cidrs) \cap {"snat", "mark", "bypass"} = {}   \* a CIDR is no other rule
  /\ NoIP \notin IP /\ NoPod \notin Pod
  /\ MaxFaults \in Nat /\ MaxEdits \in Nat

VARIABLES
  chain,    \* iptables: the rules of each chain, in order
  ipset,    \* members of UCLOUD-NATGW-OUTGOING
  pol,      \* NATGWOutgoingEnabled of each PodNetworking
  live,     \* the pods that have an API object
  pod,      \* kubelet's view of each pod's sandbox
  rec,      \* the pod network records
  net,      \* history: the address each pod was last recorded with
  taken,    \* addresses that ipamd does not have
  proc,     \* the plugin process that holds the lock
  want,     \* history: what the plugin last decided for each pod that runs
  risky,    \* history: addresses that a fault has left in the ipset or in a record
  faults, edits

nodeVars  == <<live, pod, rec, net, taken>>
natVars   == <<ipset, want, risky>>
vars == <<chain, natVars, nodeVars, pol, proc, faults, edits>>

(* The chains: nat/POSTROUTING, UCLOUD-SNAT-CHAIN-0, mangle/PREROUTING,    *)
(* UCLOUD-CONNMARK-CHAIN-0, nat/PREROUTING.  A CIDR stands for its RETURN. *)
Chain == {"POSTROUTING", "SNAT", "mangle", "CONNMARK", "PREROUTING"}
RuleName == ToSet(Cidrs) \cup {"jumpSNAT", "snat", "connmarkPrimary", "connmarkVeth",
                               "mark", "bypass", "jump", "restore"}

(* An iptablesRule; first: it is inserted, not appended. *)
Rule(c, r, should, first) == [chain |-> c, rule |-> r, shouldExist |-> should, first |-> first]
Returns(c) == [k \in DOMAIN Cidrs |-> Rule(c, Cidrs[k], TRUE, TRUE)]

buildSNATRules ==
  <<Rule("POSTROUTING", "jumpSNAT", TRUE, FALSE)>> \o Returns("SNAT") \o
  <<Rule("SNAT", "snat", TRUE, FALSE), Rule("mangle", "connmarkPrimary", TRUE, FALSE),
    Rule("mangle", "connmarkVeth", TRUE, FALSE)>>
buildConnmarkRules_MarkOnly == <<Rule("CONNMARK", "mark", TRUE, FALSE)>>
buildConnmarkRules == Returns("CONNMARK") \o <<Rule("CONNMARK", "mark", TRUE, FALSE)>>
natGWOutgoingBypassRule == <<Rule("CONNMARK", "bypass", TRUE, TRUE)>>
(* The jump and the rule that restores the mark are moved to the end. *)
buildConnmarkPreroutingRules ==
  <<Rule("PREROUTING", "jump", FALSE, FALSE), Rule("PREROUTING", "jump", TRUE, FALSE),
    Rule("PREROUTING", "restore", FALSE, FALSE), Rule("PREROUTING", "restore", TRUE, FALSE)>>

(* updateIptablesRules: one round of its loop. *)
Insert_Appended(r) == Append(chain[r.chain], r.rule)
Insert(r) == IF r.first THEN <<r.rule>> \o chain[r.chain] ELSE Append(chain[r.chain], r.rule)
updateIptablesRule(r) ==
  LET exists == r.rule \in ToSet(chain[r.chain]) IN
  chain' = [chain EXCEPT ![r.chain] =
              IF r.shouldExist /\ ~exists THEN Insert(r)
              ELSE IF exists /\ ~r.shouldExist THEN Remove(@, r.rule) ELSE @]

NoProc == [op |-> "none", pod |-> NoPod, pc |-> "idle", todo |-> <<>>, add |-> {}, del |-> {},
           enabled |-> FALSE, ip |-> NoIP, added |-> FALSE]

TypeOK ==
  /\ \A c \in Chain : ToSet(chain[c]) \subseteq RuleName
  /\ ipset \in SUBSET IP
  /\ pol \in [PodNetworking -> BOOLEAN]
  /\ live \in SUBSET Pod
  /\ pod \in [Pod -> {"new", "adding", "up", "down", "gone"}]
  /\ rec \in [Pod -> IP \cup {NoIP}] /\ net \in [Pod -> IP \cup {NoIP}]
  /\ taken \in SUBSET IP
  /\ proc.op \in {"none", "ADD", "DEL"} /\ proc.pod \in Pod \cup {NoPod}
  /\ proc.ip \in IP \cup {NoIP} /\ proc.add \cup proc.del \subseteq IP
  /\ want \in [Pod -> {"unset", "node", "gateway"}]
  /\ risky \in SUBSET IP
  /\ faults \in 0..MaxFaults /\ edits \in 0..MaxEdits

(* A node that has just booted, where the pods of an older plugin are gone,*)
(* or one on which that plugin, without the ipset, has set up pods and     *)
(* chains.                                                                 *)
Init ==
  /\ \/ /\ chain = [c \in Chain |-> <<>>]
        /\ pod = [p \in Pod |-> IF p \in Legacy THEN "gone" ELSE "new"]
        /\ rec = [p \in Pod |-> NoIP]
     \/ /\ chain = [c \in Chain |->
                      CASE c = "CONNMARK" -> Append(Cidrs, "mark")
                        [] c = "SNAT" -> Append(Cidrs, "snat")
                        [] c = "PREROUTING" -> <<"jump", "restore">>
                        [] c = "POSTROUTING" -> <<"jumpSNAT">>
                        [] c = "mangle" -> <<"connmarkPrimary", "connmarkVeth">>]
        /\ pod = [p \in Pod |-> IF p \in Legacy THEN "up" ELSE "new"]
        /\ rec = [p \in Pod |-> IF p \in Legacy THEN LegacyIP[p] ELSE NoIP]
  /\ taken = {rec[p] : p \in Pod} \ {NoIP}
  /\ net = rec
  /\ live = {p \in Pod : pod[p] = "up"}
  /\ ipset = {} /\ pol \in [PodNetworking -> BOOLEAN]
  /\ proc = NoProc
  /\ want = [p \in Pod |-> "unset"] /\ risky = {}
  /\ faults = 0 /\ edits = 0

Fault(k) == k \in FaultKinds /\ faults < MaxFaults /\ faults' = faults + 1

At(pc) == proc.pc = pc
Goto(pc) == proc' = [proc EXCEPT !.pc = pc]
GotoRules(pc, rules) == proc' = [proc EXCEPT !.pc = pc, !.todo = rules]

(* A failed ADD: kubelet tears the sandbox down with DEL. *)
AddFails == proc' = NoProc /\ pod' = [pod EXCEPT ![proc.pod] = "down"]

(* deleteNATGWOutgoingIP; its callers only log a failure. *)
deleteNATGWOutgoingIP(i) ==
  \/ ipset' = ipset \ {i} /\ UNCHANGED <<risky, faults>>
  \/ Fault("ipset") /\ risky' = risky \cup {i} /\ UNCHANGED ipset

----------------------------------------------------------------------------
(* ADD: updateRules, then the pod's own entry.                             *)

(* cmdAdd reads the pod and its PodNetworking once. *)
StartAdd(p) ==
  /\ proc = NoProc
  /\ pod[p] = "new" /\ p \in live
  /\ pod' = [pod EXCEPT ![p] = "adding"]
  /\ proc' = [NoProc EXCEPT !.op = "ADD", !.pod = p, !.pc = "chains", !.enabled = pol[NetOf[p]],
                            !.todo = buildSNATRules \o buildConnmarkRules]
  /\ UNCHANGED <<chain, natVars, live, rec, net, taken, pol, faults, edits>>

(* The next rule of the list; an iptables error ends the ADD, except for   *)
(* the bypass rule, where it ends the attempt to enable it.                *)
RunRule ==
  /\ proc.todo # <<>>
  /\ \/ /\ updateIptablesRule(Head(proc.todo))
        /\ proc' = [proc EXCEPT !.todo = Tail(@)]
        /\ UNCHANGED <<pod, faults>>
     \/ /\ Fault("ipt")
        /\ IF At("bypass") THEN GotoRules("attach", buildConnmarkPreroutingRules) /\ UNCHANGED pod
                           ELSE AddFails
        /\ UNCHANGED chain
  /\ UNCHANGED <<natVars, live, rec, net, taken, pol, edits>>

(* What follows when a list is done. *)
RulesDone ==
  /\ proc.todo = <<>>
  /\ \/ At("chains") /\ proc.enabled /\ Goto("enable")
     \/ /\ \/ At("chains") /\ ~proc.enabled
           \/ At("bypass")
        /\ GotoRules("attach", buildConnmarkPreroutingRules)
     \/ At("attach") /\ Goto("assign")
  /\ UNCHANGED <<chain, natVars, nodeVars, pol, faults, edits>>

(* The pods with a record, from ipamd or from the plugin's own database.   *)
listPodNetworkRecords == {p \in Pod : rec[p] # NoIP}

(* desiredNATGWOutgoingIPs: the recorded addresses of the pods that exist  *)
(* and whose PodNetworking has the gateway enabled.                        *)
desiredNATGWOutgoingIPs ==
  {rec[p] : p \in {q \in live \cap listPodNetworkRecords : pol[NetOf[q]]}}

(* tryEnableNATGWOutgoing and the lists of migrateLegacyNATGWOutgoingIPs:  *)
(* records, pods, PodNetworkings and the ipset, read as one.  The lock     *)
(* keeps ADD and DEL away, but not the reconciler (ReconcileDelete,        *)
(* ReconcilePut).  An error leaves the bypass to the next ADD.             *)
tryEnableNATGWOutgoing ==
  /\ At("enable")
  /\ \/ /\ "bypass" \in ToSet(chain["CONNMARK"])
        /\ GotoRules("attach", buildConnmarkPreroutingRules)
        /\ UNCHANGED <<want, faults>>
     \/ /\ "bypass" \notin ToSet(chain["CONNMARK"])
        /\ proc' = [proc EXCEPT !.pc = "migrate", !.add = desiredNATGWOutgoingIPs \ ipset,
                                !.del = ipset \ desiredNATGWOutgoingIPs]
        /\ want' = [p \in Pod |-> IF pod[p] # "up" \/ p \in live \ listPodNetworkRecords THEN want[p]
                                  ELSE IF p \in live /\ pol[NetOf[p]] THEN "gateway" ELSE "node"]
        /\ UNCHANGED faults
     \/ /\ \E k \in {"k8s", "db", "ipset"} : Fault(k)
        /\ GotoRules("attach", buildConnmarkPreroutingRules)
        /\ UNCHANGED want
  /\ UNCHANGED <<chain, ipset, risky, nodeVars, pol, edits>>

(* The two loops of the migration, and then the bypass rule. *)
migrateLegacyNATGWOutgoingIPs ==
  /\ At("migrate")
  /\ \/ \E i \in proc.add :
          /\ ipset' = ipset \cup {i}
          /\ proc' = [proc EXCEPT !.add = @ \ {i}]
          /\ UNCHANGED faults
     \/ \E i \in proc.del :
          /\ proc.add = {}
          /\ ipset' = ipset \ {i}
          /\ proc' = [proc EXCEPT !.del = @ \ {i}]
          /\ UNCHANGED faults
     \/ proc.add = {} /\ proc.del = {} /\ GotoRules("bypass", natGWOutgoingBypassRule)
        /\ UNCHANGED <<ipset, faults>>
     \/ /\ proc.add \cup proc.del # {} /\ Fault("ipset")
        /\ proc' = [proc EXCEPT !.pc = "attach", !.todo = buildConnmarkPreroutingRules,
                                !.add = {}, !.del = {}]
        /\ UNCHANGED ipset
  /\ UNCHANGED <<chain, want, risky, nodeVars, pol, edits>>

(* The pod gets an address, and syncNATGWOutgoingIP enters it.  Without    *)
(* the entry the pod keeps the node's SNAT.                                *)
syncNATGWOutgoingIP ==
  /\ At("assign")
  /\ \E i \in IP \ taken :
       /\ taken' = taken \cup {i}
       /\ \/ /\ proc.enabled
             /\ ipset' = ipset \cup {i}
             /\ proc' = [proc EXCEPT !.pc = "finish", !.ip = i, !.added = i \notin ipset]
             /\ want' = [want EXCEPT ![proc.pod] = "gateway"]
             /\ UNCHANGED faults
          \/ /\ IF proc.enabled THEN Fault("ipset") ELSE UNCHANGED faults
             /\ proc' = [proc EXCEPT !.pc = "finish", !.ip = i]
             /\ want' = [want EXCEPT ![proc.pod] = "node"]
             /\ UNCHANGED ipset
  /\ UNCHANGED <<chain, risky, live, pod, rec, net, pol, edits>>

NoAddress ==
  /\ At("assign") /\ taken = IP
  /\ AddFails
  /\ UNCHANGED <<chain, natVars, live, rec, net, taken, pol, faults, edits>>

(* The rest of cmdAdd: the veth, whose failure releases the address, the   *)
(* record, whose failure mostly keeps it, and the port mapping, before     *)
(* which the record is written.                                            *)
addPodNetworkRecord == rec' = [rec EXCEPT ![proc.pod] = proc.ip] /\ net' = [net EXCEPT ![proc.pod] = proc.ip]
finishAdd ==
  /\ At("finish")
  /\ \/ /\ addPodNetworkRecord
        /\ pod' = [pod EXCEPT ![proc.pod] = "up"]
        /\ proc' = NoProc
        /\ UNCHANGED <<taken, faults>>
     \/ /\ \E k \in {"host", "db"} : Fault(k)
        /\ \/ addPodNetworkRecord /\ UNCHANGED taken
           \/ taken' \in {taken, taken \ {proc.ip}} /\ UNCHANGED <<rec, net>>
        /\ Goto("rollback")
        /\ UNCHANGED pod
  /\ UNCHANGED <<chain, natVars, live, pol, edits>>

(* An ADD that fails takes back the entry it has made.                     *)
rollbackNATGWOutgoingIP ==
  /\ At("rollback")
  /\ \/ proc.added /\ deleteNATGWOutgoingIP(proc.ip)
     \/ ~proc.added /\ UNCHANGED <<ipset, risky, faults>>
  /\ AddFails
  /\ UNCHANGED <<chain, want, live, rec, net, taken, pol, edits>>

----------------------------------------------------------------------------
(* DEL, call by call.  One that fails is repeated by kubelet.              *)

(* A record that cannot be read is taken for one that is gone.             *)
StartDel(p) ==
  /\ proc = NoProc
  /\ pod[p] = "down"
  /\ \/ /\ rec[p] # NoIP
        /\ proc' = [NoProc EXCEPT !.op = "DEL", !.pod = p, !.pc = "natdel", !.ip = rec[p]]
        /\ UNCHANGED <<pod, faults>>
     \/ /\ IF rec[p] = NoIP THEN UNCHANGED faults ELSE Fault("db")
        /\ pod' = [pod EXCEPT ![p] = "gone"]
        /\ UNCHANGED proc
  /\ want' = [want EXCEPT ![p] = "unset"]
  /\ UNCHANGED <<chain, ipset, risky, live, rec, net, taken, pol, edits>>

DelNAT_Skipped ==
  /\ At("natdel")
  /\ Goto("release")
  /\ UNCHANGED <<chain, natVars, nodeVars, pol, faults, edits>>
DelNAT ==
  /\ At("natdel")
  /\ deleteNATGWOutgoingIP(proc.ip)
  /\ Goto("release")
  /\ UNCHANGED <<chain, want, nodeVars, pol, edits>>

(* cleanUpIPRoutePolicy and releasePodIp.  The release may fail, or take   *)
(* effect and seem to have failed.                                         *)
releasePodIp ==
  /\ At("release")
  /\ \/ taken' = taken \ {proc.ip} /\ Goto("record") /\ UNCHANGED <<risky, faults>>
     \/ Fault("host") /\ proc' = NoProc /\ UNCHANGED <<taken, risky>>
     \/ /\ Fault("api") /\ proc' = NoProc
        /\ taken' = taken \ {proc.ip} /\ risky' = risky \cup {proc.ip}
  /\ UNCHANGED <<chain, ipset, want, live, pod, rec, net, pol, edits>>

(* Its failure is only logged: the record goes on naming an address that   *)
(* has been released.                                                      *)
delPodNetworkRecord ==
  /\ At("record")
  /\ \/ rec' = [rec EXCEPT ![proc.pod] = NoIP] /\ UNCHANGED <<risky, faults>>
     \/ Fault("db") /\ risky' = risky \cup {proc.ip} /\ UNCHANGED rec
  /\ proc' = [proc EXCEPT !.pc = "end", !.ip = NoIP]
  /\ UNCHANGED <<chain, ipset, want, live, pod, net, taken, pol, edits>>

(* The port mapping and the interface.                                     *)
finishDel ==
  /\ At("end")
  /\ \/ pod' = [pod EXCEPT ![proc.pod] = "gone"] /\ UNCHANGED faults
     \/ Fault("host") /\ UNCHANGED pod
  /\ proc' = NoProc
  /\ UNCHANGED <<chain, natVars, live, rec, net, taken, pol, edits>>

----------------------------------------------------------------------------
(* What else happens on the node.                                          *)

(* ipamd's reconciler deletes the record of a pod that has no API object,  *)
(* or that was created after it had listed the pods.                       *)
ReconcileDelete(p) ==
  /\ rec[p] # NoIP
  /\ \/ p \notin live /\ UNCHANGED <<risky, faults>>
     \/ p \in live /\ Fault("reconcile") /\ risky' = risky \cup {rec[p]}
  /\ rec' = [rec EXCEPT ![p] = NoIP]
  /\ UNCHANGED <<chain, ipset, want, live, pod, net, taken, pol, proc, edits>>

(* It writes a record back that DEL has deleted since it was listed.       *)
ReconcilePut(p) ==
  /\ rec[p] = NoIP /\ net[p] # NoIP /\ pod[p] \in {"down", "gone"}
  /\ Fault("reconcile")
  /\ rec' = [rec EXCEPT ![p] = net[p]] /\ risky' = risky \cup {net[p]}
  /\ UNCHANGED <<chain, ipset, want, live, pod, net, taken, pol, proc, edits>>

(* What a process that dies has released and not yet cleared.              *)
Unfinished == {proc.ip} \ (taken \cup {NoIP})

(* The process dies.  An address it has not recorded stays taken. *)
Kill ==
  /\ proc # NoProc /\ Fault("kill")
  /\ risky' = risky \cup Unfinished
  /\ IF proc.op = "ADD" THEN AddFails ELSE proc' = NoProc /\ UNCHANGED pod
  /\ UNCHANGED <<chain, ipset, want, live, rec, net, taken, pol, edits>>

(* A reboot empties chains and ipset; kubelet tears the old sandboxes      *)
(* down.                                                                   *)
Reboot ==
  /\ Fault("reboot")
  /\ chain' = [c \in Chain |-> <<>>]
  /\ ipset' = {} /\ risky' = risky \cup Unfinished
  /\ pod' = [p \in Pod |-> IF pod[p] \in {"adding", "up"} THEN "down" ELSE pod[p]]
  /\ proc' = NoProc
  /\ UNCHANGED <<want, live, rec, net, taken, pol, edits>>

(* Pods come and go, at the API server and on the node; users edit the     *)
(* PodNetworkings.                                                         *)
PodEvent(p) ==
  /\ \/ pod[p] = "new" /\ p \notin live /\ live' = live \cup {p} /\ UNCHANGED pod
     \/ pod[p] \in {"up", "down", "gone"} /\ live' = live \ {p} /\ p \in live /\ UNCHANGED pod
     \/ pod[p] = "up" /\ pod' = [pod EXCEPT ![p] = "down"] /\ UNCHANGED live
  /\ UNCHANGED <<chain, natVars, rec, net, taken, pol, proc, faults, edits>>

EditPolicy(n) ==
  /\ edits < MaxEdits
  /\ edits' = edits + 1
  /\ pol' = [pol EXCEPT ![n] = ~@]
  /\ UNCHANGED <<chain, natVars, nodeVars, proc, faults>>

Next ==
  \/ \E p \in Pod : StartAdd(p) \/ StartDel(p) \/ PodEvent(p) \/ ReconcileDelete(p) \/ ReconcilePut(p)
  \/ RunRule \/ RulesDone \/ tryEnableNATGWOutgoing \/ migrateLegacyNATGWOutgoingIPs
  \/ syncNATGWOutgoingIP \/ NoAddress \/ finishAdd \/ rollbackNATGWOutgoingIP
  \/ DelNAT \/ releasePodIp \/ delPodNetworkRecord \/ finishDel
  \/ Kill \/ Reboot
  \/ \E n \in PodNetworking : EditPolicy(n)

Spec == Init /\ [][Next]_vars

----------------------------------------------------------------------------
(* Properties.                                                             *)

Has(c, r) == r \in ToSet(chain[c])
Before(c, q, r) == \A j, k \in DOMAIN chain[c] : chain[c][j] = r /\ chain[c][k] = q => k < j

(* "All CIDR rules must go before the SNAT/Mark rule": after any sequence  *)
(* of partial updates, traffic within the VPC and of the ipset's members   *)
(* returns from the chains before it is marked or translated.              *)
ReturnsFirst ==
  /\ \A r \in ToSet(Cidrs) \cup {"bypass"} : Before("CONNMARK", r, "mark")
  /\ \A r \in ToSet(Cidrs) : Before("SNAT", r, "snat")

(* "Attach the custom chain only after its rules ... are ready": a chain   *)
(* that traffic goes through has all its CIDR rules and the mark.          *)
AttachedReady ==
  Has("PREROUTING", "jump") => \A r \in ToSet(Cidrs) \cup {"mark"} : Has("CONNMARK", r)

(* While the bypass is installed, the pods that run bypass the node's SNAT *)
(* exactly as the plugin decided for them, the ones set up by an older     *)
(* plugin included: the rule never acts on an incomplete or outdated       *)
(* ipset.  Failures of ipset, of the records and of releases, deaths and   *)
(* the reconciler break this for one address each, and for no other.       *)
BypassExact ==
  /\ Cardinality(risky) <= faults
  /\ Has("CONNMARK", "bypass") =>
       \A p \in Pod : pod[p] = "up" /\ net[p] \notin risky =>
         /\ want[p] # "unset"
         /\ net[p] \in ipset <=> want[p] = "gateway"

=============================================================================
