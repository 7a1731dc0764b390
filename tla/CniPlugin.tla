----------------------------- MODULE CniPlugin -----------------------------
(***************************************************************************)
(* The CNI plugin of one node (cmd/cnivpc), the pod network records it     *)
(* shares with ipamd, and ipamd's record reconciler (resource.go).         *)
(*                                                                         *)
(* kubelet starts a plugin process for every ADD and DEL of a sandbox; a   *)
(* file lock lets one of them run at a time.  The process takes its        *)
(* address from ipamd, or from the VPC itself while ipamd does not answer, *)
(* and it may die after any of its calls (tickSuicide, or a kill).  The    *)
(* bolt file of records is written by ipamd while it runs and by the       *)
(* plugin while it does not.  ipamd's pool is here what the plugin sees of *)
(* it: module Ipamd has its inside.                                        *)
(***************************************************************************)
EXTENDS Integers, FiniteSets

CONSTANTS
  Pod,          \* pods: one API object with one UID each
  Sandbox,      \* sandbox IDs, each used for one ADD
  PodOf,        \* the pod of a sandbox
  NatPod,       \* the pods whose PodNetworking has NATGWOutgoingEnabled
  IP,           \* the addresses of the subnet
  InitPool,     \* the pool ipamd starts with
  FaultKinds,   \* the kinds of fault the environment may inject
  MaxFaults,    \* bound: how many faults it injects
  NoIP, NoSandbox

ASSUME PluginAssumption ==
  /\ PodOf \in [Sandbox -> Pod]
  /\ NatPod \subseteq Pod
  /\ IsFiniteSet(IP) /\ NoIP \notin IP
  /\ NoSandbox \notin Sandbox
  /\ InitPool \subseteq IP
  /\ MaxFaults \in Nat

VARIABLES
  api,       \* the API object of each pod
  sb,        \* kubelet's view of each sandbox
  net,       \* the address configured in the sandbox's network namespace
  rec,       \* the records: PodKey -> address, and whether PodUID is filled in
  attached,  \* VPC: the addresses attached to this node
  pool,      \* ipamd: the addresses it can hand out
  cool,      \* ipamd: the cooldown set
  up,        \* ipamd answers
  nat,       \* kernel: the members of ipset UCLOUD-NATGW-OUTGOING
  proc,      \* the plugin process that holds the file lock
  gc,        \* the goroutine that runs doReconcile
  faults,    \* number of injected faults
  losses,    \* ... and of those that may cost an address
  freed,     \* history: the sandboxes whose address has been released
  natDirty,  \* history: an ipset call failed or an ADD died
  hazards    \* history: the hazardous events that have happened

kubeVars == <<api, sb>>
ipamVars == <<attached, pool, cool>>
history  == <<faults, losses>>
relVars  == <<ipamVars, freed, hazards>>
natVars  == <<nat, natDirty>>
vars == <<kubeVars, net, rec, relVars, up, natVars, proc, gc, history>>

NoRec == [ip |-> NoIP, uid |-> FALSE]
NoProc == [op |-> "none", sb |-> NoSandbox, pc |-> "idle", ip |-> NoIP, uid |-> FALSE, nat |-> FALSE]
NoGC == [pc |-> "idle", pods |-> {}, put |-> [s \in Sandbox |-> NoIP], del |-> {}]

Record == [ip : IP \cup {NoIP}, uid : BOOLEAN]
AddPC == {"assign", "check", "nat", "veth", "inner", "rollback", "record", "portmap"}
DelPC == {"get", "natdel", "release", "delrec", "iface"}
Hazard == {"secondRelease", "staleList"}

TypeOK ==
  /\ api \in [Pod -> {"new", "live", "gone"}]
  /\ sb \in [Sandbox -> {"none", "adding", "running", "deleting", "gone"}]
  /\ net \in [Sandbox -> IP \cup {NoIP}]
  /\ rec \in [Sandbox -> Record]
  /\ attached \in SUBSET IP /\ pool \in SUBSET IP /\ cool \in SUBSET IP
  /\ up \in BOOLEAN
  /\ nat \in SUBSET IP
  /\ proc \in [op : {"none", "ADD", "DEL"}, sb : Sandbox \cup {NoSandbox},
               pc : {"idle"} \cup AddPC \cup DelPC, ip : IP \cup {NoIP},
               uid : BOOLEAN, nat : BOOLEAN]
  /\ gc \in [pc : {"idle", "pods", "work"}, pods : SUBSET Pod,
             put : [Sandbox -> IP \cup {NoIP}], del : SUBSET Sandbox]
  /\ faults \in 0..MaxFaults /\ losses \in 0..faults
  /\ freed \in SUBSET Sandbox
  /\ natDirty \in BOOLEAN
  /\ hazards \in SUBSET Hazard

Init ==
  /\ api = [p \in Pod |-> "new"]
  /\ sb = [s \in Sandbox |-> "none"]
  /\ net = [s \in Sandbox |-> NoIP]
  /\ rec = [s \in Sandbox |-> NoRec]
  /\ attached = InitPool /\ pool = InitPool /\ cool = {}
  /\ up = TRUE
  /\ nat = {}
  /\ proc = NoProc
  /\ gc = NoGC
  /\ faults = 0 /\ losses = 0
  /\ freed = {}
  /\ natDirty = FALSE
  /\ hazards = {}

(* The environment spends one of its faults.  What fails on the host is    *)
(* handled by a rollback or a repeated DEL and must not cost an address.   *)
Fault(k) ==
  /\ k \in FaultKinds
  /\ faults < MaxFaults
  /\ faults' = faults + 1
  /\ losses' = IF k \in {"host", "ipset"} THEN losses ELSE losses + 1

At(op, pc) == proc.op = op /\ proc.pc = pc
Goto(pc) == proc' = [proc EXCEPT !.pc = pc]

----------------------------------------------------------------------------
(* Steps that ADD and DEL share.                                           *)

(* ipamd's AddPodNetwork takes i from the pool, or from the VPC when the   *)
(* pool is empty.                                                          *)
AddPodNetwork(i) ==
  \/ i \in pool \cap attached /\ pool' = pool \ {i} /\ UNCHANGED attached
  \/ pool = {} /\ i \notin attached /\ attached' = attached \cup {i} /\ UNCHANGED pool

(* deallocateSecondaryIP looks i up under this node's MAC and deletes it. *)
deallocateSecondaryIP(i) == attached' = attached \ {i} /\ UNCHANGED <<pool, cool>>

(* ipamd's DelPodNetwork puts i into the cooldown set; when its database   *)
(* fails it tries to give i back to the VPC.  Both are answered with       *)
(* success.                                                                *)
DelPodNetwork(i, stored) ==
  \/ stored /\ cool' = cool \cup {i} /\ UNCHANGED <<attached, pool>>
  \/ ~stored /\ (deallocateSecondaryIP(i) \/ UNCHANGED ipamVars)

(* A second release of the address of s that does something: i has left    *)
(* the cooldown set and may be anybody's, or the VPC would delete what     *)
(* ipamd keeps.  Nothing tells the caller so.                              *)
Outdated(s, i, stored) ==
  s \in freed /\ IF up /\ stored THEN i \notin cool ELSE i \in attached
Notice(s, i, stored) ==
  hazards' = IF Outdated(s, i, stored) THEN hazards \cup {"secondRelease"} ELSE hazards

(* A release takes effect, in ipamd or in the VPC. *)
Release(s, i, stored) ==
  /\ IF up THEN DelPodNetwork(i, stored) ELSE deallocateSecondaryIP(i)
  /\ freed' = freed \cup {s}
  /\ Notice(s, i, stored)

(* releasePodIp for the process that runs; error tells what it returns.    *)
(* The call fails, or its answer is lost.                                  *)
releasePodIp(error) ==
  \/ ~error /\ Release(proc.sb, proc.ip, TRUE) /\ UNCHANGED history
  \/ ~error /\ up /\ Fault("db") /\ Release(proc.sb, proc.ip, FALSE)
  \/ error /\ Fault("api") /\ UNCHANGED relVars
  \/ error /\ Fault("lost") /\ Release(proc.sb, proc.ip, TRUE)

(* deleteNATGWOutgoingIP; a failure is at most logged. *)
deleteNATGWOutgoingIP(i) ==
  \/ nat' = nat \ {i} /\ UNCHANGED natDirty
  \/ "ipset" \in FaultKinds /\ i \in nat /\ UNCHANGED nat /\ natDirty' = TRUE

(* The rollback deletes the ipset entry only if this ADD has added it. *)
rollbackNATGWOutgoingIP_Dropped == UNCHANGED natVars
rollbackNATGWOutgoingIP ==
  IF proc.nat THEN deleteNATGWOutgoingIP(proc.ip) ELSE UNCHANGED natVars

(* The process returns.  After a failed ADD kubelet tears the sandbox      *)
(* down; a failed DEL it repeats.                                          *)
AddFails ==
  /\ sb' = [sb EXCEPT ![proc.sb] = "deleting"]
  /\ proc' = NoProc
DelFails == proc' = NoProc /\ UNCHANGED <<sb, net>>
DelOK ==
  /\ sb' = [sb EXCEPT ![proc.sb] = "gone"]
  /\ net' = [net EXCEPT ![proc.sb] = NoIP]
  /\ proc' = NoProc

----------------------------------------------------------------------------
(* cmdAdd.                                                                 *)

(* kubelet creates a sandbox for a pod that has no other. *)
StartAdd(s) ==
  /\ proc.op = "none"
  /\ sb[s] = "none"
  /\ api[PodOf[s]] = "live"
  /\ \A t \in Sandbox : PodOf[t] = PodOf[s] => sb[t] \in {"none", "gone"}
  /\ sb' = [sb EXCEPT ![s] = "adding"]
  /\ proc' = [NoProc EXCEPT !.op = "ADD", !.sb = s, !.pc = "assign"]
  /\ UNCHANGED <<api, net, rec, relVars, up, natVars, gc, history>>

(* assignPodIp: from ipamd, or from the VPC while ipamd does not answer.   *)
(* The address of a lost answer stays taken.  ipamd drops a pool entry     *)
(* that is no longer attached.                                             *)
assignPodIp ==
  /\ At("ADD", "assign")
  /\ \/ \E i \in IP :
          /\ \/ up /\ AddPodNetwork(i)
             \/ ~up /\ i \notin attached /\ attached' = attached \cup {i} /\ UNCHANGED pool
          /\ \/ /\ proc' = [proc EXCEPT !.pc = "check", !.ip = i, !.uid = up]
                /\ UNCHANGED <<sb, history>>
             \/ Fault("lost") /\ AddFails
     \/ \E i \in pool \ attached : up /\ pool' = pool \ {i} /\ AddFails /\ UNCHANGED <<attached, history>>
     \/ (up => pool = {}) /\ attached = IP /\ AddFails /\ UNCHANGED <<attached, pool, history>>
     \/ Fault("api") /\ AddFails /\ UNCHANGED <<attached, pool>>
  /\ UNCHANGED <<api, net, rec, cool, freed, hazards, up, natVars, gc>>

(* The checks of the master interface; for an address that does not come   *)
(* from ipamd also proxy ARP and the conflict detection.                   *)
checkMasterInterface ==
  /\ At("ADD", "check")
  /\ \/ Goto("nat") /\ UNCHANGED history
     \/ Fault("host") /\ Goto("rollback")
  /\ UNCHANGED <<kubeVars, net, rec, relVars, up, natVars, gc>>

syncNATGWOutgoingIP ==
  /\ At("ADD", "nat")
  /\ \/ /\ PodOf[proc.sb] \notin NatPod
        /\ Goto("veth")
        /\ UNCHANGED <<natVars, history>>
     \/ /\ PodOf[proc.sb] \in NatPod
        /\ nat' = nat \cup {proc.ip}
        /\ proc' = [proc EXCEPT !.pc = "veth", !.nat = proc.ip \notin nat]
        /\ UNCHANGED <<natDirty, history>>
     \/ /\ PodOf[proc.sb] \in NatPod
        /\ Fault("ipset")
        /\ Goto("veth")
        /\ natDirty' = TRUE
        /\ UNCHANGED nat
  /\ UNCHANGED <<kubeVars, net, rec, relVars, up, gc>>

setupPodVethNetwork_NoReturn ==
  /\ At("ADD", "veth")
  /\ net' = [net EXCEPT ![proc.sb] = proc.ip]
  /\ \/ UNCHANGED <<relVars, history>>
     \/ Fault("host") /\ Release(proc.sb, proc.ip, TRUE)
  /\ Goto("record")
  /\ UNCHANGED <<kubeVars, rec, up, natVars, gc>>

(* setupPodVethNetwork and setNodePortRange: some of their failures        *)
(* release the address before they return, and then the caller does.       *)
setupPodVethNetwork ==
  /\ At("ADD", "veth")
  /\ \/ Goto("record") /\ net' = [net EXCEPT ![proc.sb] = proc.ip] /\ UNCHANGED history
     \/ /\ Fault("host")
        /\ net' \in {net, [net EXCEPT ![proc.sb] = proc.ip]}
        /\ \E pc \in {"inner", "rollback"} : Goto(pc)
  /\ UNCHANGED <<kubeVars, rec, relVars, up, natVars, gc>>

innerRelease ==
  /\ At("ADD", "inner")
  /\ \E error \in BOOLEAN : releasePodIp(error)
  /\ Goto("rollback")
  /\ UNCHANGED <<kubeVars, net, rec, up, natVars, gc>>

rollbackReleaseIP_NatOnly ==
  /\ At("ADD", "rollback")
  /\ rollbackNATGWOutgoingIP
  /\ AddFails
  /\ UNCHANGED <<api, net, rec, relVars, up, gc, history>>

(* An error of this release is only logged. *)
rollbackReleaseIP ==
  /\ At("ADD", "rollback")
  /\ rollbackNATGWOutgoingIP
  /\ \E error \in BOOLEAN : releasePodIp(error)
  /\ AddFails
  /\ UNCHANGED <<api, net, rec, up, gc>>

(* addPodNetworkRecord.  A failure does not release the address, unless    *)
(* the plugin itself cannot open the file.  The deferred function rolls    *)
(* the ipset back.                                                         *)
addPodNetworkRecord ==
  /\ At("ADD", "record")
  /\ \/ /\ rec' = [rec EXCEPT ![proc.sb] = [ip |-> proc.ip, uid |-> proc.uid]]
        /\ \/ Goto("portmap") /\ UNCHANGED <<sb, natVars, history>>
           \/ up /\ Fault("lost") /\ AddFails /\ rollbackNATGWOutgoingIP
        /\ UNCHANGED relVars
     \/ /\ Fault("db") /\ AddFails /\ rollbackNATGWOutgoingIP
        /\ UNCHANGED <<rec, relVars>>
     \/ /\ ~up /\ Fault("db") /\ AddFails /\ rollbackNATGWOutgoingIP
        /\ Release(proc.sb, proc.ip, TRUE)
        /\ UNCHANGED rec
  /\ UNCHANGED <<api, net, up, gc>>

(* portmap.CmdAdd, the last step; a failure leaves address and record to   *)
(* the DEL that follows.                                                   *)
portmapCmdAdd ==
  /\ At("ADD", "portmap")
  /\ \/ /\ sb' = [sb EXCEPT ![proc.sb] = "running"]
        /\ proc' = NoProc
        /\ UNCHANGED <<natVars, history>>
     \/ Fault("host") /\ AddFails /\ rollbackNATGWOutgoingIP
  /\ UNCHANGED <<api, net, rec, relVars, up, gc>>

----------------------------------------------------------------------------
(* cmdDel.                                                                 *)

(* kubelet calls DEL until it succeeds, and may call it again later. *)
StartDel(s) ==
  /\ proc.op = "none"
  /\ \/ sb[s] = "deleting" /\ UNCHANGED history
     \/ sb[s] = "gone" /\ Fault("redel")
  /\ proc' = [NoProc EXCEPT !.op = "DEL", !.sb = s, !.pc = "get"]
  /\ UNCHANGED <<kubeVars, net, rec, relVars, up, natVars, gc>>

getPodNetworkRecord_NilUsed ==
  /\ At("DEL", "get")
  /\ proc' = [proc EXCEPT !.pc = "natdel", !.ip = rec[proc.sb].ip]
  /\ UNCHANGED <<kubeVars, net, rec, relVars, up, natVars, gc, history>>
getPodNetworkRecord_NotFoundFails ==
  /\ At("DEL", "get")
  /\ \/ /\ rec[proc.sb] # NoRec
        /\ proc' = [proc EXCEPT !.pc = "natdel", !.ip = rec[proc.sb].ip]
        /\ UNCHANGED <<sb, net>>
     \/ rec[proc.sb] = NoRec /\ DelFails
  /\ UNCHANGED <<api, rec, relVars, up, natVars, gc, history>>

(* A missing record is an error for the plugin's own lookup and nil for    *)
(* ipamd's; every error counts as "deleted by a previous DEL".             *)
getPodNetworkRecord ==
  /\ At("DEL", "get")
  /\ \/ /\ rec[proc.sb] # NoRec
        /\ proc' = [proc EXCEPT !.pc = "natdel", !.ip = rec[proc.sb].ip]
        /\ UNCHANGED <<sb, net, history>>
     \/ rec[proc.sb] = NoRec /\ up /\ Goto("iface") /\ UNCHANGED <<sb, net, history>>
     \/ rec[proc.sb] = NoRec /\ ~up /\ DelOK /\ UNCHANGED history
     \/ Fault("db") /\ DelOK
  /\ UNCHANGED <<api, rec, relVars, up, natVars, gc>>

cleanUpIPRoutePolicy ==
  /\ At("DEL", "natdel")
  /\ deleteNATGWOutgoingIP(proc.ip)
  /\ \/ Goto("release") /\ UNCHANGED <<sb, net, history>>
     \/ Fault("host") /\ DelFails
  /\ Notice(proc.sb, proc.ip, TRUE)
  /\ UNCHANGED <<api, rec, ipamVars, freed, up, gc>>

DelRelease ==
  /\ At("DEL", "release")
  /\ \/ releasePodIp(FALSE) /\ Goto("delrec") /\ UNCHANGED <<sb, net>>
     \/ releasePodIp(TRUE) /\ DelFails
  /\ UNCHANGED <<api, rec, up, natVars, gc>>

(* A failure is only logged. *)
delPodNetworkRecord ==
  /\ At("DEL", "delrec")
  /\ \/ rec' = [rec EXCEPT ![proc.sb] = NoRec] /\ UNCHANGED history
     \/ Fault("db") /\ UNCHANGED rec
  /\ Goto("iface")
  /\ UNCHANGED <<kubeVars, net, relVars, up, natVars, gc>>

(* portmap.CmdDel and the removal of the interface. *)
DelInterface ==
  /\ At("DEL", "iface")
  /\ \/ DelOK /\ UNCHANGED history
     \/ Fault("host") /\ DelFails
  /\ UNCHANGED <<api, rec, relVars, up, natVars, gc>>

(* The process dies; the lock file of a dead process does not block. *)
tickSuicide ==
  /\ proc.op # "none"
  /\ Fault("kill")
  /\ IF proc.op = "ADD" THEN AddFails /\ natDirty' = TRUE
                        ELSE proc' = NoProc /\ UNCHANGED <<sb, natDirty>>
  /\ UNCHANGED <<api, net, rec, relVars, up, nat, gc>>

----------------------------------------------------------------------------
(* ipamd's doReconcile: list the pods, list the records, fill in missing   *)
(* UIDs, delete the records of pods that were not in the list.             *)

ReconcileListPods ==
  /\ up /\ gc.pc = "idle"
  /\ gc' = [gc EXCEPT !.pc = "pods", !.pods = {p \in Pod : api[p] = "live"}]
  /\ UNCHANGED <<kubeVars, net, rec, relVars, up, natVars, proc, history>>

Recorded == {s \in Sandbox : rec[s] # NoRec}
Complete == {s \in Recorded : PodOf[s] \in gc.pods /\ ~rec[s].uid}
Orphans_NoUID == {s \in Recorded : (PodOf[s] \notin gc.pods \/ ~rec[s].uid) /\ gc.pods # {}}
Orphans == {s \in Recorded : PodOf[s] \notin gc.pods /\ gc.pods # {}}

ReconcileListRecords ==
  /\ gc.pc = "pods"
  /\ gc' = [pc |-> "work", pods |-> {}, del |-> Orphans,
            put |-> [s \in Sandbox |-> IF s \in Complete THEN rec[s].ip ELSE NoIP]]
  /\ hazards' = IF \E s \in Recorded : api[PodOf[s]] = "live" /\ PodOf[s] \notin gc.pods
                THEN hazards \cup {"staleList"} ELSE hazards
  /\ UNCHANGED <<kubeVars, net, rec, ipamVars, freed, up, natVars, proc, history>>

ReconcilePut(s) ==
  /\ gc.pc = "work" /\ gc.put[s] # NoIP
  /\ \/ rec' = [rec EXCEPT ![s] = [ip |-> gc.put[s], uid |-> TRUE]] /\ UNCHANGED history
     \/ Fault("db") /\ UNCHANGED rec
  /\ gc' = [gc EXCEPT !.put[s] = NoIP]
  /\ UNCHANGED <<kubeVars, net, relVars, up, natVars, proc>>

ReconcileDelete(s) ==
  /\ gc.pc = "work" /\ gc.put = NoGC.put /\ s \in gc.del
  /\ \/ rec' = [rec EXCEPT ![s] = NoRec] /\ UNCHANGED history
     \/ Fault("db") /\ UNCHANGED rec
  /\ gc' = [gc EXCEPT !.del = @ \ {s}]
  /\ UNCHANGED <<kubeVars, net, relVars, up, natVars, proc>>

ReconcileEnd ==
  /\ gc.pc = "work" /\ gc.put = NoGC.put /\ gc.del = {}
  /\ gc' = NoGC
  /\ UNCHANGED <<kubeVars, net, rec, relVars, up, natVars, proc, history>>

----------------------------------------------------------------------------
(* The world around the plugin.                                            *)

CreatePod(p) ==
  /\ api[p] = "new"
  /\ api' = [api EXCEPT ![p] = "live"]
  /\ UNCHANGED <<sb, net, rec, relVars, up, natVars, proc, gc, history>>

StopSandbox(s) ==
  /\ sb[s] = "running"
  /\ sb' = [sb EXCEPT ![s] = "deleting"]
  /\ UNCHANGED <<api, net, rec, relVars, up, natVars, proc, gc, history>>

(* kubelet removes the API object after the last sandbox; a forced delete  *)
(* removes it at once.                                                     *)
DeletePod(p) ==
  /\ api[p] = "live"
  /\ \/ UNCHANGED history /\ \A s \in Sandbox : PodOf[s] = p => sb[s] \in {"none", "gone"}
     \/ Fault("force")
  /\ api' = [api EXCEPT ![p] = "gone"]
  /\ UNCHANGED <<sb, net, rec, relVars, up, natVars, proc, gc>>

(* ipamd goes away and comes back (an upgrade, a crash); pool, cooldown    *)
(* set and records are in its file.                                        *)
IpamdSwitch ==
  /\ up' = ~up
  /\ gc' = NoGC
  /\ UNCHANGED <<kubeVars, net, rec, relVars, natVars, proc, history>>

(* ipamd recycles a cooled-down address, and releases or lends a pooled    *)
(* one.                                                                    *)
CooldownOver(i) ==
  /\ up /\ i \in cool
  /\ cool' = cool \ {i} /\ pool' = pool \cup {i}
  /\ UNCHANGED <<kubeVars, net, rec, attached, freed, hazards, up, natVars, proc, gc, history>>

PoolDrop(i) ==
  /\ up /\ i \in pool
  /\ pool' = pool \ {i} /\ attached' = attached \ {i}
  /\ UNCHANGED <<kubeVars, net, rec, cool, freed, hazards, up, natVars, proc, gc, history>>

AddStep == \/ assignPodIp \/ checkMasterInterface \/ syncNATGWOutgoingIP \/ setupPodVethNetwork
           \/ innerRelease \/ rollbackReleaseIP \/ addPodNetworkRecord \/ portmapCmdAdd
DelStep == \/ getPodNetworkRecord \/ cleanUpIPRoutePolicy \/ DelRelease
           \/ delPodNetworkRecord \/ DelInterface
ReconcileStep == \/ ReconcileListPods \/ ReconcileListRecords \/ ReconcileEnd
                 \/ \E s \in Sandbox : ReconcilePut(s) \/ ReconcileDelete(s)
WorldStep == \/ \E p \in Pod : CreatePod(p) \/ DeletePod(p)
             \/ \E s \in Sandbox : StopSandbox(s)
             \/ \E i \in IP : CooldownOver(i) \/ PoolDrop(i)
             \/ IpamdSwitch

Next ==
  \/ \E s \in Sandbox : StartAdd(s) \/ StartDel(s)
  \/ AddStep \/ DelStep \/ tickSuicide
  \/ ReconcileStep
  \/ WorldStep

Spec == Init /\ [][Next]_vars

(* kubelet repeats DEL and a process that can go on does. *)
FairSpec ==
  /\ Spec
  /\ WF_vars(AddStep) /\ WF_vars(DelStep)
  /\ \A s \in Sandbox : WF_vars(StartDel(s))

----------------------------------------------------------------------------
(* Properties.                                                             *)

Running == {s \in Sandbox : sb[s] = "running"}

(* The address of a running pod is attached to the node, ipamd does not    *)
(* think it free, and neither another running pod nor the ADD in progress  *)
(* has it: what rollbacks, repeated DELs, the reconciler and the switch    *)
(* between ipamd and the VPC must preserve until an outdated release.      *)
InUse(s) ==
  /\ net[s] \in attached
  /\ net[s] \notin pool \cup cool
  /\ \A t \in Running \ {s} : net[t] # net[s]
  /\ proc.op = "ADD" => proc.ip # net[s]
UniqueUse == hazards = {} => \A s \in Running : InUse(s)

(* The record of a running pod names its address, so that its DEL releases *)
(* it, whatever the reconciler and earlier failed calls did, until the     *)
(* reconciler works with an outdated list of pods.                         *)
RecordKept ==
  hazards = {} => \A s \in Running : api[PodOf[s]] = "live" => rec[s].ip = net[s]

(* Addresses attached to the node that ipamd does not have, no process     *)
(* holds and no DEL will find.                                             *)
Leaked == attached \ (pool \cup cool \cup {proc.ip} \cup {rec[s].ip : s \in {t \in Sandbox : sb[t] # "gone"}})

(* A failure on the host costs no address, since cmdAdd rolls back and     *)
(* kubelet repeats DEL; a lost answer, a dead process, a failing release   *)
(* or database costs at most one.                                          *)
LeakBound == hazards = {} => Cardinality(Leaked) <= losses

(* A running pod bypasses the node's SNAT exactly if its PodNetworking     *)
(* says so: no ADD that failed and no pod that is gone leaves its address  *)
(* in the ipset for the next pod, as long as ipset calls succeed and no    *)
(* ADD dies.                                                               *)
NatMatches ==
  hazards = {} /\ ~natDirty => \A s \in Running : net[s] \in nat <=> PodOf[s] \in NatPod

(* A sandbox that kubelet tears down is gone in the end: no failure of DEL *)
(* repeats forever.                                                        *)
TeardownEnds == \A s \in Sandbox : sb[s] = "deleting" ~> sb[s] = "gone"

(* Bound: nothing is claimed after the first hazardous event. *)
NoHazardYet == hazards = {}
============================================================================
