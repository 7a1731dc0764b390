-------------------------- MODULE CniPluginProofs --------------------------
(***************************************************************************)
(* The invariants of CniPlugin for every set of pods, sandboxes and        *)
(* addresses and every number of faults.                                   *)
(***************************************************************************)
EXTENDS CniPlugin, FiniteSetTheorems, TLAPS

----------------------------------------------------------------------------
(* Types.                                                                  *)

ProcType == [op : {"none", "ADD", "DEL"}, sb : Sandbox \cup {NoSandbox},
             pc : {"idle"} \cup AddPC \cup DelPC, ip : IP \cup {NoIP},
             uid : BOOLEAN, nat : BOOLEAN]
GCType == [pc : {"idle", "pods", "work"}, pods : SUBSET Pod,
           put : [Sandbox -> IP \cup {NoIP}], del : SUBSET Sandbox]

(* Each conjunct of the type invariant, for the variables an action        *)
(* changes together.                                                       *)
KubeType == api \in [Pod -> {"new", "live", "gone"}]
SbType == sb \in [Sandbox -> {"none", "adding", "running", "deleting", "gone"}]
NetType == net \in [Sandbox -> IP \cup {NoIP}]
RecType == rec \in [Sandbox -> Record]
PoolType == attached \in SUBSET IP /\ pool \in SUBSET IP /\ cool \in SUBSET IP
RelType == PoolType /\ freed \in SUBSET Sandbox /\ hazards \in SUBSET Hazard
NatType == nat \in SUBSET IP /\ natDirty \in BOOLEAN
FaultType == faults \in 0..MaxFaults /\ losses \in 0..faults
ProcOK == proc \in ProcType
GCOK == gc \in GCType

(* The type invariant is the conjunction of these parts. *)
LEMMA TypeParts ==
  TypeOK <=> /\ KubeType /\ SbType /\ NetType /\ RecType /\ RelType /\ NatType
             /\ FaultType /\ ProcOK /\ GCOK /\ up \in BOOLEAN
BY DEF TypeOK, KubeType, SbType, NetType, RecType, PoolType, RelType, NatType,
       FaultType, ProcOK, GCOK, ProcType, GCType

(* A fault counts within its bound. *)
LEMMA FaultTypes ==
  ASSUME FaultType, NEW k, Fault(k)
  PROVE  FaultType' /\ losses' \in {losses, losses + 1}
                    /\ (k \notin {"host", "ipset"} => losses' = losses + 1)
BY PluginAssumption DEF FaultType, Fault

LEMMA NoProcTypes == NoProc \in ProcType /\ NoProc.op = "none"
BY DEF NoProc, ProcType

LEMMA NoGCTypes == NoGC \in GCType
BY DEF NoGC, GCType

(* What the steps of the process write. *)
LEMMA GotoTypes ==
  ASSUME ProcOK, NEW pc \in AddPC \cup DelPC, Goto(pc)
  PROVE  ProcOK'
BY DEF ProcOK, ProcType, Goto

LEMMA AddFailsTypes ==
  ASSUME SbType, AddFails
  PROVE  SbType' /\ ProcOK'
BY NoProcTypes DEF SbType, ProcOK, AddFails

LEMMA DelEndTypes ==
  ASSUME SbType, NetType, DelFails \/ DelOK
  PROVE  SbType' /\ NetType' /\ ProcOK'
BY NoProcTypes DEF SbType, NetType, ProcOK, DelFails, DelOK

LEMMA NatDeleteTypes ==
  ASSUME NatType, NEW i, deleteNATGWOutgoingIP(i)
  PROVE  NatType'
BY DEF NatType, deleteNATGWOutgoingIP

LEMMA RollbackTypes ==
  ASSUME NatType, rollbackNATGWOutgoingIP
  PROVE  NatType'
BY DEF NatType, rollbackNATGWOutgoingIP, deleteNATGWOutgoingIP, natVars

(* A release of an address of the subnet for a sandbox. *)
LEMMA ReleaseTypes ==
  ASSUME RelType, NEW s \in Sandbox, NEW i \in IP, NEW stored, Release(s, i, stored)
  PROVE  RelType'
BY DEF RelType, PoolType, Release, DelPodNetwork, deallocateSecondaryIP, Notice, ipamVars, Hazard

LEMMA ReleasePodTypes ==
  ASSUME RelType, FaultType, proc.sb \in Sandbox, proc.ip \in IP,
         NEW error \in BOOLEAN, releasePodIp(error)
  PROVE  RelType' /\ FaultType'
<1>1. CASE ~error /\ Release(proc.sb, proc.ip, TRUE) /\ UNCHANGED history
  <2> FaultType' BY <1>1 DEF FaultType, history
  <2> QED BY <1>1, ReleaseTypes
<1>2. CASE ~error /\ up /\ Fault("db") /\ Release(proc.sb, proc.ip, FALSE)
  BY <1>2, ReleaseTypes, FaultTypes
<1>3. CASE error /\ Fault("api") /\ UNCHANGED relVars
  BY <1>3, FaultTypes DEF RelType, PoolType, relVars, ipamVars
<1>4. CASE error /\ Fault("lost") /\ Release(proc.sb, proc.ip, TRUE)
  BY <1>4, ReleaseTypes, FaultTypes
<1> QED BY <1>1, <1>2, <1>3, <1>4 DEF releasePodIp

----------------------------------------------------------------------------
(* The shape of a reachable state: what the process that runs, the         *)
(* sandboxes and the records have to do with each other.                   *)

Busy == {"check", "nat", "veth", "inner", "record", "portmap"}

(* A sandbox that has never had an address. *)
Fresh(s) == rec[s] = NoRec /\ net[s] = NoIP /\ gc.put[s] = NoIP /\ s \notin freed

(* The process by itself ... *)
ProcCtl ==
  /\ proc.op = "none" => proc = NoProc
  /\ proc.op = "ADD" => /\ proc.pc \in AddPC /\ proc.sb \in Sandbox
                        /\ proc.pc = "assign" => proc.ip = NoIP
                        /\ proc.pc # "assign" => proc.ip \in IP
  /\ proc.op = "DEL" => /\ proc.pc \in DelPC /\ proc.sb \in Sandbox
                        /\ proc.pc \in {"natdel", "release", "delrec"} => proc.ip \in IP

(* ... what kubelet knows of its sandbox ... *)
ProcSb ==
  /\ proc.op = "ADD" => sb[proc.sb] = "adding"
  /\ proc.op = "DEL" => sb[proc.sb] \in {"deleting", "gone"}
  /\ \A s \in Sandbox : sb[s] = "adding" => proc.op = "ADD" /\ proc.sb = s

(* ... and what it has done to the sandbox.                                *)
Progress ==
  /\ At("ADD", "assign") => Fresh(proc.sb)
  /\ proc.op = "ADD" /\ proc.pc \in Busy => proc.sb \notin freed
  /\ proc.op = "ADD" /\ proc.pc \in {"record", "portmap"} => net[proc.sb] = proc.ip
  /\ At("DEL", "delrec") => proc.sb \in freed

(* Unused sandboxes are fresh, running ones have an address. *)
SbShape ==
  \A s \in Sandbox : /\ rec[s] = NoRec \/ rec[s].ip \in IP
                     /\ sb[s] = "none" => Fresh(s)
                     /\ sb[s] = "running" => s \notin freed /\ net[s] \in IP

(* A pod has at most one sandbox at a time. *)
PodShape ==
  \A s \in Sandbox : /\ sb[s] # "none" => api[PodOf[s]] # "new"
                     /\ \A t \in Sandbox : PodOf[t] = PodOf[s] /\ s # t =>
                          sb[s] \in {"none", "gone"} \/ sb[t] \in {"none", "gone"}

Shape == TypeOK /\ ProcCtl /\ ProcSb /\ Progress /\ SbShape /\ PodShape

LEMMA ShapeParts ==
  Shape => /\ KubeType /\ SbType /\ NetType /\ RecType /\ RelType /\ NatType
           /\ FaultType /\ ProcOK /\ GCOK /\ up \in BOOLEAN
           /\ ProcCtl /\ ProcSb /\ Progress /\ SbShape /\ PodShape
BY TypeParts DEF Shape

LEMMA ShapeFromParts ==
  ASSUME KubeType', SbType', NetType', RecType', RelType', NatType', FaultType', ProcOK', GCOK',
         (up \in BOOLEAN)', ProcCtl', ProcSb', Progress', SbShape', PodShape'
  PROVE  Shape'
BY TypeParts, PTL DEF Shape

LEMMA ShapeInit == Init => Shape
<1> SUFFICES ASSUME Init PROVE Shape OBVIOUS
<1>a. KubeType /\ SbType /\ NetType /\ NatType /\ ProcOK /\ GCOK /\ up \in BOOLEAN
  BY NoProcTypes, NoGCTypes DEF Init, KubeType, SbType, NetType, NatType, ProcOK, GCOK
<1>b. RecType BY DEF Init, RecType, NoRec, Record
<1>c. RelType BY PluginAssumption DEF Init, RelType, PoolType
<1>d. FaultType BY PluginAssumption DEF Init, FaultType
<1>1. TypeOK BY <1>a, <1>b, <1>c, <1>d, TypeParts
<1>2. ProcCtl /\ ProcSb /\ Progress
  BY NoProcTypes DEF Init, ProcCtl, ProcSb, Progress, At
<1>3. SbShape /\ PodShape
  BY DEF Init, SbShape, PodShape, Fresh, NoGC
<1> QED BY <1>1, <1>2, <1>3 DEF Shape

(* What the start of a process does to the shape. *)
LEMMA ShapeStartAdd ==
  ASSUME Shape, NEW s \in Sandbox, StartAdd(s)
  PROVE  Shape'
<1>0. /\ SbType /\ ProcCtl /\ ProcSb /\ Progress /\ SbShape /\ PodShape
  BY ShapeParts
<1>u. UNCHANGED <<api, net, rec, attached, pool, cool, freed, hazards, up, nat, natDirty, gc, faults, losses>>
  BY DEF StartAdd, relVars, ipamVars, natVars, history
<1>p. proc' = [op |-> "ADD", sb |-> s, pc |-> "assign", ip |-> NoIP, uid |-> FALSE, nat |-> FALSE]
  BY DEF StartAdd, NoProc
<1>s. sb[s] = "none" /\ sb' = [sb EXCEPT ![s] = "adding"] /\ proc.op = "none" /\ api[PodOf[s]] = "live"
      /\ \A t \in Sandbox : PodOf[t] = PodOf[s] => sb[t] \in {"none", "gone"}
  BY DEF StartAdd
<1>1. KubeType' /\ SbType' /\ NetType' /\ RecType' /\ RelType' /\ NatType' /\ FaultType' /\ GCOK' /\ (up \in BOOLEAN)'
  BY <1>u, <1>s, ShapeParts DEF KubeType, SbType, NetType, RecType, RelType, PoolType, NatType, FaultType, GCOK
<1>2. ProcOK' BY <1>p DEF ProcOK, ProcType, AddPC
<1>3. ProcCtl' BY <1>p DEF ProcCtl, AddPC
<1>4. ProcSb' BY <1>p, <1>s, <1>0 DEF ProcSb, SbType
<1>5. Progress' BY <1>p, <1>s, <1>u, <1>0 DEF Progress, SbShape, At, Busy, Fresh
<1>6. SbShape' BY <1>s, <1>u, <1>0 DEF SbShape, SbType, Fresh
<1>7. PodShape' BY <1>s, <1>u, <1>0 DEF PodShape, SbType
<1> QED BY <1>1, <1>2, <1>3, <1>4, <1>5, <1>6, <1>7, ShapeFromParts

LEMMA ShapeStartDel ==
  ASSUME Shape, NEW s \in Sandbox, StartDel(s)
  PROVE  Shape'
<1>0. /\ SbType /\ ProcCtl /\ ProcSb /\ Progress /\ SbShape /\ PodShape
  BY ShapeParts
<1>u. UNCHANGED <<api, sb, net, rec, attached, pool, cool, freed, hazards, up, nat, natDirty, gc>>
  BY DEF StartDel, relVars, ipamVars, natVars, kubeVars
<1>p. proc' = [op |-> "DEL", sb |-> s, pc |-> "get", ip |-> NoIP, uid |-> FALSE, nat |-> FALSE]
  BY DEF StartDel, NoProc
<1>s. sb[s] \in {"deleting", "gone"} /\ proc.op = "none"
  BY DEF StartDel
<1>1. KubeType' /\ SbType' /\ NetType' /\ RecType' /\ RelType' /\ NatType' /\ GCOK' /\ (up \in BOOLEAN)'
  BY <1>u, <1>s, ShapeParts DEF KubeType, SbType, NetType, RecType, RelType, PoolType, NatType, GCOK
<1>2. ProcOK' BY <1>p DEF ProcOK, ProcType, DelPC
<1>3. ProcCtl' BY <1>p DEF ProcCtl, DelPC
<1>4. ProcSb' BY <1>p, <1>s, <1>u, <1>0 DEF ProcSb, SbType
<1>5. Progress' BY <1>p, <1>s, <1>u, <1>0 DEF Progress, At
<1>6. SbShape' BY <1>u, <1>0 DEF SbShape, Fresh
<1>7. PodShape' BY <1>u, <1>0 DEF PodShape
<1>8. FaultType' BY ShapeParts, FaultTypes DEF StartDel, FaultType, history
<1> QED BY <1>1, <1>2, <1>3, <1>4, <1>5, <1>6, <1>7, <1>8, ShapeFromParts

(* A step of the process changes only what belongs to its own sandbox. *)
OnlyMine ==
  /\ UNCHANGED <<api, gc>>
  /\ \A t \in Sandbox : t # proc.sb => rec'[t] = rec[t] /\ net'[t] = net[t] /\ (t \in freed' <=> t \in freed)
  /\ rec'[proc.sb] = NoRec \/ rec'[proc.sb].ip \in IP

(* The process goes on ... *)
LEMMA ShapeMove ==
  ASSUME Shape, proc.op # "none", OnlyMine, UNCHANGED sb,
         proc'.op = proc.op, proc'.sb = proc.sb, ProcCtl', Progress'
  PROVE  ProcSb' /\ SbShape' /\ PodShape'
<1>0. ProcCtl /\ ProcSb /\ SbShape /\ PodShape /\ ProcOK BY ShapeParts
<1>1. proc.op \in {"ADD", "DEL"} /\ proc.sb \in Sandbox BY <1>0 DEF ProcCtl, ProcOK, ProcType
<1>2. ProcSb' BY <1>0 DEF ProcSb
<1>3. PodShape' BY <1>0 DEF PodShape, OnlyMine
<1>4. SbShape'
  <2> SUFFICES ASSUME NEW s \in Sandbox
               PROVE  /\ rec'[s] = NoRec \/ rec'[s].ip \in IP
                      /\ sb[s] = "none" => Fresh(s)'
                      /\ sb[s] = "running" => s \notin freed' /\ net'[s] \in IP
    BY DEF SbShape
  <2>1. CASE s = proc.sb
    BY <2>1, <1>0, <1>1 DEF ProcSb, OnlyMine
  <2>2. CASE s # proc.sb
    BY <2>2, <1>0 DEF SbShape, OnlyMine, Fresh
  <2> QED BY <2>1, <2>2
<1> QED BY <1>2, <1>3, <1>4

(* ... or returns, and kubelet may hear of it. *)
LEMMA ShapeEnd ==
  ASSUME Shape, proc.op # "none", OnlyMine, proc' = NoProc,
         NEW st \in {"running", "deleting", "gone"},
         \/ sb' = [sb EXCEPT ![proc.sb] = st]
         \/ UNCHANGED sb /\ proc.op = "DEL",
         proc.op = "ADD" <=> st # "gone",
         st = "running" => proc.op = "ADD" /\ proc.sb \notin freed' /\ net'[proc.sb] \in IP
  PROVE  SbType' /\ ProcOK' /\ ProcCtl' /\ ProcSb' /\ Progress' /\ SbShape' /\ PodShape'
<1>0. ProcCtl /\ ProcSb /\ SbShape /\ PodShape /\ ProcOK /\ SbType BY ShapeParts
<1>1. proc.op \in {"ADD", "DEL"} /\ proc.sb \in Sandbox BY <1>0 DEF ProcCtl, ProcOK, ProcType
<1>n. proc'.op = "none" /\ ProcOK' BY NoProcTypes DEF ProcOK
<1>2. SbType' BY <1>0, <1>1 DEF SbType
<1>3. ProcCtl' BY <1>n DEF ProcCtl
<1>4. Progress' BY <1>n DEF Progress, At
<1>o. sb[proc.sb] \in {"adding", "deleting", "gone"} /\ sb'[proc.sb] \in {"running", "deleting", "gone"}
      /\ \A t \in Sandbox : t # proc.sb => sb'[t] = sb[t]
  BY <1>0, <1>1 DEF ProcSb, SbType
<1>5. ProcSb' BY <1>n, <1>0, <1>1, <1>o DEF ProcSb
<1>r. sb'[proc.sb] = "running" => proc.sb \notin freed' /\ net'[proc.sb] \in IP
  BY <1>0, <1>1 DEF SbType, ProcSb
<1>6. SbShape'
  <2> SUFFICES ASSUME NEW s \in Sandbox
               PROVE  /\ rec'[s] = NoRec \/ rec'[s].ip \in IP
                      /\ sb'[s] = "none" => Fresh(s)'
                      /\ sb'[s] = "running" => s \notin freed' /\ net'[s] \in IP
    BY DEF SbShape
  <2>1. CASE s = proc.sb
    BY <2>1, <1>o, <1>r, <1>1 DEF OnlyMine
  <2>2. CASE s # proc.sb
    BY <2>2, <1>0, <1>o DEF SbShape, OnlyMine, Fresh
  <2> QED BY <2>1, <2>2
<1>7. sb[proc.sb] = "gone" => sb'[proc.sb] = "gone"
  BY <1>0, <1>1 DEF SbType, ProcSb
<1>8. PodShape'
  <2>1. \A s \in Sandbox : sb[s] # "none" <=> sb'[s] # "none" BY <1>o
  <2>2. \A s \in Sandbox : sb[s] \in {"none", "gone"} => sb'[s] \in {"none", "gone"}
    BY <1>o, <1>7
  <2> QED BY <2>1, <2>2, <1>0 DEF PodShape, OnlyMine
<1> QED BY <1>n, <1>2, <1>3, <1>4, <1>5, <1>6, <1>8

(* Parts that do not mention the history of faults or what a step leaves   *)
(* alone keep their types.                                                 *)
LEMMA SameTypes ==
  /\ KubeType /\ UNCHANGED api => KubeType'
  /\ SbType /\ UNCHANGED sb => SbType'
  /\ NetType /\ UNCHANGED net => NetType'
  /\ RecType /\ UNCHANGED rec => RecType'
  /\ RelType /\ UNCHANGED relVars => RelType'
  /\ NatType /\ UNCHANGED natVars => NatType'
  /\ FaultType /\ UNCHANGED history => FaultType'
  /\ ProcOK /\ UNCHANGED proc => ProcOK'
  /\ GCOK /\ UNCHANGED gc => GCOK'
BY DEF KubeType, SbType, NetType, RecType, RelType, PoolType, NatType, FaultType, ProcOK, GCOK,
       relVars, ipamVars, natVars, history

(* The effects of Goto, and of a release, on the rest. *)
LEMMA GotoIs ==
  ASSUME ProcOK, NEW pc \in AddPC \cup DelPC, Goto(pc)
  PROVE  /\ ProcOK'
         /\ proc'.pc = pc /\ proc'.op = proc.op /\ proc'.sb = proc.sb /\ proc'.ip = proc.ip
         /\ proc'.uid = proc.uid /\ proc'.nat = proc.nat
BY DEF ProcOK, ProcType, Goto

LEMMA ReleaseFrees ==
  ASSUME NEW error \in BOOLEAN, releasePodIp(error)
  PROVE  /\ \A t \in Sandbox : t # proc.sb => (t \in freed' <=> t \in freed)
         /\ ~error => proc.sb \in freed'
         /\ freed \subseteq freed'
BY DEF releasePodIp, Release, relVars

LEMMA ShapeAssign ==
  ASSUME Shape, assignPodIp
  PROVE  Shape'
<1>0. /\ ProcCtl /\ ProcSb /\ Progress /\ SbShape /\ PodShape /\ ProcOK /\ SbType /\ RelType /\ FaultType
  BY ShapeParts
<1>1. proc.op = "ADD" /\ proc.pc = "assign" /\ proc.sb \in Sandbox /\ Fresh(proc.sb)
  BY <1>0 DEF assignPodIp, At, ProcCtl, Progress
<1>u. UNCHANGED <<api, net, rec, cool, freed, hazards, up, nat, natDirty, gc>>
  BY DEF assignPodIp, natVars
<1>o. OnlyMine BY <1>u, <1>0, <1>1 DEF OnlyMine, SbShape
<1>t. KubeType' /\ NetType' /\ RecType' /\ NatType' /\ GCOK' /\ (up \in BOOLEAN)'
  BY <1>u, SameTypes, ShapeParts DEF natVars
<1>r. RelType'
  BY <1>u, <1>0 DEF assignPodIp, AddPodNetwork, RelType, PoolType, history
<1>f. FaultType'
  BY <1>0, SameTypes, FaultTypes DEF assignPodIp
<1>2. CASE \E i \in IP : proc' = [proc EXCEPT !.pc = "check", !.ip = i, !.uid = up] /\ UNCHANGED <<sb, history>>
  <2>1. PICK i \in IP : proc' = [proc EXCEPT !.pc = "check", !.ip = i, !.uid = up] /\ UNCHANGED sb
    BY <1>2
  <2>2. /\ ProcOK'
        /\ proc'.pc = "check" /\ proc'.op = proc.op /\ proc'.sb = proc.sb /\ proc'.ip = i
    BY <2>1, <1>0, ShapeParts DEF ProcOK, ProcType, AddPC
  <2>3. ProcCtl' BY <2>2, <1>0, <1>1 DEF ProcCtl, AddPC
  <2>4. Progress' BY <2>2, <1>1, <1>u DEF Progress, At, Fresh
  <2>5. ProcSb' /\ SbShape' /\ PodShape' BY <2>1, <2>2, <2>3, <2>4, <1>1, <1>o, ShapeMove
  <2>6. SbType' BY <2>1, SameTypes, <1>0
  <2> QED BY <1>t, <1>r, <1>f, <2>2, <2>3, <2>4, <2>5, <2>6, ShapeFromParts
<1>3. CASE AddFails
  <2>1. SbType' /\ ProcOK' /\ ProcCtl' /\ ProcSb' /\ Progress' /\ SbShape' /\ PodShape'
    BY <1>3, <1>1, <1>o, ShapeEnd DEF AddFails
  <2> QED BY <1>t, <1>r, <1>f, <2>1, ShapeFromParts
<1> QED BY <1>2, <1>3 DEF assignPodIp

LEMMA ShapeCheck ==
  ASSUME Shape, checkMasterInterface
  PROVE  Shape'
<1>0. /\ ProcCtl /\ ProcSb /\ Progress /\ SbShape /\ PodShape /\ ProcOK /\ SbType /\ RelType /\ FaultType
  BY ShapeParts
<1>1. proc.op = "ADD" /\ proc.pc = "check" /\ proc.sb \in Sandbox /\ proc.ip \in IP /\ proc.sb \notin freed
  BY <1>0 DEF checkMasterInterface, At, ProcCtl, Progress, Busy
<1>u. UNCHANGED <<api, sb, net, rec, freed, up, gc, relVars, natVars>>
  BY DEF checkMasterInterface, kubeVars, relVars
<1>o. OnlyMine BY <1>u, <1>0, <1>1 DEF OnlyMine, SbShape
<1>t. KubeType' /\ SbType' /\ NetType' /\ RecType' /\ NatType' /\ GCOK' /\ RelType' /\ (up \in BOOLEAN)'
  BY <1>u, SameTypes, ShapeParts
<1>f. FaultType' BY <1>0, SameTypes, FaultTypes DEF checkMasterInterface
<1>2. PICK pc \in {"nat", "rollback"} : Goto(pc) BY DEF checkMasterInterface
<1>3. /\ ProcOK'
      /\ proc'.pc = pc /\ proc'.op = proc.op /\ proc'.sb = proc.sb /\ proc'.ip = proc.ip
  BY <1>2, <1>0, GotoIs DEF AddPC
<1>4. ProcCtl' BY <1>3, <1>1 DEF ProcCtl, AddPC
<1>5. Progress' BY <1>3, <1>1, <1>u DEF Progress, At
<1>6. ProcSb' /\ SbShape' /\ PodShape' BY <1>u, <1>3, <1>4, <1>5, <1>1, <1>o, ShapeMove
<1> QED BY <1>t, <1>f, <1>3, <1>4, <1>5, <1>6, ShapeFromParts

LEMMA ShapeNat ==
  ASSUME Shape, syncNATGWOutgoingIP
  PROVE  Shape'
<1>0. /\ ProcCtl /\ ProcSb /\ Progress /\ SbShape /\ PodShape /\ ProcOK /\ NatType /\ FaultType
  BY ShapeParts
<1>1. proc.op = "ADD" /\ proc.pc = "nat" /\ proc.sb \in Sandbox /\ proc.ip \in IP /\ proc.sb \notin freed
  BY <1>0 DEF syncNATGWOutgoingIP, At, ProcCtl, Progress, Busy
<1>u. UNCHANGED <<api, sb, net, rec, freed, up, gc, relVars>>
  BY DEF syncNATGWOutgoingIP, kubeVars, relVars
<1>o. OnlyMine BY <1>u, <1>0, <1>1 DEF OnlyMine, SbShape
<1>t. KubeType' /\ SbType' /\ NetType' /\ RecType' /\ GCOK' /\ RelType' /\ (up \in BOOLEAN)'
  BY <1>u, SameTypes, ShapeParts
<1>n. NatType' BY <1>0, <1>1 DEF syncNATGWOutgoingIP, NatType, natVars
<1>f. FaultType' BY <1>0, SameTypes, FaultTypes DEF syncNATGWOutgoingIP
<1>3. /\ ProcOK'
      /\ proc'.pc = "veth" /\ proc'.op = proc.op /\ proc'.sb = proc.sb /\ proc'.ip = proc.ip
  <2>1. CASE Goto("veth") BY <2>1, <1>0, GotoIs DEF AddPC
  <2>2. CASE proc' = [proc EXCEPT !.pc = "veth", !.nat = proc.ip \notin nat]
    BY <2>2, <1>0 DEF ProcOK, ProcType, AddPC
  <2> QED BY <2>1, <2>2 DEF syncNATGWOutgoingIP
<1>4. ProcCtl' BY <1>3, <1>1 DEF ProcCtl, AddPC
<1>5. Progress' BY <1>3, <1>1, <1>u DEF Progress, At
<1>6. ProcSb' /\ SbShape' /\ PodShape' BY <1>u, <1>3, <1>4, <1>5, <1>1, <1>o, ShapeMove
<1> QED BY <1>t, <1>n, <1>f, <1>3, <1>4, <1>5, <1>6, ShapeFromParts

LEMMA ShapeVeth ==
  ASSUME Shape, setupPodVethNetwork
  PROVE  Shape'
<1>0. /\ ProcCtl /\ ProcSb /\ Progress /\ SbShape /\ PodShape /\ ProcOK /\ NetType /\ FaultType
  BY ShapeParts
<1>1. proc.op = "ADD" /\ proc.pc = "veth" /\ proc.sb \in Sandbox /\ proc.ip \in IP /\ proc.sb \notin freed
  BY <1>0 DEF setupPodVethNetwork, At, ProcCtl, Progress, Busy
<1>u. UNCHANGED <<api, sb, rec, freed, up, gc, relVars, natVars>>
  BY DEF setupPodVethNetwork, kubeVars, relVars
<1>n. NetType' /\ \A t \in Sandbox : t # proc.sb => net'[t] = net[t]
  BY <1>0, <1>1 DEF setupPodVethNetwork, NetType
<1>o. OnlyMine BY <1>u, <1>n, <1>0, <1>1 DEF OnlyMine, SbShape
<1>t. KubeType' /\ SbType' /\ NatType' /\ RecType' /\ GCOK' /\ RelType' /\ (up \in BOOLEAN)'
  BY <1>u, SameTypes, ShapeParts
<1>f. FaultType' BY <1>0, SameTypes, FaultTypes DEF setupPodVethNetwork
<1>2. PICK pc \in {"record", "inner", "rollback"} :
        Goto(pc) /\ (pc = "record" => net' = [net EXCEPT ![proc.sb] = proc.ip])
  BY DEF setupPodVethNetwork
<1>3. /\ ProcOK'
      /\ proc'.pc = pc /\ proc'.op = proc.op /\ proc'.sb = proc.sb /\ proc'.ip = proc.ip
  BY <1>2, <1>0, GotoIs DEF AddPC
<1>4. ProcCtl' BY <1>3, <1>1 DEF ProcCtl, AddPC
<1>5. Progress' BY <1>2, <1>3, <1>1, <1>u, <1>0 DEF Progress, At, NetType
<1>6. ProcSb' /\ SbShape' /\ PodShape' BY <1>u, <1>3, <1>4, <1>5, <1>1, <1>o, ShapeMove
<1> QED BY <1>t, <1>n, <1>f, <1>3, <1>4, <1>5, <1>6, ShapeFromParts

LEMMA ShapeInner ==
  ASSUME Shape, innerRelease
  PROVE  Shape'
<1>0. /\ ProcCtl /\ ProcSb /\ Progress /\ SbShape /\ PodShape /\ ProcOK /\ RelType /\ FaultType
  BY ShapeParts
<1>1. proc.op = "ADD" /\ proc.pc = "inner" /\ proc.sb \in Sandbox /\ proc.ip \in IP
  BY <1>0 DEF innerRelease, At, ProcCtl
<1>u. UNCHANGED <<api, sb, net, rec, up, gc, natVars>>
  BY DEF innerRelease, kubeVars
<1>2. PICK error \in BOOLEAN : releasePodIp(error) BY DEF innerRelease
<1>r. RelType' /\ FaultType' BY <1>0, <1>1, <1>2, ReleasePodTypes
<1>o. OnlyMine BY <1>u, <1>2, <1>0, <1>1, ReleaseFrees DEF OnlyMine, SbShape
<1>t. KubeType' /\ SbType' /\ NetType' /\ NatType' /\ RecType' /\ GCOK' /\ (up \in BOOLEAN)'
  BY <1>u, SameTypes, ShapeParts
<1>3. /\ ProcOK'
      /\ proc'.pc = "rollback" /\ proc'.op = proc.op /\ proc'.sb = proc.sb /\ proc'.ip = proc.ip
  BY <1>0, GotoIs DEF AddPC, innerRelease
<1>4. ProcCtl' BY <1>3, <1>1 DEF ProcCtl, AddPC
<1>5. Progress' BY <1>3, <1>1 DEF Progress, At, Busy
<1>6. ProcSb' /\ SbShape' /\ PodShape' BY <1>u, <1>3, <1>4, <1>5, <1>1, <1>o, ShapeMove
<1> QED BY <1>t, <1>r, <1>3, <1>4, <1>5, <1>6, ShapeFromParts

LEMMA ShapeRollback ==
  ASSUME Shape, rollbackReleaseIP
  PROVE  Shape'
<1>0. ProcCtl /\ SbShape /\ RelType /\ FaultType /\ NatType BY ShapeParts
<1>1. proc.op = "ADD" /\ proc.sb \in Sandbox /\ proc.ip \in IP
  BY <1>0 DEF rollbackReleaseIP, At, ProcCtl
<1>u. UNCHANGED <<api, net, rec, up, gc>> /\ AddFails
  BY DEF rollbackReleaseIP
<1>2. PICK error \in BOOLEAN : releasePodIp(error) BY DEF rollbackReleaseIP
<1>r. RelType' /\ FaultType' BY <1>0, <1>1, <1>2, ReleasePodTypes
<1>n. NatType' BY <1>0, RollbackTypes DEF rollbackReleaseIP
<1>o. OnlyMine BY <1>u, <1>2, <1>0, <1>1, ReleaseFrees DEF OnlyMine, SbShape
<1>t. KubeType' /\ NetType' /\ RecType' /\ GCOK' /\ (up \in BOOLEAN)'
  BY <1>u, SameTypes, ShapeParts
<1>3. SbType' /\ ProcOK' /\ ProcCtl' /\ ProcSb' /\ Progress' /\ SbShape' /\ PodShape'
  BY <1>u, <1>1, <1>o, ShapeEnd DEF AddFails
<1> QED BY <1>t, <1>r, <1>n, <1>3, ShapeFromParts

LEMMA ShapeRecord ==
  ASSUME Shape, addPodNetworkRecord
  PROVE  Shape'
<1>0. /\ ProcCtl /\ ProcSb /\ Progress /\ SbShape /\ PodShape /\ ProcOK /\ RecType /\ RelType /\ NatType /\ FaultType
  BY ShapeParts
<1>1. proc.op = "ADD" /\ proc.pc = "record" /\ proc.sb \in Sandbox /\ proc.ip \in IP /\ proc.sb \notin freed
      /\ net[proc.sb] = proc.ip
  BY <1>0 DEF addPodNetworkRecord, At, ProcCtl, Progress, Busy
<1>u. UNCHANGED <<api, net, up, gc>>
  BY DEF addPodNetworkRecord
<1>n. NatType' BY <1>0, SameTypes, RollbackTypes DEF addPodNetworkRecord
<1>f. FaultType' BY <1>0, SameTypes, FaultTypes DEF addPodNetworkRecord
<1>r. RelType' BY <1>0, <1>1, SameTypes, ReleaseTypes DEF addPodNetworkRecord
<1>c. RecType' /\ (rec'[proc.sb] = NoRec \/ rec'[proc.sb].ip \in IP)
      /\ \A t \in Sandbox : t # proc.sb => rec'[t] = rec[t]
  <2>1. CASE UNCHANGED rec BY <2>1, <1>0, <1>1 DEF RecType, SbShape
  <2>2. CASE rec' = [rec EXCEPT ![proc.sb] = [ip |-> proc.ip, uid |-> proc.uid]]
    <3>1. [ip |-> proc.ip, uid |-> proc.uid] \in Record BY <1>0, <1>1 DEF Record, ProcOK, ProcType
    <3> QED BY <3>1, <2>2, <1>0, <1>1 DEF RecType
  <2> QED BY <2>1, <2>2 DEF addPodNetworkRecord
<1>d. \A t \in Sandbox : t # proc.sb => (t \in freed' <=> t \in freed)
  BY DEF addPodNetworkRecord, relVars, Release
<1>o. OnlyMine BY <1>u, <1>c, <1>d DEF OnlyMine
<1>t. KubeType' /\ NetType' /\ GCOK' /\ (up \in BOOLEAN)'
  BY <1>u, SameTypes, ShapeParts
<1>2. CASE AddFails
  <2>3. SbType' /\ ProcOK' /\ ProcCtl' /\ ProcSb' /\ Progress' /\ SbShape' /\ PodShape'
    BY <1>2, <1>1, <1>o, ShapeEnd DEF AddFails
  <2> QED BY <1>t, <1>r, <1>c, <1>f, <1>n, <2>3, ShapeFromParts
<1>3. CASE Goto("portmap") /\ UNCHANGED <<sb, freed>>
  <2>1. /\ ProcOK'
        /\ proc'.pc = "portmap" /\ proc'.op = proc.op /\ proc'.sb = proc.sb /\ proc'.ip = proc.ip
    BY <1>3, <1>0, GotoIs DEF AddPC
  <2>4. ProcCtl' BY <2>1, <1>1 DEF ProcCtl, AddPC
  <2>5. Progress' BY <2>1, <1>3, <1>1, <1>u DEF Progress, At
  <2>6. ProcSb' /\ SbShape' /\ PodShape' BY <1>3, <2>1, <2>4, <2>5, <1>1, <1>o, ShapeMove
  <2>7. SbType' BY <1>3, SameTypes, ShapeParts
  <2> QED BY <1>t, <1>r, <1>c, <1>f, <1>n, <2>1, <2>4, <2>5, <2>6, <2>7, ShapeFromParts
<1> QED BY <1>2, <1>3 DEF addPodNetworkRecord, relVars

LEMMA ShapePortmap ==
  ASSUME Shape, portmapCmdAdd
  PROVE  Shape'
<1>0. ProcCtl /\ Progress /\ SbShape /\ FaultType /\ NatType BY ShapeParts
<1>1. proc.op = "ADD" /\ proc.sb \in Sandbox /\ proc.ip \in IP /\ proc.sb \notin freed /\ net[proc.sb] = proc.ip
  BY <1>0 DEF portmapCmdAdd, At, ProcCtl, Progress, Busy
<1>u. UNCHANGED <<api, net, rec, up, gc, freed, relVars>>
  BY DEF portmapCmdAdd, relVars
<1>n. NatType' BY <1>0, SameTypes, RollbackTypes DEF portmapCmdAdd
<1>f. FaultType' BY <1>0, SameTypes, FaultTypes DEF portmapCmdAdd
<1>o. OnlyMine BY <1>u, <1>0, <1>1 DEF OnlyMine, SbShape
<1>t. KubeType' /\ NetType' /\ RecType' /\ RelType' /\ GCOK' /\ (up \in BOOLEAN)'
  BY <1>u, SameTypes, ShapeParts
<1>2. PICK st \in {"running", "deleting"} : sb' = [sb EXCEPT ![proc.sb] = st] /\ proc' = NoProc
  BY DEF portmapCmdAdd, AddFails
<1>3. SbType' /\ ProcOK' /\ ProcCtl' /\ ProcSb' /\ Progress' /\ SbShape' /\ PodShape'
  BY <1>u, <1>1, <1>2, <1>o, ShapeEnd
<1> QED BY <1>t, <1>f, <1>n, <1>3, ShapeFromParts

LEMMA ShapeGet ==
  ASSUME Shape, getPodNetworkRecord
  PROVE  Shape'
<1>0. /\ ProcCtl /\ SbShape /\ ProcOK /\ FaultType /\ SbType /\ NetType /\ RecType
  BY ShapeParts
<1>1. proc.op = "DEL" /\ proc.pc = "get" /\ proc.sb \in Sandbox
  BY <1>0 DEF getPodNetworkRecord, At, ProcCtl
<1>u. UNCHANGED <<api, rec, up, gc, freed, relVars, natVars>>
  BY DEF getPodNetworkRecord, relVars
<1>f. FaultType' BY <1>0, SameTypes, FaultTypes DEF getPodNetworkRecord
<1>t. KubeType' /\ NatType' /\ RecType' /\ RelType' /\ GCOK' /\ (up \in BOOLEAN)'
  BY <1>u, SameTypes, ShapeParts
<1>2. CASE DelOK
  <2>o. OnlyMine BY <1>2, <1>u, <1>0, <1>1 DEF OnlyMine, SbShape, DelOK, NetType
  <2>n. NetType' BY <1>2, <1>0, DelEndTypes
  <2>3. SbType' /\ ProcOK' /\ ProcCtl' /\ ProcSb' /\ Progress' /\ SbShape' /\ PodShape'
    BY <1>2, <1>1, <2>o, ShapeEnd DEF DelOK
  <2> QED BY <1>t, <1>f, <2>n, <2>3, ShapeFromParts
<1>3. CASE /\ rec[proc.sb] # NoRec
           /\ proc' = [proc EXCEPT !.pc = "natdel", !.ip = rec[proc.sb].ip]
           /\ UNCHANGED <<sb, net>>
  <2>r. rec[proc.sb].ip \in IP BY <1>3, <1>0, <1>1 DEF SbShape
  <2>1. /\ ProcOK'
        /\ proc'.pc = "natdel" /\ proc'.op = "DEL" /\ proc'.sb = proc.sb /\ proc'.ip \in IP
    BY <1>3, <2>r, <1>0, <1>1 DEF ProcOK, ProcType, DelPC
  <2>4. ProcCtl' BY <2>1, <1>1 DEF ProcCtl, DelPC
  <2>5. Progress' BY <2>1 DEF Progress, At
  <2>o. OnlyMine BY <1>3, <1>u, <1>0, <1>1 DEF OnlyMine, SbShape
  <2>6. ProcSb' /\ SbShape' /\ PodShape' BY <1>3, <2>1, <2>4, <2>5, <1>1, <2>o, ShapeMove
  <2>7. SbType' /\ NetType' BY <1>3, <1>0, SameTypes
  <2> QED BY <1>t, <1>f, <2>1, <2>4, <2>5, <2>6, <2>7, ShapeFromParts
<1>4. CASE Goto("iface") /\ UNCHANGED <<sb, net>>
  <2>1. /\ ProcOK'
        /\ proc'.pc = "iface" /\ proc'.op = "DEL" /\ proc'.sb = proc.sb
    BY <1>4, <1>0, <1>1, GotoIs DEF DelPC
  <2>4. ProcCtl' BY <2>1, <1>1 DEF ProcCtl, DelPC
  <2>5. Progress' BY <2>1 DEF Progress, At
  <2>o. OnlyMine BY <1>4, <1>u, <1>0, <1>1 DEF OnlyMine, SbShape
  <2>6. ProcSb' /\ SbShape' /\ PodShape' BY <1>4, <2>1, <2>4, <2>5, <1>1, <2>o, ShapeMove
  <2>7. SbType' /\ NetType' BY <1>4, <1>0, SameTypes
  <2> QED BY <1>t, <1>f, <2>1, <2>4, <2>5, <2>6, <2>7, ShapeFromParts
<1> QED BY <1>2, <1>3, <1>4 DEF getPodNetworkRecord

(* The later steps of DEL end with an error or go on to the next one. *)
LEMMA ShapeDelSteps ==
  ASSUME Shape, cleanUpIPRoutePolicy \/ DelRelease \/ delPodNetworkRecord \/ DelInterface
  PROVE  Shape'
<1>0. /\ ProcCtl /\ Progress /\ SbShape /\ ProcOK /\ FaultType /\ SbType /\ NetType /\ RecType /\ RelType /\ NatType
  BY ShapeParts
<1>1. proc.op = "DEL" /\ proc.sb \in Sandbox /\ UNCHANGED <<api, up, gc>>
  BY <1>0 DEF cleanUpIPRoutePolicy, DelRelease, delPodNetworkRecord, DelInterface, At, ProcCtl, kubeVars
<1>t. KubeType' /\ GCOK' /\ (up \in BOOLEAN)'
  BY <1>1, SameTypes, ShapeParts
<1>2. CASE cleanUpIPRoutePolicy
  <2>1. proc.pc = "natdel" /\ proc.ip \in IP /\ UNCHANGED <<rec, ipamVars, freed>>
    BY <1>2, <1>0 DEF cleanUpIPRoutePolicy, At, ProcCtl
  <2>t. RecType' /\ NatType' /\ FaultType'
    BY <1>2, <1>0, SameTypes, FaultTypes, NatDeleteTypes DEF cleanUpIPRoutePolicy
  <2>r. RelType'
    BY <1>2, <1>0 DEF cleanUpIPRoutePolicy, RelType, PoolType, Notice, ipamVars, Hazard
  <2>2. UNCHANGED <<sb, net>> BY <1>2 DEF cleanUpIPRoutePolicy, DelFails
  <2>n. SbType' /\ NetType' BY <2>2, <1>0, SameTypes
  <2>o. OnlyMine BY <2>1, <2>2, <1>0, <1>1 DEF OnlyMine, SbShape
  <2>3. CASE DelFails
    <3>1. SbType' /\ ProcOK' /\ ProcCtl' /\ ProcSb' /\ Progress' /\ SbShape' /\ PodShape'
      BY <2>2, <2>3, <1>1, <2>o, ShapeEnd DEF DelFails
    <3> QED BY <1>t, <2>t, <2>r, <2>n, <3>1, ShapeFromParts
  <2>4. CASE Goto("release")
    <3>1. /\ ProcOK'
          /\ proc'.pc = "release" /\ proc'.op = "DEL" /\ proc'.sb = proc.sb /\ proc'.ip = proc.ip
      BY <2>4, <1>0, <1>1, GotoIs DEF DelPC
    <3>4. ProcCtl' BY <3>1, <2>1, <1>1 DEF ProcCtl, DelPC
    <3>5. Progress' BY <3>1 DEF Progress, At
    <3>6. ProcSb' /\ SbShape' /\ PodShape' BY <2>2, <3>1, <3>4, <3>5, <1>1, <2>o, ShapeMove
    <3> QED BY <1>t, <2>t, <2>r, <2>n, <3>1, <3>4, <3>5, <3>6, ShapeFromParts
  <2> QED BY <1>2, <2>3, <2>4 DEF cleanUpIPRoutePolicy
<1>3. CASE DelRelease
  <2>1. proc.pc = "release" /\ proc.ip \in IP /\ UNCHANGED <<rec, natVars>>
    BY <1>3, <1>0 DEF DelRelease, At, ProcCtl
  <2>2. PICK error \in BOOLEAN :
          releasePodIp(error) /\ (IF error THEN DelFails ELSE Goto("delrec") /\ UNCHANGED <<sb, net>>)
    BY <1>3 DEF DelRelease
  <2>r. RelType' /\ FaultType' BY <2>1, <2>2, <1>0, <1>1, ReleasePodTypes
  <2>f. /\ \A t \in Sandbox : t # proc.sb => (t \in freed' <=> t \in freed)
        /\ ~error => proc.sb \in freed'
    BY <2>2, ReleaseFrees
  <2>3. UNCHANGED <<sb, net>> BY <2>2 DEF DelFails
  <2>n. SbType' /\ NetType' /\ RecType' /\ NatType' BY <2>1, <2>3, <1>0, SameTypes
  <2>o. OnlyMine BY <2>1, <2>3, <2>f, <1>0, <1>1 DEF OnlyMine, SbShape
  <2>4. CASE error
    <3>1. SbType' /\ ProcOK' /\ ProcCtl' /\ ProcSb' /\ Progress' /\ SbShape' /\ PodShape'
      BY <2>2, <2>3, <2>4, <1>1, <2>o, ShapeEnd DEF DelFails
    <3> QED BY <1>t, <2>r, <2>n, <3>1, ShapeFromParts
  <2>5. CASE ~error
    <3>1. /\ ProcOK'
          /\ proc'.pc = "delrec" /\ proc'.op = "DEL" /\ proc'.sb = proc.sb /\ proc'.ip = proc.ip
      BY <2>2, <2>5, <1>0, <1>1, GotoIs DEF DelPC
    <3>4. ProcCtl' BY <3>1, <2>1, <1>1 DEF ProcCtl, DelPC
    <3>5. Progress' BY <3>1, <2>f, <2>5 DEF Progress, At
    <3>6. ProcSb' /\ SbShape' /\ PodShape' BY <2>3, <3>1, <3>4, <3>5, <1>1, <2>o, ShapeMove
    <3> QED BY <1>t, <2>r, <2>n, <3>1, <3>4, <3>5, <3>6, ShapeFromParts
  <2> QED BY <2>4, <2>5
<1>4. CASE delPodNetworkRecord
  <2>1. UNCHANGED <<sb, net, freed, relVars, natVars>>
    BY <1>4 DEF delPodNetworkRecord, kubeVars, relVars
  <2>t. SbType' /\ NetType' /\ RelType' /\ NatType' /\ FaultType'
    BY <1>4, <2>1, <1>0, SameTypes, FaultTypes DEF delPodNetworkRecord
  <2>2. NoRec \in Record BY DEF NoRec, Record
  <2>3. RecType' /\ (rec'[proc.sb] = NoRec \/ rec'[proc.sb].ip \in IP)
        /\ \A t \in Sandbox : t # proc.sb => rec'[t] = rec[t]
    BY <2>2, <1>4, <1>0, <1>1 DEF delPodNetworkRecord, RecType, SbShape
  <2>o. OnlyMine BY <2>1, <2>3, <1>1 DEF OnlyMine
  <2>4. /\ ProcOK'
        /\ proc'.pc = "iface" /\ proc'.op = "DEL" /\ proc'.sb = proc.sb /\ proc'.ip = proc.ip
    BY <1>4, <1>0, <1>1, GotoIs DEF DelPC, delPodNetworkRecord
  <2>5. ProcCtl' BY <2>4, <1>1 DEF ProcCtl, DelPC
  <2>6. Progress' BY <2>4 DEF Progress, At
  <2>7. ProcSb' /\ SbShape' /\ PodShape' BY <2>1, <2>4, <2>5, <2>6, <1>1, <2>o, ShapeMove
  <2> QED BY <1>t, <2>t, <2>3, <2>4, <2>5, <2>6, <2>7, ShapeFromParts
<1>5. CASE DelInterface
  <2>1. UNCHANGED <<rec, freed, relVars, natVars>>
    BY <1>5 DEF DelInterface, relVars
  <2>t. NetType' /\ RecType' /\ RelType' /\ NatType' /\ FaultType'
    BY <1>5, <2>1, <1>0, SameTypes, FaultTypes, DelEndTypes DEF DelInterface
  <2>2. proc' = NoProc /\ (sb' = [sb EXCEPT ![proc.sb] = "gone"] \/ UNCHANGED sb)
        /\ \A t \in Sandbox : t # proc.sb => net'[t] = net[t]
    BY <1>5, <1>0 DEF DelInterface, DelOK, DelFails, NetType
  <2>o. OnlyMine BY <2>1, <2>2, <1>0, <1>1 DEF OnlyMine, SbShape
  <2>3. SbType' /\ ProcOK' /\ ProcCtl' /\ ProcSb' /\ Progress' /\ SbShape' /\ PodShape'
    BY <2>2, <1>1, <2>o, ShapeEnd
  <2> QED BY <1>t, <2>t, <2>3, ShapeFromParts
<1> QED BY <1>2, <1>3, <1>4, <1>5

LEMMA ShapeKill ==
  ASSUME Shape, tickSuicide
  PROVE  Shape'
<1>0. ProcCtl /\ SbShape /\ ProcOK /\ SbType /\ FaultType /\ NatType BY ShapeParts
<1>1. proc.op \in {"ADD", "DEL"} /\ proc.sb \in Sandbox
  BY <1>0 DEF tickSuicide, ProcCtl, ProcOK, ProcType
<1>u. UNCHANGED <<api, net, rec, up, gc, freed, relVars, nat>>
  BY DEF tickSuicide, relVars
<1>o. OnlyMine BY <1>u, <1>0, <1>1 DEF OnlyMine, SbShape
<1>t. KubeType' /\ NetType' /\ RecType' /\ RelType' /\ GCOK' /\ (up \in BOOLEAN)'
  BY <1>u, SameTypes, ShapeParts
<1>f. FaultType' /\ NatType' BY <1>0, <1>u, FaultTypes DEF tickSuicide, NatType
<1>3. SbType' /\ ProcOK' /\ ProcCtl' /\ ProcSb' /\ Progress' /\ SbShape' /\ PodShape'
  <2>1. CASE proc.op = "ADD" BY <2>1, <1>o, <1>1, ShapeEnd DEF tickSuicide, AddFails
  <2>2. CASE proc.op = "DEL" BY <2>2, <1>o, <1>1, ShapeEnd DEF tickSuicide
  <2> QED BY <2>1, <2>2, <1>1
<1> QED BY <1>t, <1>f, <1>3, ShapeFromParts

(* The reconciler writes records of sandboxes that are not fresh. *)
LEMMA ShapeReconcileFrame ==
  ASSUME Shape, UNCHANGED <<kubeVars, net, relVars, up, natVars, proc>>,
         RecType', GCOK', FaultType',
         \A s \in Sandbox : /\ rec'[s] = NoRec \/ rec'[s].ip \in IP
                            /\ Fresh(s) => rec'[s] = NoRec /\ gc'.put[s] = NoIP
  PROVE  Shape'
<1>0. ProcCtl /\ ProcSb /\ Progress /\ SbShape /\ PodShape BY ShapeParts
<1>u. UNCHANGED <<api, sb, net, freed, proc, up>> BY DEF kubeVars, relVars
<1>1. KubeType' /\ SbType' /\ NetType' /\ RelType' /\ NatType' /\ ProcOK' /\ (up \in BOOLEAN)'
  BY <1>u, SameTypes, ShapeParts
<1>2. ProcCtl' BY <1>0, <1>u DEF ProcCtl
<1>3. ProcSb' /\ PodShape' BY <1>0, <1>u DEF ProcSb, PodShape
<1>4. \A s \in Sandbox : Fresh(s) => Fresh(s)' BY <1>u DEF Fresh
<1>5. Progress' BY <1>0, <1>u, <1>4 DEF Progress, At, ProcCtl
<1>6. SbShape' BY <1>0, <1>u, <1>4 DEF SbShape
<1> QED BY <1>1, <1>2, <1>3, <1>5, <1>6, ShapeFromParts

LEMMA ShapeReconcile ==
  ASSUME Shape, ReconcileStep
  PROVE  Shape'
<1>0. RecType /\ GCOK /\ FaultType /\ SbShape BY ShapeParts
<1>r. NoRec \in Record BY DEF NoRec, Record
<1>1. CASE ReconcileListPods
  <2>1. GCOK' /\ gc'.put = gc.put
    BY <1>1, <1>0 DEF ReconcileListPods, GCOK, GCType
  <2>2. UNCHANGED <<kubeVars, net, rec, relVars, up, natVars, proc, history>>
    BY <1>1 DEF ReconcileListPods
  <2> QED BY <1>0, <2>1, <2>2, SameTypes, ShapeReconcileFrame DEF SbShape, Fresh
<1>2. CASE ReconcileListRecords
  <2>1. gc'.put = [s \in Sandbox |-> IF s \in Complete THEN rec[s].ip ELSE NoIP]
    BY <1>2 DEF ReconcileListRecords
  <2>p. \A s \in Sandbox : s \in Complete => rec[s] # NoRec
    BY DEF Complete, Recorded
  <2>i. \A s \in Sandbox : rec[s].ip \in IP \cup {NoIP} BY <1>0 DEF RecType, Record
  <2>2. GCOK'
    <3>1. [s \in Sandbox |-> IF s \in Complete THEN rec[s].ip ELSE NoIP] \in [Sandbox -> IP \cup {NoIP}]
      BY <2>i
    <3>2. Orphans \subseteq Sandbox BY DEF Orphans, Recorded
    <3> QED BY <3>1, <3>2, <1>2 DEF ReconcileListRecords, GCOK, GCType
  <2>3. UNCHANGED <<kubeVars, net, rec, ipamVars, freed, up, natVars, proc, history>>
    BY <1>2 DEF ReconcileListRecords
  <2>4. RelType' BY <2>3, <1>2, ShapeParts DEF ReconcileListRecords, RelType, PoolType, ipamVars, Hazard
  <2>5. ProcCtl /\ ProcSb /\ Progress /\ SbShape /\ PodShape BY ShapeParts
  <2>u. UNCHANGED <<api, sb, net, rec, freed, proc, up>> BY <2>3 DEF kubeVars
  <2>6. KubeType' /\ SbType' /\ NetType' /\ RecType' /\ NatType' /\ FaultType' /\ ProcOK' /\ (up \in BOOLEAN)'
    BY <2>u, <2>3, SameTypes, ShapeParts
  <2>7. ProcCtl' BY <2>5, <2>u DEF ProcCtl
  <2>8. ProcSb' /\ PodShape' BY <2>5, <2>u DEF ProcSb, PodShape
  <2>9. \A s \in Sandbox : Fresh(s) => Fresh(s)' BY <2>u, <2>1, <2>p DEF Fresh
  <2>10. Progress' BY <2>5, <2>u, <2>9 DEF Progress, At, ProcCtl
  <2>11. SbShape' BY <2>5, <2>u, <2>9 DEF SbShape
  <2> QED BY <2>2, <2>4, <2>6, <2>7, <2>8, <2>10, <2>11, ShapeFromParts
<1>3. CASE ReconcileEnd
  <2>1. GCOK' /\ \A s \in Sandbox : gc'.put[s] = NoIP
    BY <1>3, NoGCTypes DEF ReconcileEnd, GCOK, NoGC
  <2>2. UNCHANGED <<kubeVars, net, rec, relVars, up, natVars, proc, history>>
    BY <1>3 DEF ReconcileEnd
  <2> QED BY <1>0, <2>1, <2>2, SameTypes, ShapeReconcileFrame DEF SbShape, Fresh
<1>4. ASSUME NEW s \in Sandbox, ReconcilePut(s) PROVE Shape'
  <2>1. GCOK' /\ \A t \in Sandbox : gc'.put[t] = gc.put[t] \/ gc'.put[t] = NoIP
    <3>1. gc'.put = [gc.put EXCEPT ![s] = NoIP] /\ gc'.pc = gc.pc /\ gc'.pods = gc.pods /\ gc'.del = gc.del
          /\ gc' = [gc EXCEPT !.put = [gc.put EXCEPT ![s] = NoIP]]
      BY <1>4, <1>0 DEF ReconcilePut, GCOK, GCType
    <3> QED BY <3>1, <1>0 DEF GCOK, GCType
  <2>2. UNCHANGED <<kubeVars, net, relVars, up, natVars, proc>> BY <1>4 DEF ReconcilePut
  <2>3. gc.put[s] \in IP /\ gc.put[s] # NoIP BY <1>4, <1>0, PluginAssumption DEF ReconcilePut, GCOK, GCType
  <2>4. [ip |-> gc.put[s], uid |-> TRUE] \in Record BY <2>3 DEF Record
  <2>5. RecType' /\ \A t \in Sandbox : /\ t # s => rec'[t] = rec[t]
                                       /\ rec'[t] = NoRec \/ rec'[t].ip \in IP
    <3>1. CASE UNCHANGED rec BY <3>1, <1>0 DEF RecType, SbShape
    <3>2. CASE rec' = [rec EXCEPT ![s] = [ip |-> gc.put[s], uid |-> TRUE]]
      <4>1. rec' \in [Sandbox -> Record] BY <3>2, <2>4, <1>0 DEF RecType
      <4>2. rec'[s].ip = gc.put[s] BY <3>2, <1>0 DEF RecType
      <4>3. \A t \in Sandbox : t # s => rec'[t] = rec[t] BY <3>2, <1>0 DEF RecType
      <4> QED BY <4>1, <4>2, <4>3, <2>3, <1>0 DEF RecType, SbShape
    <3> QED BY <1>4, <3>1, <3>2 DEF ReconcilePut
  <2>6. FaultType' BY <1>4, <1>0, SameTypes, FaultTypes DEF ReconcilePut
  <2> QED BY <2>1, <2>2, <2>3, <2>5, <2>6, ShapeReconcileFrame DEF Fresh
<1>5. ASSUME NEW s \in Sandbox, ReconcileDelete(s) PROVE Shape'
  <2>1. GCOK' /\ gc'.put = gc.put BY <1>5, <1>0 DEF ReconcileDelete, GCOK, GCType
  <2>2. UNCHANGED <<kubeVars, net, relVars, up, natVars, proc>> BY <1>5 DEF ReconcileDelete
  <2>5. RecType' /\ \A t \in Sandbox : /\ t # s => rec'[t] = rec[t]
                                       /\ rec'[t] = rec[t] \/ rec'[t] = NoRec
    BY <1>5, <1>r, <1>0 DEF ReconcileDelete, RecType
  <2>6. FaultType' BY <1>5, <1>0, SameTypes, FaultTypes DEF ReconcileDelete
  <2> QED BY <2>1, <2>2, <2>5, <2>6, <1>0, ShapeReconcileFrame DEF Fresh, SbShape
<1> QED BY <1>1, <1>2, <1>3, <1>4, <1>5 DEF ReconcileStep

LEMMA ShapeWorld ==
  ASSUME Shape, WorldStep
  PROVE  Shape'
<1>0. /\ ProcCtl /\ ProcSb /\ Progress /\ SbShape /\ PodShape /\ SbType /\ KubeType /\ RelType /\ FaultType
  BY ShapeParts
<1>p. UNCHANGED <<rec, net, proc, natVars>>
  BY DEF WorldStep, CreatePod, DeletePod, StopSandbox, CooldownOver, PoolDrop, IpamdSwitch
<1>t. NetType' /\ RecType' /\ NatType' /\ ProcOK' BY <1>p, SameTypes, ShapeParts
<1>c. ProcCtl' BY <1>p, <1>0 DEF ProcCtl
<1>f. FaultType'
  BY <1>0, SameTypes, FaultTypes
     DEF WorldStep, CreatePod, DeletePod, StopSandbox, CooldownOver, PoolDrop, IpamdSwitch
<1>1. ASSUME NEW p \in Pod, CreatePod(p) \/ DeletePod(p) PROVE Shape'
  <2>1. UNCHANGED <<sb, relVars, freed, up, gc>> BY <1>1 DEF CreatePod, DeletePod, relVars
  <2>2. SbType' /\ RelType' /\ GCOK' /\ (up \in BOOLEAN)' BY <2>1, SameTypes, ShapeParts
  <2>3. KubeType' /\ \A q \in Pod : api[q] # "new" => api'[q] # "new"
    BY <1>1, <1>0 DEF CreatePod, DeletePod, KubeType
  <2>4. ProcSb' /\ Progress' /\ SbShape' BY <2>1, <1>p, <1>0 DEF ProcSb, Progress, SbShape, At, Fresh
  <2>5. PodShape' BY <2>1, <2>3, <1>0, PluginAssumption DEF PodShape
  <2> QED BY <1>t, <1>c, <1>f, <2>2, <2>3, <2>4, <2>5, ShapeFromParts
<1>2. ASSUME NEW s \in Sandbox, StopSandbox(s) PROVE Shape'
  <2>1. UNCHANGED <<api, relVars, freed, up, gc>> /\ sb[s] = "running" /\ sb' = [sb EXCEPT ![s] = "deleting"]
    BY <1>2 DEF StopSandbox, relVars
  <2>2. KubeType' /\ RelType' /\ GCOK' /\ (up \in BOOLEAN)' BY <2>1, SameTypes, ShapeParts
  <2>3. SbType' BY <2>1, <1>0 DEF SbType
  <2>4. ProcSb' BY <2>1, <1>p, <1>c, <1>0 DEF ProcSb, SbType, ProcCtl
  <2>5. Progress' BY <2>1, <1>p, <1>0 DEF Progress, At, Fresh
  <2>6. SbShape' BY <2>1, <1>p, <1>0 DEF SbShape, Fresh, SbType
  <2>7. PodShape' BY <2>1, <1>0 DEF PodShape, SbType
  <2> QED BY <1>t, <1>c, <1>f, <2>2, <2>3, <2>4, <2>5, <2>6, <2>7, ShapeFromParts
<1>3. ASSUME NEW i \in IP, CooldownOver(i) \/ PoolDrop(i) PROVE Shape'
  <2>1. UNCHANGED <<api, sb, freed, up, gc>> BY <1>3 DEF CooldownOver, PoolDrop, kubeVars
  <2>2. KubeType' /\ SbType' /\ GCOK' /\ (up \in BOOLEAN)' BY <2>1, SameTypes, ShapeParts
  <2>3. RelType' BY <1>3, <1>0 DEF CooldownOver, PoolDrop, RelType, PoolType
  <2>4. ProcSb' /\ Progress' /\ SbShape' /\ PodShape'
    BY <2>1, <1>p, <1>0 DEF ProcSb, Progress, SbShape, At, Fresh, PodShape
  <2> QED BY <1>t, <1>c, <1>f, <2>2, <2>3, <2>4, ShapeFromParts
<1>4. CASE IpamdSwitch
  <2>1. UNCHANGED <<api, sb, freed, relVars>> /\ gc' = NoGC /\ up' \in BOOLEAN
    BY <1>4 DEF IpamdSwitch, kubeVars, relVars
  <2>2. KubeType' /\ SbType' /\ RelType' BY <2>1, SameTypes, ShapeParts
  <2>3. GCOK' /\ \A s \in Sandbox : gc'.put[s] = NoIP BY <2>1, NoGCTypes DEF GCOK, NoGC
  <2>4. ProcSb' /\ Progress' /\ SbShape' /\ PodShape'
    BY <2>1, <2>3, <1>p, <1>0 DEF ProcSb, Progress, SbShape, At, Fresh, PodShape, ProcCtl
  <2> QED BY <1>t, <1>c, <1>f, <2>1, <2>2, <2>3, <2>4, ShapeFromParts
<1> QED BY <1>1, <1>2, <1>3, <1>4 DEF WorldStep

(* The shape is inductive. *)
LEMMA ShapeStep ==
  ASSUME Shape, [Next]_vars
  PROVE  Shape'
<1>1. CASE UNCHANGED vars
  <2>1. UNCHANGED <<kubeVars, net, rec, relVars, up, natVars, proc, gc, history>> BY <1>1 DEF vars
  <2>2. RecType' /\ GCOK' /\ FaultType' BY <2>1, ShapeParts, SameTypes
  <2> QED BY <2>1, <2>2, ShapeParts, ShapeReconcileFrame DEF SbShape, Fresh
<1>2. CASE Next
  BY <1>2, ShapeStartAdd, ShapeStartDel, ShapeAssign, ShapeCheck, ShapeNat, ShapeVeth, ShapeInner,
     ShapeRollback, ShapeRecord, ShapePortmap, ShapeGet, ShapeDelSteps, ShapeKill, ShapeReconcile,
     ShapeWorld DEF Next, AddStep, DelStep
<1> QED BY <1>1, <1>2

(* Every step of the plugin, of ipamd's reconciler and of kubelet keeps    *)
(* the state well formed: in particular a release always has an address    *)
(* and a sandbox, and a fault is counted within its bound.                 *)
THEOREM PluginTypes == Spec => []TypeOK
<1>1. Init => Shape BY ShapeInit
<1>2. Shape /\ [Next]_vars => Shape' BY ShapeStep
<1>3. Shape => TypeOK BY DEF Shape
<1> QED BY <1>1, <1>2, <1>3, PTL DEF Spec

----------------------------------------------------------------------------
(* Ownership: until a hazardous event, an address that a record, a network *)
(* namespace, the reconciler or the running process knows as that of a     *)
(* sandbox whose address has not been released is attached, is not in      *)
(* ipamd's hands and is no other sandbox's.                                *)

Has(s, i) == rec[s].ip = i \/ net[s] = i \/ gc.put[s] = i \/ (proc.sb = s /\ proc.ip = i)

Pools == pool \subseteq attached /\ cool \subseteq attached /\ pool \cap cool = {}
Mine == \A s \in Sandbox \ freed, i \in IP : Has(s, i) => i \in attached /\ i \notin pool /\ i \notin cool
Apart == \A s, t \in Sandbox \ freed, i, j \in IP : Has(s, i) /\ Has(t, j) => (s = t <=> i = j)
(* The running ADD keeps away from the others even after it has released   *)
(* its address.                                                            *)
AddApart ==
  proc.op = "ADD" /\ proc.ip # NoIP =>
    \A s \in Sandbox \ freed : s # proc.sb => ~Has(s, proc.ip)

OwnInv == Pools /\ Mine /\ Apart /\ AddApart

LEMMA OwnInit == Init => OwnInv
<1> SUFFICES ASSUME Init PROVE OwnInv OBVIOUS
<1>1. \A s \in Sandbox, i \in IP : ~Has(s, i)
  BY PluginAssumption DEF Init, Has, NoRec, NoGC, NoProc
<1>2. Pools BY DEF Init, Pools
<1>3. AddApart BY NoProcTypes DEF Init, AddApart
<1> QED BY <1>1, <1>2, <1>3 DEF OwnInv, Mine, Apart

(* A hazard is never forgotten. *)
LEMMA HazardsGrow ==
  ASSUME [Next]_vars
  PROVE  hazards \subseteq hazards'
<1>1. CASE UNCHANGED vars BY <1>1 DEF vars, relVars
<1>2. ASSUME NEW s \in Sandbox, StartAdd(s) \/ StartDel(s) PROVE hazards \subseteq hazards'
  BY <1>2 DEF StartAdd, StartDel, relVars
<1>3. CASE AddStep
  BY <1>3 DEF AddStep, assignPodIp, checkMasterInterface, syncNATGWOutgoingIP, setupPodVethNetwork,
       innerRelease, rollbackReleaseIP, addPodNetworkRecord, portmapCmdAdd, releasePodIp, Release, Notice, relVars
<1>4. CASE DelStep
  BY <1>4 DEF DelStep, getPodNetworkRecord, cleanUpIPRoutePolicy, DelRelease, delPodNetworkRecord,
       DelInterface, releasePodIp, Release, Notice, relVars
<1>5. CASE tickSuicide BY <1>5 DEF tickSuicide, relVars
<1>6. CASE ReconcileStep
  BY <1>6 DEF ReconcileStep, ReconcileListPods, ReconcileListRecords, ReconcileEnd, ReconcilePut,
       ReconcileDelete, relVars
<1>7. CASE WorldStep
  BY <1>7 DEF WorldStep, CreatePod, DeletePod, StopSandbox, CooldownOver, PoolDrop, IpamdSwitch, relVars
<1> QED BY <1>1, <1>2, <1>3, <1>4, <1>5, <1>6, <1>7 DEF Next

(* A release takes the address of its sandbox from the VPC or gives it to  *)
(* ipamd, the first time.  A second release that does something is a       *)
(* hazard.                                                                 *)
Released ==
  /\ pool' = pool
  /\ \/ attached' = attached /\ cool' = cool
     \/ /\ proc.sb \notin freed /\ proc.sb \in freed'
        /\ \/ attached' = attached /\ cool' = cool \cup {proc.ip}
           \/ attached' = attached \ {proc.ip} /\ cool' = cool

LEMMA ReleaseIs ==
  ASSUME NEW stored \in BOOLEAN, Release(proc.sb, proc.ip, stored), hazards' = {}
  PROVE  Released /\ freed' = freed \cup {proc.sb}
<1>1. freed' = freed \cup {proc.sb} BY DEF Release
<1>2. ~Outdated(proc.sb, proc.ip, stored) BY DEF Release, Notice
<1>3. CASE proc.sb \in freed
  BY <1>1, <1>2, <1>3 DEF Released, Release, Outdated, DelPodNetwork, deallocateSecondaryIP, ipamVars
<1>4. CASE proc.sb \notin freed
  BY <1>1, <1>4 DEF Released, Release, DelPodNetwork, deallocateSecondaryIP, ipamVars
<1> QED BY <1>1, <1>3, <1>4

LEMMA ReleasePodIs ==
  ASSUME NEW error \in BOOLEAN, releasePodIp(error), hazards' = {}
  PROVE  Released /\ (freed' = freed \cup {proc.sb} \/ (error /\ freed' = freed))
<1>1. CASE Release(proc.sb, proc.ip, TRUE) BY <1>1, ReleaseIs
<1>2. CASE Release(proc.sb, proc.ip, FALSE) BY <1>2, ReleaseIs
<1>3. CASE error /\ UNCHANGED relVars BY <1>3 DEF relVars, ipamVars, Released
<1> QED BY <1>1, <1>2, <1>3 DEF releasePodIp

(* A step that gives no sandbox an address it did not have, and changes    *)
(* what ipamd and the VPC have at most by a release, preserves ownership.  *)
LEMMA OwnKept ==
  ASSUME Shape, OwnInv, Released, freed \subseteq freed',
         UNCHANGED <<attached, cool>> \/ (proc.sb \in Sandbox /\ proc.ip \in IP),
         \A s \in Sandbox, i \in IP : s \notin freed' /\ Has(s, i)' => Has(s, i),
         proc'.op = "ADD" /\ proc'.ip # NoIP => proc.op = "ADD" /\ proc'.sb = proc.sb /\ proc'.ip = proc.ip
  PROVE  OwnInv'
<1>0. ProcOK BY ShapeParts
<1>a. Pools /\ Mine /\ Apart /\ AddApart BY DEF OwnInv
<1>b. proc.sb \in Sandbox /\ proc.ip \in IP => Has(proc.sb, proc.ip) BY DEF Has
<1>1. Pools'
  <2>1. CASE attached' = attached /\ cool' = cool BY <2>1, <1>a DEF Pools, Released
  <2>2. CASE /\ proc.sb \in Sandbox \ freed /\ proc.ip \in IP
             /\ \/ attached' = attached /\ cool' = cool \cup {proc.ip}
                \/ attached' = attached \ {proc.ip} /\ cool' = cool
    <3>1. proc.ip \in attached /\ proc.ip \notin pool /\ proc.ip \notin cool BY <2>2, <1>a, <1>b DEF Mine
    <3> QED BY <3>1, <2>2, <1>a DEF Pools, Released
  <2> QED BY <2>1, <2>2 DEF Released
<1>2. Mine'
  <2> SUFFICES ASSUME NEW s \in Sandbox, s \notin freed', NEW i \in IP, Has(s, i)'
               PROVE  i \in attached' /\ i \notin pool' /\ i \notin cool'
    BY DEF Mine
  <2>1. Has(s, i) /\ s \notin freed OBVIOUS
  <2>2. i \in attached /\ i \notin pool /\ i \notin cool BY <2>1, <1>a DEF Mine
  <2>3. CASE attached' = attached /\ cool' = cool BY <2>2, <2>3 DEF Released
  <2>4. CASE /\ proc.sb \in Sandbox \ freed /\ proc.ip \in IP /\ proc.sb \in freed'
             /\ \/ attached' = attached /\ cool' = cool \cup {proc.ip}
                \/ attached' = attached \ {proc.ip} /\ cool' = cool
    <3>1. s # proc.sb BY <2>4
    <3>2. i # proc.ip BY <3>1, <2>1, <2>4, <1>a, <1>b DEF Apart
    <3> QED BY <3>2, <2>2, <2>4 DEF Released
  <2> QED BY <2>3, <2>4 DEF Released
<1>3. Apart' BY <1>a DEF Apart
<1>4. AddApart'
  <2> SUFFICES ASSUME proc'.op = "ADD", proc'.ip # NoIP, NEW s \in Sandbox, s \notin freed', s # proc'.sb
               PROVE  ~Has(s, proc.ip)'
    BY DEF AddApart
  <2>1. PICK i \in IP : i = proc.ip /\ i = proc'.ip BY <1>0 DEF ProcOK, ProcType
  <2>2. Has(s, proc.ip)' => Has(s, i)' BY <2>1 DEF Has
  <2>3. ~Has(s, i) BY <2>1, <1>a DEF AddApart
  <2> QED BY <2>2, <2>3
<1> QED BY <1>1, <1>2, <1>3, <1>4 DEF OwnInv

(* The address of a new ADD comes from the pool or from the VPC, so no     *)
(* sandbox has it.                                                         *)
LEMMA OwnAssign ==
  ASSUME Shape, OwnInv, assignPodIp
  PROVE  OwnInv'
<1>0. ProcCtl /\ Progress /\ ProcOK BY ShapeParts
<1>a. Pools /\ Mine /\ Apart /\ AddApart BY DEF OwnInv
<1>1. proc.op = "ADD" /\ proc.sb \in Sandbox /\ Fresh(proc.sb) /\ proc.ip = NoIP
  BY <1>0 DEF assignPodIp, At, ProcCtl, Progress
<1>u. UNCHANGED <<net, rec, cool, freed, gc>> BY DEF assignPodIp
<1>n. \A i \in IP : ~Has(proc.sb, i) BY <1>1, PluginAssumption DEF Has, Fresh, NoRec
<1>2. CASE AddFails
  <2>n. proc'.op = "none" /\ proc'.sb = NoSandbox BY <1>2 DEF AddFails, NoProc
  <2>1. \A s \in Sandbox, i \in IP : Has(s, i)' => Has(s, i)
    BY <2>n, <1>u, PluginAssumption DEF Has
  <2>2. \A s \in Sandbox \ freed, i \in IP : Has(s, i) => i \in attached' /\ i \notin pool'
    BY <1>a DEF Mine, assignPodIp, AddPodNetwork
  <2>3. Pools' BY <1>a, <1>u DEF assignPodIp, AddPodNetwork, Pools
  <2>4. Mine' BY <2>1, <2>2, <1>u, <1>a DEF Mine
  <2>5. Apart' BY <2>1, <1>u, <1>a DEF Apart
  <2>6. AddApart' BY <2>n DEF AddApart
  <2> QED BY <2>3, <2>4, <2>5, <2>6 DEF OwnInv
<1>3. ASSUME NEW i \in IP,
             \/ up /\ AddPodNetwork(i)
             \/ ~up /\ i \notin attached /\ attached' = attached \cup {i} /\ UNCHANGED pool,
             proc' = [proc EXCEPT !.pc = "check", !.ip = i, !.uid = up]
      PROVE  OwnInv'
  <2>p. proc'.op = "ADD" /\ proc'.sb = proc.sb /\ proc'.ip = i
    BY <1>3, <1>0, <1>1 DEF ProcOK, ProcType
  <2>1. i \in attached' /\ i \notin pool' /\ i \notin cool
    BY <1>3, <1>a DEF AddPodNetwork, Pools
  <2>2. \A s \in Sandbox \ freed : ~Has(s, i) BY <1>3, <1>a DEF AddPodNetwork, Mine
  <2>3. \A s \in Sandbox, j \in IP : Has(s, j)' <=> Has(s, j) \/ (s = proc.sb /\ j = i)
    BY <2>p, <1>u, <1>1, PluginAssumption DEF Has
  <2>4. Pools' BY <1>3, <1>u, <1>a DEF AddPodNetwork, Pools
  <2>5. Mine'
    <3>1. \A s \in Sandbox \ freed, j \in IP : Has(s, j) => j \in attached' /\ j \notin pool' /\ j \notin cool
      BY <1>3, <1>a DEF AddPodNetwork, Mine
    <3> QED BY <3>1, <2>1, <2>3, <1>u DEF Mine
  <2>6. Apart' BY <2>2, <2>3, <1>n, <1>u, <1>a, <1>1 DEF Apart
  <2>7. AddApart'
    <3> SUFFICES ASSUME NEW s \in Sandbox, s \notin freed', s # proc'.sb PROVE ~Has(s, proc.ip)'
      BY DEF AddApart
    <3>1. Has(s, proc.ip)' => Has(s, i)' BY <2>p DEF Has
    <3> QED BY <3>1, <2>2, <2>3, <2>p, <1>u
  <2> QED BY <2>4, <2>5, <2>6, <2>7 DEF OwnInv
<1> QED BY <1>2, <1>3 DEF assignPodIp

(* The other steps of ADD. *)
LEMMA OwnAdd ==
  ASSUME Shape, OwnInv, AddStep, ~assignPodIp, hazards' = {}
  PROVE  OwnInv'
<1>0. ProcCtl /\ Progress /\ ProcOK /\ NetType /\ RecType BY ShapeParts
<1>1. proc.op = "ADD" /\ proc.sb \in Sandbox /\ proc.ip \in IP /\ UNCHANGED gc
  BY <1>0 DEF AddStep, checkMasterInterface, syncNATGWOutgoingIP, setupPodVethNetwork, innerRelease,
       rollbackReleaseIP, addPodNetworkRecord, portmapCmdAdd, At, ProcCtl
<1>2. Released /\ freed \subseteq freed'
  <2>1. CASE UNCHANGED relVars BY <2>1 DEF relVars, ipamVars, Released
  <2>2. CASE \E error \in BOOLEAN : releasePodIp(error) BY <2>2, ReleasePodIs
  <2>3. CASE Release(proc.sb, proc.ip, TRUE) BY <2>3, ReleaseIs
  <2> QED BY <2>1, <2>2, <2>3 DEF AddStep, checkMasterInterface, syncNATGWOutgoingIP, setupPodVethNetwork,
                innerRelease, rollbackReleaseIP, addPodNetworkRecord, portmapCmdAdd
<1>3. \/ proc' = NoProc
      \/ proc'.op = "ADD" /\ proc'.sb = proc.sb /\ proc'.ip = proc.ip
  <2>1. CASE \E pc \in AddPC : Goto(pc) BY <2>1, <1>0, <1>1, GotoIs
  <2>2. CASE proc' = [proc EXCEPT !.pc = "veth", !.nat = proc.ip \notin nat]
    BY <2>2, <1>0, <1>1 DEF ProcOK, ProcType
  <2>3. CASE AddFails \/ proc' = NoProc BY <2>3 DEF AddFails
  <2> QED BY <2>1, <2>2, <2>3 DEF AddStep, checkMasterInterface, syncNATGWOutgoingIP, setupPodVethNetwork,
                innerRelease, rollbackReleaseIP, addPodNetworkRecord, portmapCmdAdd, AddPC
<1>4. /\ net' = net \/ net' = [net EXCEPT ![proc.sb] = proc.ip]
      /\ rec' = rec \/ rec' = [rec EXCEPT ![proc.sb] = [ip |-> proc.ip, uid |-> proc.uid]]
  BY DEF AddStep, checkMasterInterface, syncNATGWOutgoingIP, setupPodVethNetwork,
       innerRelease, rollbackReleaseIP, addPodNetworkRecord, portmapCmdAdd
<1>5. \A s \in Sandbox, i \in IP : Has(s, i)' => Has(s, i)
  <2> SUFFICES ASSUME NEW s \in Sandbox, NEW i \in IP, Has(s, i)' PROVE Has(s, i) OBVIOUS
  <2>1. rec'[s].ip = i => Has(s, i) BY <1>4, <1>0, <1>1 DEF Has, RecType
  <2>2. net'[s] = i => Has(s, i) BY <1>4, <1>0, <1>1 DEF Has, NetType
  <2>3. gc'.put[s] = i => Has(s, i) BY <1>1 DEF Has
  <2>4. proc'.sb = s /\ proc'.ip = i => Has(s, i) BY <1>3, PluginAssumption DEF Has, NoProc
  <2> QED BY <2>1, <2>2, <2>3, <2>4 DEF Has
<1>6. proc'.op = "ADD" => proc.op = "ADD" /\ proc'.sb = proc.sb /\ proc'.ip = proc.ip
  BY <1>1, <1>3, NoProcTypes
<1> QED BY <1>1, <1>2, <1>5, <1>6, OwnKept

LEMMA OwnDel ==
  ASSUME Shape, OwnInv, DelStep, hazards' = {}
  PROVE  OwnInv'
<1>0. ProcCtl /\ Progress /\ ProcOK /\ NetType /\ RecType /\ SbShape BY ShapeParts
<1>1. proc.op = "DEL" /\ proc.sb \in Sandbox /\ UNCHANGED gc
  BY <1>0 DEF DelStep, getPodNetworkRecord, cleanUpIPRoutePolicy, DelRelease, delPodNetworkRecord,
       DelInterface, At, ProcCtl
<1>2. Released /\ freed \subseteq freed' /\ (proc.ip \in IP \/ UNCHANGED <<attached, cool>>)
  <2>1. CASE UNCHANGED <<ipamVars, freed>> BY <2>1 DEF ipamVars, Released
  <2>2. CASE DelRelease
    <3>1. proc.ip \in IP BY <2>2, <1>0 DEF DelRelease, At, ProcCtl
    <3>2. \E error \in BOOLEAN : releasePodIp(error) BY <2>2 DEF DelRelease
    <3> QED BY <3>1, <3>2, ReleasePodIs
  <2> QED BY <2>1, <2>2 DEF DelStep, getPodNetworkRecord, cleanUpIPRoutePolicy, delPodNetworkRecord,
                DelInterface, relVars
<1>3. \/ proc' = NoProc
      \/ proc'.op = "DEL" /\ proc'.sb = proc.sb /\ proc'.ip \in {proc.ip, rec[proc.sb].ip}
  <2>1. CASE \E pc \in DelPC : Goto(pc) BY <2>1, <1>0, <1>1, GotoIs
  <2>2. CASE proc' = [proc EXCEPT !.pc = "natdel", !.ip = rec[proc.sb].ip]
    BY <2>2, <1>0, <1>1 DEF ProcOK, ProcType
  <2>3. CASE DelFails \/ DelOK BY <2>3 DEF DelFails, DelOK
  <2> QED BY <2>1, <2>2, <2>3 DEF DelStep, getPodNetworkRecord, cleanUpIPRoutePolicy, DelRelease,
                delPodNetworkRecord, DelInterface, DelPC
<1>4. /\ net' = net \/ net' = [net EXCEPT ![proc.sb] = NoIP]
      /\ rec' = rec \/ rec' = [rec EXCEPT ![proc.sb] = NoRec]
  BY DEF DelStep, getPodNetworkRecord, cleanUpIPRoutePolicy, DelRelease, delPodNetworkRecord,
       DelInterface, DelFails, DelOK, kubeVars
<1>5. \A s \in Sandbox, i \in IP : Has(s, i)' => Has(s, i)
  <2> SUFFICES ASSUME NEW s \in Sandbox, NEW i \in IP, Has(s, i)' PROVE Has(s, i) OBVIOUS
  <2>1. rec'[s].ip = i => Has(s, i) BY <1>4, <1>0, <1>1, PluginAssumption DEF Has, RecType, NoRec
  <2>2. net'[s] = i => Has(s, i) BY <1>4, <1>0, <1>1, PluginAssumption DEF Has, NetType
  <2>3. gc'.put[s] = i => Has(s, i) BY <1>1 DEF Has
  <2>4. proc'.sb = s /\ proc'.ip = i => Has(s, i) BY <1>3, PluginAssumption DEF Has, NoProc
  <2> QED BY <2>1, <2>2, <2>3, <2>4 DEF Has
<1>6. proc'.op # "ADD" BY <1>1, <1>3, NoProcTypes
<1> QED BY <1>1, <1>2, <1>5, <1>6, OwnKept

LEMMA OwnStart ==
  ASSUME Shape, OwnInv, NEW s \in Sandbox, StartAdd(s) \/ StartDel(s)
  PROVE  OwnInv'
<1>1. UNCHANGED <<net, rec, gc, attached, pool, cool, freed>>
  BY DEF StartAdd, StartDel, relVars, ipamVars
<1>2. proc'.ip = NoIP BY DEF StartAdd, StartDel, NoProc
<1>3. \A t \in Sandbox, i \in IP : Has(t, i)' => Has(t, i) BY <1>1, <1>2, PluginAssumption DEF Has
<1> QED BY <1>1, <1>2, <1>3, OwnKept DEF Released

LEMMA OwnKill ==
  ASSUME Shape, OwnInv, tickSuicide
  PROVE  OwnInv'
<1>1. UNCHANGED <<net, rec, gc, attached, pool, cool, freed>>
  BY DEF tickSuicide, relVars, ipamVars
<1>2. proc' = NoProc BY DEF tickSuicide, AddFails
<1>3. \A t \in Sandbox, i \in IP : Has(t, i)' => Has(t, i) BY <1>1, <1>2, PluginAssumption DEF Has, NoProc
<1> QED BY <1>1, <1>2, <1>3, OwnKept, NoProcTypes DEF Released

LEMMA OwnReconcile ==
  ASSUME Shape, OwnInv, ReconcileStep
  PROVE  OwnInv'
<1>0. RecType /\ GCOK BY ShapeParts
<1>1. UNCHANGED <<net, proc, attached, pool, cool, freed>>
  BY DEF ReconcileStep, ReconcileListPods, ReconcileListRecords, ReconcileEnd, ReconcilePut,
       ReconcileDelete, relVars, ipamVars
<1>2. \A s \in Sandbox, i \in IP : rec'[s].ip = i => Has(s, i)
  <2>1. CASE UNCHANGED rec BY <2>1 DEF Has
  <2>2. ASSUME NEW t \in Sandbox, rec' = [rec EXCEPT ![t] = [ip |-> gc.put[t], uid |-> TRUE]]
        PROVE  \A s \in Sandbox, i \in IP : rec'[s].ip = i => Has(s, i)
    BY <2>2, <1>0 DEF RecType, Has
  <2>3. ASSUME NEW t \in Sandbox, rec' = [rec EXCEPT ![t] = NoRec]
        PROVE  \A s \in Sandbox, i \in IP : rec'[s].ip = i => Has(s, i)
    BY <2>3, <1>0, PluginAssumption DEF RecType, Has, NoRec
  <2> QED BY <2>1, <2>2, <2>3 DEF ReconcileStep, ReconcileListPods, ReconcileListRecords, ReconcileEnd,
                ReconcilePut, ReconcileDelete
<1>3. \A s \in Sandbox, i \in IP : gc'.put[s] = i => Has(s, i)
  <2>1. CASE ReconcileListPods BY <2>1, <1>0 DEF ReconcileListPods, GCOK, GCType, Has
  <2>2. CASE ReconcileListRecords BY <2>2, PluginAssumption DEF ReconcileListRecords, Has
  <2>3. CASE ReconcileEnd BY <2>3, PluginAssumption DEF ReconcileEnd, NoGC
  <2>4. ASSUME NEW t \in Sandbox, ReconcilePut(t)
        PROVE  \A s \in Sandbox, i \in IP : gc'.put[s] = i => Has(s, i)
    <3>1. gc'.put = [gc.put EXCEPT ![t] = NoIP] BY <2>4, <1>0 DEF ReconcilePut, GCOK, GCType
    <3> QED BY <3>1, <1>0, PluginAssumption DEF Has, GCOK, GCType
  <2>5. ASSUME NEW t \in Sandbox, ReconcileDelete(t)
        PROVE  \A s \in Sandbox, i \in IP : gc'.put[s] = i => Has(s, i)
    BY <2>5, <1>0 DEF ReconcileDelete, GCOK, GCType, Has
  <2> QED BY <2>1, <2>2, <2>3, <2>4, <2>5 DEF ReconcileStep
<1>4. \A s \in Sandbox, i \in IP : Has(s, i)' => Has(s, i) BY <1>1, <1>2, <1>3 DEF Has
<1> QED BY <1>1, <1>4, OwnKept DEF Released

LEMMA OwnWorld ==
  ASSUME Shape, OwnInv, WorldStep
  PROVE  OwnInv'
<1>p. UNCHANGED <<rec, net, proc, freed>>
  BY DEF WorldStep, CreatePod, DeletePod, StopSandbox, CooldownOver, PoolDrop, IpamdSwitch, relVars
<1>h. \A s \in Sandbox, i \in IP : Has(s, i)' => Has(s, i)
  <2>1. CASE UNCHANGED gc BY <2>1, <1>p DEF Has
  <2>2. CASE gc' = NoGC BY <2>2, <1>p, PluginAssumption DEF Has, NoGC
  <2> QED BY <2>1, <2>2 DEF WorldStep, CreatePod, DeletePod, StopSandbox, CooldownOver, PoolDrop, IpamdSwitch
<1>1. CASE UNCHANGED <<attached, pool, cool>>
  BY <1>1, <1>p, <1>h, OwnKept DEF Released
<1>2. ASSUME NEW i \in IP, CooldownOver(i) \/ PoolDrop(i) PROVE OwnInv'
  <2>a. Pools /\ Mine /\ Apart /\ AddApart BY DEF OwnInv
  <2>1. Pools' BY <1>2, <2>a DEF CooldownOver, PoolDrop, Pools
  <2>2. \A s \in Sandbox \ freed, j \in IP : Has(s, j) => j \in attached' /\ j \notin pool' /\ j \notin cool'
    BY <1>2, <2>a DEF CooldownOver, PoolDrop, Mine
  <2>3. Mine' BY <2>2, <1>p, <1>h DEF Mine
  <2>4. Apart' BY <2>a, <1>p, <1>h DEF Apart
  <2>5. UNCHANGED gc BY <1>2 DEF CooldownOver, PoolDrop
  <2>6. AddApart' BY <2>a, <2>5, <1>p DEF AddApart, Has
  <2> QED BY <2>1, <2>3, <2>4, <2>6 DEF OwnInv
<1> QED BY <1>1, <1>2 DEF WorldStep, CreatePod, DeletePod, StopSandbox, IpamdSwitch, relVars, ipamVars

(* Ownership is inductive until the first hazardous event. *)
LEMMA OwnStep ==
  ASSUME Shape, hazards = {} => OwnInv, [Next]_vars
  PROVE  hazards' = {} => OwnInv'
<1> SUFFICES ASSUME hazards' = {} PROVE OwnInv' OBVIOUS
<1>0. OwnInv BY HazardsGrow
<1>1. CASE UNCHANGED vars
  <2>1. UNCHANGED <<net, rec, gc, proc, attached, pool, cool, freed>>
    BY <1>1 DEF vars, relVars, ipamVars
  <2> QED BY <2>1, <1>0 DEF OwnInv, Pools, Mine, Apart, AddApart, Has
<1>2. CASE Next
  BY <1>0, <1>2, OwnStart, OwnAssign, OwnAdd, OwnDel, OwnKill, OwnReconcile, OwnWorld DEF Next
<1> QED BY <1>1, <1>2

LEMMA OwnGivesUse ==
  ASSUME Shape, hazards = {} => OwnInv
  PROVE  UniqueUse
<1> SUFFICES ASSUME hazards = {}, NEW s \in Sandbox, sb[s] = "running" PROVE InUse(s)
  BY DEF UniqueUse, Running
<1>0. Mine /\ Apart /\ AddApart /\ ProcSb /\ ProcOK /\ SbShape BY ShapeParts DEF OwnInv
<1>1. s \notin freed /\ net[s] \in IP /\ Has(s, net[s]) BY <1>0 DEF SbShape, Has
<1>2. net[s] \in attached /\ net[s] \notin pool \cup cool BY <1>0, <1>1 DEF Mine
<1>3. \A t \in Running \ {s} : net[t] # net[s]
  <2> SUFFICES ASSUME NEW t \in Sandbox, sb[t] = "running", t # s PROVE net[t] # net[s] BY DEF Running
  <2>1. t \notin freed /\ net[t] \in IP /\ Has(t, net[t]) BY <1>0 DEF SbShape, Has
  <2> QED BY <2>1, <1>1, <1>0 DEF Apart
<1>4. proc.op = "ADD" => proc.ip # net[s]
  <2> SUFFICES ASSUME proc.op = "ADD", proc.ip = net[s] PROVE FALSE OBVIOUS
  <2>1. s # proc.sb BY <1>0 DEF ProcSb
  <2>2. proc.ip # NoIP BY <1>1, PluginAssumption
  <2> QED BY <2>1, <2>2, <1>0, <1>1 DEF AddApart
<1> QED BY <1>2, <1>3, <1>4 DEF InUse

(* Whatever the interleaving of ADDs, DELs, rollbacks, dying processes,    *)
(* restarts of ipamd and the reconciler: until a release has been repeated *)
(* too late, the address of a running pod is attached to the node, is not  *)
(* in ipamd's hands and belongs to no other pod and to no ADD.             *)
THEOREM PodsHaveTheirAddress == Spec => []UniqueUse
<1>1. Init => Shape /\ (hazards = {} => OwnInv) BY ShapeInit, OwnInit
<1>2. Shape /\ (hazards = {} => OwnInv) /\ [Next]_vars => Shape' /\ (hazards = {} => OwnInv)'
  BY ShapeStep, OwnStep
<1>3. Shape /\ (hazards = {} => OwnInv) => UniqueUse BY OwnGivesUse
<1> QED BY <1>1, <1>2, <1>3, PTL DEF Spec

----------------------------------------------------------------------------
(* Records: until a hazardous event the reconciler deletes only records of *)
(* pods that are gone, and what it writes is what the record says.         *)

Bound(s) == sb[s] = "running" \/ (At("ADD", "portmap") /\ proc.sb = s)

DelGone == \A s \in gc.del : api[PodOf[s]] = "gone"
RecNet == \A s \in Sandbox : Bound(s) /\ api[PodOf[s]] = "live" => rec[s].ip = net[s]
PutRec == \A s \in Sandbox \ freed : gc.put[s] # NoIP => rec[s].ip = gc.put[s]
IfaceRec == At("DEL", "iface") /\ proc.sb \notin freed => rec[proc.sb] = NoRec

RecInv == DelGone /\ RecNet /\ PutRec /\ IfaceRec

LEMMA RecInit == Init => RecInv
<1> SUFFICES ASSUME Init PROVE RecInv OBVIOUS
<1>1. DelGone /\ PutRec BY DEF Init, NoGC, DelGone, PutRec
<1>2. RecNet /\ IfaceRec BY NoProcTypes DEF Init, RecNet, IfaceRec, Bound, At
<1> QED BY <1>1, <1>2 DEF RecInv

(* A sandbox that has been set up has not been released. *)
LEMMA BoundIsHeld ==
  ASSUME Shape, NEW s \in Sandbox, Bound(s)
  PROVE  s \notin freed /\ sb[s] # "none" /\ api[PodOf[s]] # "new"
<1>0. ProcSb /\ Progress /\ SbShape /\ PodShape BY ShapeParts
<1> QED BY <1>0 DEF Bound, ProcSb, Progress, SbShape, PodShape, At, Busy

LEMMA RecStart ==
  ASSUME Shape, RecInv, NEW s \in Sandbox, StartAdd(s) \/ StartDel(s)
  PROVE  RecInv'
<1>0. SbType BY ShapeParts
<1>1. UNCHANGED <<api, net, rec, gc, freed>> /\ (UNCHANGED sb \/ sb' = [sb EXCEPT ![s] = "adding"])
  BY DEF StartAdd, StartDel, relVars, kubeVars
<1>2. proc'.pc \in {"assign", "get"} BY DEF StartAdd, StartDel, NoProc
<1>3. \A t \in Sandbox : Bound(t)' => Bound(t) BY <1>0, <1>1, <1>2 DEF Bound, At, SbType
<1>4. DelGone' /\ RecNet' /\ PutRec' BY <1>1, <1>3 DEF RecInv, DelGone, RecNet, PutRec
<1>5. IfaceRec' BY <1>2 DEF IfaceRec, At
<1> QED BY <1>4, <1>5 DEF RecInv

LEMMA RecAdd ==
  ASSUME Shape, OwnInv, RecInv, AddStep
  PROVE  RecInv'
<1>0. ProcCtl /\ ProcOK /\ ProcSb /\ Progress /\ SbType /\ NetType /\ RecType /\ GCOK BY ShapeParts
<1>1. proc.op = "ADD" /\ proc.sb \in Sandbox /\ UNCHANGED <<api, gc>>
  BY <1>0 DEF AddStep, assignPodIp, checkMasterInterface, syncNATGWOutgoingIP, setupPodVethNetwork,
       innerRelease, rollbackReleaseIP, addPodNetworkRecord, portmapCmdAdd, At, ProcCtl, kubeVars
<1>2. proc'.op \in {"none", "ADD"}
  <2>1. CASE \E pc \in AddPC : Goto(pc) BY <2>1, <1>0, <1>1, GotoIs
  <2>2. CASE \/ proc' = [proc EXCEPT !.pc = "veth", !.nat = proc.ip \notin nat]
             \/ \E i \in IP : proc' = [proc EXCEPT !.pc = "check", !.ip = i, !.uid = up]
    BY <2>2, <1>0, <1>1 DEF ProcOK, ProcType
  <2>3. CASE AddFails \/ proc' = NoProc BY <2>3, NoProcTypes DEF AddFails
  <2> QED BY <2>1, <2>2, <2>3 DEF AddStep, assignPodIp, checkMasterInterface, syncNATGWOutgoingIP,
                setupPodVethNetwork, innerRelease, rollbackReleaseIP, addPodNetworkRecord, portmapCmdAdd, AddPC
<1>3. IfaceRec' BY <1>2 DEF IfaceRec, At
<1>4. DelGone' BY <1>1 DEF RecInv, DelGone
<1>5. CASE addPodNetworkRecord
  <2>1. proc.pc = "record" /\ proc.ip \in IP /\ net[proc.sb] = proc.ip /\ proc.sb \notin freed /\ UNCHANGED net
    BY <1>5, <1>0 DEF addPodNetworkRecord, At, ProcCtl, Progress, Busy
  <2>2. \A s \in Sandbox : s # proc.sb => rec'[s] = rec[s] /\ (sb'[s] = "running" => sb[s] = "running")
    BY <1>5, <1>0, <1>1 DEF addPodNetworkRecord, RecType, SbType, AddFails
  <2>f. freed \subseteq freed' BY <1>5 DEF addPodNetworkRecord, Release, relVars
  <2>3. CASE UNCHANGED rec /\ AddFails
    <3>1. AddFails BY <2>3
    <3>2. \A s \in Sandbox : ~(At("ADD", "portmap") /\ proc.sb = s)' BY <3>1, NoProcTypes DEF AddFails, At
    <3>3. sb'[proc.sb] # "running" BY <3>1, <1>0, <1>1 DEF AddFails, SbType
    <3>4. RecNet' BY <3>2, <3>3, <2>1, <2>2, <1>1 DEF RecNet, RecInv, Bound
    <3>5. PutRec' BY <2>3, <2>f, <1>1 DEF PutRec, RecInv
    <3> QED BY <3>4, <3>5, <1>3, <1>4 DEF RecInv
  <2>4. CASE rec' = [rec EXCEPT ![proc.sb] = [ip |-> proc.ip, uid |-> proc.uid]]
    <3>1. rec'[proc.sb].ip = proc.ip BY <2>4, <1>0, <1>1 DEF RecType
    <3>3. \A s \in Sandbox : s # proc.sb /\ Bound(s)' => Bound(s)
      <4>1. proc'.sb \in {proc.sb, NoSandbox}
        <5>1. CASE AddFails BY <5>1 DEF AddFails, NoProc
        <5>2. CASE Goto("portmap") BY <5>2, <1>0, GotoIs DEF AddPC
        <5> QED BY <5>1, <5>2, <1>5 DEF addPodNetworkRecord
      <4> QED BY <4>1, <2>2, PluginAssumption DEF Bound, At
    <3>4. RecNet' BY <3>1, <3>3, <2>1, <2>2, <1>1 DEF RecNet, RecInv
    <3>5. PutRec'
      <4> SUFFICES ASSUME NEW s \in Sandbox, s \notin freed', gc.put[s] # NoIP PROVE rec'[s].ip = gc.put[s]
        BY <1>1 DEF PutRec
      <4>1. CASE s # proc.sb BY <4>1, <2>2, <2>f DEF RecInv, PutRec
      <4>2. CASE s = proc.sb
        <5>1. gc.put[s] \in IP /\ Has(s, gc.put[s]) /\ Has(s, proc.ip)
          BY <4>2, <1>0 DEF GCOK, GCType, Has
        <5>2. gc.put[s] = proc.ip BY <5>1, <4>2, <2>1 DEF OwnInv, Apart
        <5> QED BY <5>2, <3>1, <4>2
      <4> QED BY <4>1, <4>2
    <3> QED BY <3>4, <3>5, <1>3, <1>4 DEF RecInv
  <2> QED BY <1>5, <2>3, <2>4 DEF addPodNetworkRecord
<1>6. CASE portmapCmdAdd
  <2>1. UNCHANGED <<rec, net, freed>> /\ proc' = NoProc /\ At("ADD", "portmap")
    BY <1>6 DEF portmapCmdAdd, relVars, AddFails
  <2>2. \A s \in Sandbox : Bound(s)' => Bound(s)
    BY <1>6, <2>1, <1>0, <1>1, NoProcTypes DEF portmapCmdAdd, Bound, At, SbType, AddFails
  <2>3. RecNet' /\ PutRec' BY <2>1, <2>2, <1>1 DEF RecNet, PutRec, RecInv
  <2> QED BY <2>3, <1>3, <1>4 DEF RecInv
<1>7. CASE ~addPodNetworkRecord /\ ~portmapCmdAdd
  <2>1. UNCHANGED rec /\ freed \subseteq freed'
    BY <1>7 DEF AddStep, assignPodIp, checkMasterInterface, syncNATGWOutgoingIP, setupPodVethNetwork,
         innerRelease, rollbackReleaseIP, releasePodIp, Release, relVars
  <2>2. proc'.pc # "portmap"
    <3>1. CASE \E pc \in AddPC \ {"portmap"} : Goto(pc) BY <3>1, <1>0, GotoIs
    <3>2. CASE \/ proc' = [proc EXCEPT !.pc = "veth", !.nat = proc.ip \notin nat]
               \/ \E i \in IP : proc' = [proc EXCEPT !.pc = "check", !.ip = i, !.uid = up]
      BY <3>2, <1>0 DEF ProcOK, ProcType
    <3>3. CASE AddFails BY <3>3 DEF AddFails, NoProc
    <3> QED BY <3>1, <3>2, <3>3, <1>7 DEF AddStep, assignPodIp, checkMasterInterface, syncNATGWOutgoingIP,
                  setupPodVethNetwork, innerRelease, rollbackReleaseIP, AddPC
  <2>3. UNCHANGED sb \/ sb' = [sb EXCEPT ![proc.sb] = "deleting"]
    BY <1>7 DEF AddStep, assignPodIp, checkMasterInterface, syncNATGWOutgoingIP, setupPodVethNetwork,
         innerRelease, rollbackReleaseIP, AddFails, kubeVars
  <2>4. \A s \in Sandbox : Bound(s)' => s # proc.sb /\ Bound(s)
    BY <2>2, <2>3, <1>0, <1>1 DEF Bound, At, SbType, ProcSb
  <2>5. \A s \in Sandbox : s # proc.sb => net'[s] = net[s]
    BY <1>7, <1>0, <1>1 DEF AddStep, assignPodIp, checkMasterInterface, syncNATGWOutgoingIP,
         setupPodVethNetwork, innerRelease, rollbackReleaseIP, NetType
  <2>6. RecNet' BY <2>1, <2>4, <2>5, <1>1 DEF RecNet, RecInv
  <2>7. PutRec' BY <2>1, <1>1 DEF PutRec, RecInv
  <2> QED BY <2>6, <2>7, <1>3, <1>4 DEF RecInv
<1> QED BY <1>5, <1>6, <1>7

LEMMA RecDel ==
  ASSUME Shape, RecInv, DelStep
  PROVE  RecInv'
<1>0. ProcCtl /\ ProcOK /\ ProcSb /\ Progress /\ SbType /\ NetType /\ RecType /\ GCOK BY ShapeParts
<1>1. proc.op = "DEL" /\ proc.sb \in Sandbox /\ UNCHANGED <<api, gc>>
  BY <1>0 DEF DelStep, getPodNetworkRecord, cleanUpIPRoutePolicy, DelRelease, delPodNetworkRecord,
       DelInterface, At, ProcCtl, kubeVars
<1>f. freed \subseteq freed'
  BY DEF DelStep, getPodNetworkRecord, cleanUpIPRoutePolicy, DelRelease, delPodNetworkRecord,
       DelInterface, releasePodIp, Release, relVars
<1>2. UNCHANGED rec \/ (proc.sb \in freed /\ rec' = [rec EXCEPT ![proc.sb] = NoRec])
  BY <1>0 DEF DelStep, getPodNetworkRecord, cleanUpIPRoutePolicy, DelRelease, delPodNetworkRecord,
       DelInterface, Progress
<1>3. \A s \in Sandbox : s # proc.sb => rec'[s] = rec[s] /\ net'[s] = net[s] /\ sb'[s] = sb[s]
  BY <1>0, <1>1 DEF DelStep, getPodNetworkRecord, cleanUpIPRoutePolicy, DelRelease, delPodNetworkRecord,
       DelInterface, DelFails, DelOK, SbType, NetType, RecType, kubeVars
<1>4. sb'[proc.sb] # "running"
  BY <1>0, <1>1 DEF DelStep, getPodNetworkRecord, cleanUpIPRoutePolicy, DelRelease, delPodNetworkRecord,
       DelInterface, DelFails, DelOK, SbType, ProcSb, kubeVars
<1>5. \/ proc' = NoProc
      \/ proc'.op = "DEL" /\ proc'.sb = proc.sb /\ proc'.pc # "iface"
      \/ proc'.op = "DEL" /\ proc'.sb = proc.sb /\ (rec'[proc.sb] = NoRec \/ proc.sb \in freed)
  <2>1. CASE getPodNetworkRecord
    <3>1. CASE proc' = [proc EXCEPT !.pc = "natdel", !.ip = rec[proc.sb].ip]
      BY <3>1, <1>0, <1>1 DEF ProcOK, ProcType
    <3>2. CASE rec[proc.sb] = NoRec /\ Goto("iface")
      BY <3>2, <2>1, <1>0, <1>1, GotoIs DEF DelPC, getPodNetworkRecord
    <3>3. CASE DelOK BY <3>3 DEF DelOK
    <3> QED BY <2>1, <3>1, <3>2, <3>3 DEF getPodNetworkRecord
  <2>2. CASE cleanUpIPRoutePolicy \/ DelRelease
    <3>1. CASE \E pc \in {"release", "delrec"} : Goto(pc) BY <3>1, <1>0, <1>1, GotoIs DEF DelPC
    <3>2. CASE DelFails BY <3>2 DEF DelFails
    <3> QED BY <2>2, <3>1, <3>2 DEF cleanUpIPRoutePolicy, DelRelease
  <2>3. CASE delPodNetworkRecord
    <3>1. Goto("iface") /\ proc.sb \in freed BY <2>3, <1>0 DEF delPodNetworkRecord, Progress
    <3> QED BY <3>1, <1>0, <1>1, GotoIs DEF DelPC
  <2>4. CASE DelInterface BY <2>4 DEF DelInterface, DelOK, DelFails
  <2> QED BY <2>1, <2>2, <2>3, <2>4 DEF DelStep
<1>6. DelGone' BY <1>1 DEF RecInv, DelGone
<1>7. \A s \in Sandbox : Bound(s)' => s # proc.sb /\ Bound(s)
  BY <1>3, <1>4, <1>5, <1>1, NoProcTypes DEF Bound, At
<1>8. RecNet' BY <1>3, <1>7, <1>1 DEF RecNet, RecInv
<1>9. PutRec'
  <2> SUFFICES ASSUME NEW s \in Sandbox, s \notin freed', gc.put[s] # NoIP PROVE rec'[s].ip = gc.put[s]
    BY <1>1 DEF PutRec
  <2>1. rec'[s] = rec[s] BY <1>2, <1>3, <1>f
  <2> QED BY <2>1, <1>f DEF PutRec, RecInv
<1>10. IfaceRec' BY <1>5, <1>f, NoProcTypes DEF IfaceRec, At
<1> QED BY <1>6, <1>8, <1>9, <1>10 DEF RecInv

LEMMA RecKill ==
  ASSUME Shape, RecInv, tickSuicide
  PROVE  RecInv'
<1>0. SbType /\ ProcSb /\ ProcCtl BY ShapeParts
<1>1. UNCHANGED <<api, net, rec, gc, freed>> /\ proc' = NoProc
      /\ (UNCHANGED sb \/ sb' = [sb EXCEPT ![proc.sb] = "deleting"])
  BY DEF tickSuicide, relVars, AddFails
<1>2. \A t \in Sandbox : Bound(t)' => Bound(t)
  BY <1>0, <1>1, NoProcTypes DEF Bound, At, SbType
<1>3. DelGone' /\ RecNet' /\ PutRec' BY <1>1, <1>2 DEF RecInv, DelGone, RecNet, PutRec
<1>4. IfaceRec' BY <1>1, NoProcTypes DEF IfaceRec, At
<1> QED BY <1>3, <1>4 DEF RecInv

LEMMA RecReconcile ==
  ASSUME Shape, RecInv, ReconcileStep, hazards' = {}
  PROVE  RecInv'
<1>0. SbType /\ SbShape /\ PodShape /\ KubeType /\ RecType /\ GCOK /\ ProcCtl BY ShapeParts
<1>1. UNCHANGED <<api, sb, net, proc, freed>>
  BY DEF ReconcileStep, ReconcileListPods, ReconcileListRecords, ReconcileEnd, ReconcilePut,
       ReconcileDelete, relVars, kubeVars
<1>b. \A s \in Sandbox : Bound(s)' <=> Bound(s) BY <1>1 DEF Bound, At
<1>2. CASE ReconcileListPods
  <2>1. UNCHANGED rec /\ gc'.del = gc.del /\ gc'.put = gc.put
    BY <1>2, <1>0 DEF ReconcileListPods, GCOK, GCType
  <2> QED BY <2>1, <1>1, <1>b DEF RecInv, DelGone, RecNet, PutRec, IfaceRec, At
<1>3. CASE ReconcileListRecords
  <2>1. UNCHANGED rec /\ gc'.del = Orphans
        /\ gc'.put = [s \in Sandbox |-> IF s \in Complete THEN rec[s].ip ELSE NoIP]
    BY <1>3 DEF ReconcileListRecords
  <2>2. ASSUME NEW s \in Orphans PROVE api[PodOf[s]] = "gone"
    <3>1. s \in Sandbox /\ rec[s] # NoRec /\ PodOf[s] \notin gc.pods BY DEF Orphans, Recorded
    <3>2. api[PodOf[s]] # "live" BY <3>1, <1>3 DEF ReconcileListRecords, Recorded
    <3>3. api[PodOf[s]] # "new" BY <3>1, <1>0 DEF SbShape, Fresh, PodShape
    <3> QED BY <3>1, <3>2, <3>3, <1>0, PluginAssumption DEF KubeType
  <2>3. DelGone' BY <2>1, <2>2, <1>1 DEF DelGone
  <2>4. RecNet' /\ IfaceRec' BY <2>1, <1>1, <1>b DEF RecInv, RecNet, IfaceRec, At
  <2>5. PutRec' BY <2>1, <1>1 DEF PutRec
  <2> QED BY <2>3, <2>4, <2>5 DEF RecInv
<1>4. CASE ReconcileEnd
  <2>1. UNCHANGED rec /\ gc'.del = {} /\ \A s \in Sandbox : gc'.put[s] = NoIP
    BY <1>4 DEF ReconcileEnd, NoGC
  <2> QED BY <2>1, <1>1, <1>b DEF RecInv, DelGone, RecNet, PutRec, IfaceRec, At
<1>5. ASSUME NEW s \in Sandbox, ReconcilePut(s) PROVE RecInv'
  <2>1. gc'.put = [gc.put EXCEPT ![s] = NoIP] /\ gc'.del = gc.del
    BY <1>5, <1>0 DEF ReconcilePut, GCOK, GCType
  <2>2. gc.put[s] # NoIP BY <1>5 DEF ReconcilePut
  <2>3. \A t \in Sandbox : /\ t # s => rec'[t] = rec[t]
                           /\ rec'[t] = rec[t] \/ (t = s /\ rec'[t].ip = gc.put[t])
    BY <1>5, <1>0 DEF ReconcilePut, RecType
  <2>4. \A t \in Sandbox \ freed : rec'[t].ip = rec[t].ip
    BY <2>2, <2>3 DEF RecInv, PutRec
  <2>5. DelGone' BY <2>1, <1>1 DEF RecInv, DelGone
  <2>6. RecNet' BY <2>4, <1>1, <1>b, BoundIsHeld DEF RecInv, RecNet
  <2>7. PutRec'
    <3>1. \A t \in Sandbox : gc'.put[t] # NoIP => gc'.put[t] = gc.put[t] BY <2>1, <1>0 DEF GCOK, GCType
    <3> QED BY <3>1, <2>4, <1>1 DEF RecInv, PutRec
  <2>8. IfaceRec'
    <3> SUFFICES ASSUME At("DEL", "iface"), proc.sb \notin freed PROVE rec'[proc.sb] = NoRec
      BY <1>1 DEF IfaceRec, At
    <3>1. rec[proc.sb] = NoRec /\ proc.sb \in Sandbox BY <1>0 DEF RecInv, IfaceRec, ProcCtl, At
    <3>2. proc.sb # s BY <3>1, <2>2 DEF RecInv, PutRec, NoRec
    <3> QED BY <3>1, <3>2, <2>3
  <2> QED BY <2>5, <2>6, <2>7, <2>8 DEF RecInv
<1>6. ASSUME NEW s \in Sandbox, ReconcileDelete(s) PROVE RecInv'
  <2>1. gc'.put = gc.put /\ gc'.del \subseteq gc.del /\ s \in gc.del /\ \A t \in Sandbox : gc.put[t] = NoIP
    BY <1>6, <1>0 DEF ReconcileDelete, GCOK, GCType, NoGC
  <2>2. \A t \in Sandbox : /\ t # s => rec'[t] = rec[t]
                           /\ rec'[t] = rec[t] \/ rec'[t] = NoRec
    BY <1>6, <1>0 DEF ReconcileDelete, RecType
  <2>3. api[PodOf[s]] = "gone" BY <2>1 DEF RecInv, DelGone
  <2>4. DelGone' BY <2>1, <1>1 DEF RecInv, DelGone
  <2>5. RecNet' BY <2>2, <2>3, <1>1, <1>b DEF RecInv, RecNet
  <2>6. PutRec' BY <2>1 DEF PutRec
  <2>7. IfaceRec' BY <2>2, <1>0, <1>1 DEF RecInv, IfaceRec, At, ProcCtl
  <2> QED BY <2>4, <2>5, <2>6, <2>7 DEF RecInv
<1> QED BY <1>2, <1>3, <1>4, <1>5, <1>6 DEF ReconcileStep

LEMMA RecWorld ==
  ASSUME Shape, RecInv, WorldStep
  PROVE  RecInv'
<1>0. SbType /\ KubeType /\ GCOK /\ ProcCtl BY ShapeParts
<1>1. UNCHANGED <<rec, net, proc, freed>>
  BY DEF WorldStep, CreatePod, DeletePod, StopSandbox, CooldownOver, PoolDrop, IpamdSwitch, relVars
<1>2. UNCHANGED gc \/ gc' = NoGC
  BY DEF WorldStep, CreatePod, DeletePod, StopSandbox, CooldownOver, PoolDrop, IpamdSwitch
<1>3. \A p \in Pod : /\ api[p] = "gone" => api'[p] = "gone"
                     /\ api'[p] = "live" => api[p] \in {"new", "live"}
  BY <1>0 DEF WorldStep, CreatePod, DeletePod, StopSandbox, CooldownOver, PoolDrop, IpamdSwitch, KubeType, kubeVars
<1>4. \A s \in Sandbox : sb'[s] = "running" => sb[s] = "running"
  BY <1>0 DEF WorldStep, CreatePod, DeletePod, StopSandbox, CooldownOver, PoolDrop, IpamdSwitch, SbType, kubeVars
<1>5. \A s \in Sandbox : Bound(s)' => Bound(s) BY <1>1, <1>4 DEF Bound, At
<1>6. RecNet' BY <1>1, <1>3, <1>5, BoundIsHeld, PluginAssumption DEF RecInv, RecNet
<1>7. IfaceRec' BY <1>1 DEF RecInv, IfaceRec, At
<1>8. DelGone' /\ PutRec'
  <2>1. CASE UNCHANGED gc
    <3>1. gc.del \subseteq Sandbox BY <1>0 DEF GCOK, GCType
    <3> QED BY <2>1, <3>1, <1>1, <1>3, PluginAssumption DEF RecInv, DelGone, PutRec
  <2>2. CASE gc' = NoGC BY <2>2 DEF NoGC, DelGone, PutRec
  <2> QED BY <2>1, <2>2, <1>2
<1> QED BY <1>6, <1>7, <1>8 DEF RecInv

LEMMA RecStep ==
  ASSUME Shape, hazards = {} => OwnInv /\ RecInv, [Next]_vars
  PROVE  hazards' = {} => RecInv'
<1> SUFFICES ASSUME hazards' = {} PROVE RecInv' OBVIOUS
<1>0. OwnInv /\ RecInv BY HazardsGrow
<1>1. CASE UNCHANGED vars
  <2>1. UNCHANGED <<api, sb, net, rec, gc, proc, freed>>
    BY <1>1 DEF vars, relVars, kubeVars
  <2> QED BY <2>1, <1>0 DEF RecInv, DelGone, RecNet, PutRec, IfaceRec, Bound, At
<1>2. CASE Next
  BY <1>0, <1>2, RecStart, RecAdd, RecDel, RecKill, RecReconcile, RecWorld DEF Next
<1> QED BY <1>1, <1>2

(* Until a hazardous event the record of a running pod names the address   *)
(* of its network namespace, whatever failed calls, repeated ADDs and the  *)
(* reconciler, which writes back what it read earlier, have done.          *)
THEOREM RecordsNameTheAddress == Spec => []RecordKept
<1>1. Init => Shape /\ (hazards = {} => OwnInv /\ RecInv) BY ShapeInit, OwnInit, RecInit
<1>2. Shape /\ (hazards = {} => OwnInv /\ RecInv) /\ [Next]_vars
      => Shape' /\ (hazards = {} => OwnInv /\ RecInv)'
  BY ShapeStep, OwnStep, RecStep
<1>3. Shape /\ (hazards = {} => OwnInv /\ RecInv) => RecordKept
  BY DEF RecordKept, RecInv, RecNet, Bound, Running
<1> QED BY <1>1, <1>2, <1>3, PTL DEF Spec

----------------------------------------------------------------------------
(* The ipset: an address in it is attached and not in ipamd's hands, or is *)
(* that of an ADD that is about to remove it.                              *)

NatHeld ==
  \A i \in nat : \/ i \in attached /\ i \notin pool /\ i \notin cool
                 \/ At("ADD", "rollback") /\ proc.ip = i
NatAdd ==
  proc.op = "ADD" =>
    /\ proc.ip \in nat <=> proc.nat
    /\ proc.pc \in {"assign", "check", "nat"} => ~proc.nat
    /\ proc.pc \in {"veth", "inner", "record", "portmap"} => (proc.nat <=> PodOf[proc.sb] \in NatPod)
NatDel == At("DEL", "release") /\ proc.sb \notin freed => proc.ip \notin nat
NatRun == \A s \in Sandbox : sb[s] = "running" => (net[s] \in nat <=> PodOf[s] \in NatPod)

NatInv == NatHeld /\ NatAdd /\ NatDel /\ NatRun

LEMMA NatInit == Init => NatInv
<1> SUFFICES ASSUME Init PROVE NatInv OBVIOUS
<1>1. proc.op = "none" BY NoProcTypes DEF Init
<1> QED BY <1>1 DEF Init, NatInv, NatHeld, NatAdd, NatDel, NatRun, At

(* A failed ipset call or a dead ADD is never forgotten. *)
LEMMA DirtyStays ==
  ASSUME [Next]_vars, natDirty
  PROVE  natDirty'
<1>1. CASE UNCHANGED vars BY <1>1 DEF vars, natVars
<1>2. ASSUME NEW s \in Sandbox, StartAdd(s) \/ StartDel(s) PROVE natDirty'
  BY <1>2 DEF StartAdd, StartDel, natVars
<1>3. CASE AddStep
  BY <1>3 DEF AddStep, assignPodIp, checkMasterInterface, syncNATGWOutgoingIP, setupPodVethNetwork,
       innerRelease, rollbackReleaseIP, addPodNetworkRecord, portmapCmdAdd, rollbackNATGWOutgoingIP,
       deleteNATGWOutgoingIP, natVars
<1>4. CASE DelStep
  BY <1>4 DEF DelStep, getPodNetworkRecord, cleanUpIPRoutePolicy, DelRelease, delPodNetworkRecord,
       DelInterface, deleteNATGWOutgoingIP, natVars
<1>5. CASE tickSuicide BY <1>5 DEF tickSuicide
<1>6. CASE ReconcileStep
  BY <1>6 DEF ReconcileStep, ReconcileListPods, ReconcileListRecords, ReconcileEnd, ReconcilePut,
       ReconcileDelete, natVars
<1>7. CASE WorldStep
  BY <1>7 DEF WorldStep, CreatePod, DeletePod, StopSandbox, CooldownOver, PoolDrop, IpamdSwitch, natVars
<1> QED BY <1>1, <1>2, <1>3, <1>4, <1>5, <1>6, <1>7 DEF Next

(* The address of the ADD in progress, or of a DEL whose release is not    *)
(* outdated, is no running pod's.                                          *)
LEMMA NotRunning ==
  ASSUME Shape, OwnInv, NEW s \in Sandbox, sb[s] = "running",
         proc.op # "none", proc.ip \in IP,
         proc.op = "DEL" => ~Outdated(proc.sb, proc.ip, TRUE)
  PROVE  net[s] # proc.ip /\ net[s] \in attached /\ net[s] \notin pool /\ net[s] \notin cool
<1>0. Mine /\ Apart /\ AddApart /\ ProcCtl /\ ProcSb /\ ProcOK /\ SbShape BY ShapeParts DEF OwnInv
<1>1. s \notin freed /\ net[s] \in IP /\ Has(s, net[s]) BY <1>0 DEF SbShape, Has
<1>2. net[s] \in attached /\ net[s] \notin pool /\ net[s] \notin cool BY <1>0, <1>1 DEF Mine
<1>3. s # proc.sb BY <1>0 DEF ProcSb, ProcOK, ProcType
<1>4. CASE proc.op = "ADD"
  <2>1. proc.ip # NoIP BY PluginAssumption
  <2>2. proc.ip = net[s] => FALSE BY <2>1, <1>0, <1>1, <1>3, <1>4 DEF AddApart
  <2> QED BY <2>2, <1>2
<1>5. CASE proc.op = "DEL" /\ proc.sb \in freed
  BY <1>5, <1>2 DEF Outdated
<1>6. CASE proc.op = "DEL" /\ proc.sb \notin freed
  <2>1. proc.sb \in Sandbox /\ Has(proc.sb, proc.ip) BY <1>0, <1>6 DEF ProcCtl, Has
  <2> QED BY <2>1, <1>0, <1>1, <1>2, <1>3, <1>6 DEF Apart
<1> QED BY <1>0, <1>4, <1>5, <1>6 DEF ProcOK, ProcType

(* An ADD that fails after it has its address leaves the ipset as it found *)
(* it.                                                                     *)
LEMMA NatEndAdd ==
  ASSUME Shape, OwnInv, NatInv, proc.op = "ADD", proc.ip \in IP, rollbackNATGWOutgoingIP,
         ~natDirty', proc' = NoProc, Released, UNCHANGED net, sb' = [sb EXCEPT ![proc.sb] = "deleting"]
  PROVE  NatInv'
<1>0. SbType /\ ProcCtl /\ NatType BY ShapeParts
<1>1. nat' = nat \ {proc.ip}
  BY DEF rollbackNATGWOutgoingIP, deleteNATGWOutgoingIP, natVars, NatInv, NatAdd
<1>2. NatHeld' BY <1>1 DEF Released, NatInv, NatHeld, At
<1>3. NatAdd' /\ NatDel' BY NoProcTypes DEF NatAdd, NatDel, At
<1>4. NatRun'
  <2> SUFFICES ASSUME NEW s \in Sandbox, sb'[s] = "running" PROVE net[s] \in nat' <=> PodOf[s] \in NatPod
    BY DEF NatRun
  <2>1. sb[s] = "running" BY <1>0 DEF SbType
  <2>2. net[s] # proc.ip BY <2>1, NotRunning
  <2> QED BY <2>1, <2>2, <1>1 DEF NatInv, NatRun
<1> QED BY <1>2, <1>3, <1>4 DEF NatInv

LEMMA NatAddStep ==
  ASSUME Shape, OwnInv, RecInv, NatInv, AddStep, hazards' = {}, ~natDirty'
  PROVE  NatInv'
<1>0. ProcCtl /\ ProcOK /\ ProcSb /\ Progress /\ SbType /\ NetType /\ NatType BY ShapeParts
<1>a. NatHeld /\ NatAdd /\ NatDel /\ NatRun /\ Mine /\ Pools BY DEF NatInv, OwnInv
<1>1. proc.op = "ADD" /\ proc.sb \in Sandbox
  BY <1>0 DEF AddStep, assignPodIp, checkMasterInterface, syncNATGWOutgoingIP, setupPodVethNetwork,
       innerRelease, rollbackReleaseIP, addPodNetworkRecord, portmapCmdAdd, At, ProcCtl
<1>2. CASE assignPodIp
  <2>1. proc.pc = "assign" /\ UNCHANGED <<nat, net, cool>> BY <1>2 DEF assignPodIp, At, natVars
  <2>2. \A i \in nat : i \in attached' /\ i \notin pool' /\ i \notin cool'
    BY <1>2, <1>a, <2>1 DEF assignPodIp, AddPodNetwork, NatHeld, At
  <2>3. NatHeld' BY <2>1, <2>2 DEF NatHeld
  <2>4. CASE AddFails
    <3>1. NatAdd' /\ NatDel' BY <2>4, NoProcTypes DEF NatAdd, NatDel, At, AddFails
    <3>2. NatRun' BY <2>4, <2>1, <1>a, <1>0 DEF NatRun, AddFails, SbType
    <3> QED BY <2>3, <3>1, <3>2 DEF NatInv
  <2>5. ASSUME NEW i \in IP,
               \/ up /\ AddPodNetwork(i)
               \/ ~up /\ i \notin attached /\ attached' = attached \cup {i} /\ UNCHANGED pool,
               proc' = [proc EXCEPT !.pc = "check", !.ip = i, !.uid = up], UNCHANGED sb
        PROVE  NatInv'
    <3>p. proc'.op = "ADD" /\ proc'.sb = proc.sb /\ proc'.ip = i /\ proc'.pc = "check" /\ proc'.nat = proc.nat
      BY <2>5, <1>0, <1>1 DEF ProcOK, ProcType
    <3>1. i \notin nat BY <2>5, <1>a, <2>1 DEF AddPodNetwork, NatHeld, At
    <3>2. ~proc.nat BY <1>a, <1>1, <2>1 DEF NatAdd
    <3>3. NatAdd' /\ NatDel' BY <3>p, <3>1, <3>2, <2>1 DEF NatAdd, NatDel, At
    <3>4. NatRun' BY <2>5, <2>1, <1>a DEF NatRun
    <3> QED BY <2>3, <3>3, <3>4 DEF NatInv
  <2> QED BY <1>2, <2>4, <2>5 DEF assignPodIp
<1>3. CASE checkMasterInterface
  <2>1. proc.pc = "check" /\ UNCHANGED <<sb, nat, net, attached, pool, cool>>
    BY <1>3 DEF checkMasterInterface, At, natVars, relVars, ipamVars, kubeVars
  <2>2. PICK pc \in {"nat", "rollback"} : Goto(pc) BY <1>3 DEF checkMasterInterface
  <2>3. proc'.pc = pc /\ proc'.op = "ADD" /\ proc'.sb = proc.sb /\ proc'.ip = proc.ip /\ proc'.nat = proc.nat
    BY <2>2, <1>0, <1>1, GotoIs DEF AddPC
  <2>4. NatHeld' BY <2>1, <1>a DEF NatHeld, At
  <2>5. NatAdd' /\ NatDel' BY <2>1, <2>3, <1>1, <1>a DEF NatAdd, NatDel, At
  <2>6. NatRun' BY <2>1, <1>a DEF NatRun
  <2> QED BY <2>4, <2>5, <2>6 DEF NatInv
<1>4. CASE syncNATGWOutgoingIP
  <2>1. proc.pc = "nat" /\ UNCHANGED <<sb, net, attached, pool, cool>> /\ proc.ip \in IP /\ proc.sb \notin freed
    BY <1>4, <1>0 DEF syncNATGWOutgoingIP, At, relVars, ipamVars, kubeVars, ProcCtl, Progress, Busy
  <2>2. ~proc.nat /\ proc.ip \notin nat BY <2>1, <1>1, <1>a DEF NatAdd
  <2>3. CASE PodOf[proc.sb] \notin NatPod
    <3>1. nat' = nat /\ Goto("veth") BY <1>4, <2>3 DEF syncNATGWOutgoingIP, natVars
    <3>2. proc'.pc = "veth" /\ proc'.op = "ADD" /\ proc'.sb = proc.sb /\ proc'.ip = proc.ip /\ proc'.nat = proc.nat
      BY <3>1, <1>0, <1>1, GotoIs DEF AddPC
    <3>3. NatHeld' BY <3>1, <2>1, <1>a DEF NatHeld, At
    <3>4. NatAdd' /\ NatDel' BY <3>1, <3>2, <2>2, <2>3 DEF NatAdd, NatDel, At
    <3>5. NatRun' BY <3>1, <2>1, <1>a DEF NatRun
    <3> QED BY <3>3, <3>4, <3>5 DEF NatInv
  <2>4. CASE PodOf[proc.sb] \in NatPod
    <3>1. nat' = nat \cup {proc.ip} /\ proc' = [proc EXCEPT !.pc = "veth", !.nat = proc.ip \notin nat]
      BY <1>4, <2>4 DEF syncNATGWOutgoingIP
    <3>2. proc'.pc = "veth" /\ proc'.op = "ADD" /\ proc'.sb = proc.sb /\ proc'.ip = proc.ip /\ proc'.nat
      BY <3>1, <2>2, <1>0, <1>1 DEF ProcOK, ProcType
    <3>h. proc.ip \in attached /\ proc.ip \notin pool /\ proc.ip \notin cool
      BY <2>1, <1>1, <1>a DEF Mine, Has
    <3>3. NatHeld' BY <3>1, <3>h, <2>1, <1>a DEF NatHeld, At
    <3>4. NatAdd' /\ NatDel' BY <3>1, <3>2, <2>4 DEF NatAdd, NatDel, At
    <3>5. NatRun'
      <4>1. \A s \in Sandbox : sb[s] = "running" => net[s] # proc.ip BY <1>1, <2>1, NotRunning
      <4> QED BY <4>1, <3>1, <2>1, <1>a DEF NatRun
    <3> QED BY <3>3, <3>4, <3>5 DEF NatInv
  <2> QED BY <2>3, <2>4
<1>5. CASE setupPodVethNetwork
  <2>1. proc.pc = "veth" /\ UNCHANGED <<sb, nat, attached, pool, cool>>
    BY <1>5 DEF setupPodVethNetwork, At, natVars, relVars, ipamVars, kubeVars
  <2>2. PICK pc \in {"record", "inner", "rollback"} : Goto(pc) BY <1>5 DEF setupPodVethNetwork
  <2>3. proc'.pc = pc /\ proc'.op = "ADD" /\ proc'.sb = proc.sb /\ proc'.ip = proc.ip /\ proc'.nat = proc.nat
    BY <2>2, <1>0, <1>1, GotoIs DEF AddPC
  <2>4. NatHeld' BY <2>1, <1>a DEF NatHeld, At
  <2>5. NatAdd' /\ NatDel' BY <2>1, <2>3, <1>1, <1>a DEF NatAdd, NatDel, At
  <2>6. \A s \in Sandbox : s # proc.sb => net'[s] = net[s]
    BY <1>5, <1>0, <1>1 DEF setupPodVethNetwork, NetType
  <2>7. sb[proc.sb] = "adding" BY <1>0, <1>1 DEF ProcSb
  <2>8. NatRun' BY <2>1, <2>6, <2>7, <1>a DEF NatRun
  <2> QED BY <2>4, <2>5, <2>8 DEF NatInv
<1>6. CASE innerRelease
  <2>1. proc.pc = "inner" /\ UNCHANGED <<sb, nat, net>> /\ Goto("rollback")
    BY <1>6 DEF innerRelease, At, natVars, kubeVars
  <2>2. Released BY <1>6, ReleasePodIs DEF innerRelease
  <2>3. proc'.pc = "rollback" /\ proc'.op = "ADD" /\ proc'.sb = proc.sb /\ proc'.ip = proc.ip /\ proc'.nat = proc.nat
    BY <2>1, <1>0, <1>1, GotoIs DEF AddPC
  <2>4. NatHeld' BY <2>1, <2>2, <2>3, <1>a DEF NatHeld, At, Released
  <2>5. NatAdd' /\ NatDel' BY <2>1, <2>3, <1>1, <1>a DEF NatAdd, NatDel, At
  <2>6. NatRun' BY <2>1, <1>a DEF NatRun
  <2> QED BY <2>4, <2>5, <2>6 DEF NatInv
<1>7. CASE rollbackReleaseIP
  <2>1. proc.ip \in IP /\ UNCHANGED net /\ AddFails /\ rollbackNATGWOutgoingIP
    BY <1>7, <1>0 DEF rollbackReleaseIP, At, ProcCtl
  <2>2. Released BY <1>7, ReleasePodIs DEF rollbackReleaseIP
  <2> QED BY <2>1, <2>2, <1>1, NatEndAdd DEF AddFails
<1>8. CASE addPodNetworkRecord
  <2>1. proc.pc = "record" /\ proc.ip \in IP /\ UNCHANGED net
    BY <1>8, <1>0 DEF addPodNetworkRecord, At, ProcCtl
  <2>2. Released BY <1>8, ReleaseIs DEF addPodNetworkRecord, Released, relVars, ipamVars
  <2>3. CASE AddFails /\ rollbackNATGWOutgoingIP
    BY <2>1, <2>2, <2>3, <1>1, NatEndAdd DEF AddFails
  <2>4. CASE Goto("portmap") /\ UNCHANGED <<sb, nat>> /\ UNCHANGED relVars
    <3>1. proc'.pc = "portmap" /\ proc'.op = "ADD" /\ proc'.sb = proc.sb /\ proc'.ip = proc.ip /\ proc'.nat = proc.nat
      BY <2>4, <1>0, <1>1, GotoIs DEF AddPC
    <3>4. NatHeld' BY <2>4, <2>1, <1>a DEF NatHeld, At, relVars, ipamVars
    <3>5. NatAdd' /\ NatDel' BY <2>4, <2>1, <3>1, <1>1, <1>a DEF NatAdd, NatDel, At
    <3>6. NatRun' BY <2>4, <2>1, <1>a DEF NatRun
    <3> QED BY <3>4, <3>5, <3>6 DEF NatInv
  <2> QED BY <1>8, <2>3, <2>4 DEF addPodNetworkRecord, natVars
<1>9. CASE portmapCmdAdd
  <2>1. /\ proc.pc = "portmap" /\ proc.ip \in IP /\ net[proc.sb] = proc.ip /\ proc' = NoProc
        /\ UNCHANGED <<net, attached, pool, cool>>
    BY <1>9, <1>0 DEF portmapCmdAdd, At, ProcCtl, Progress, AddFails, relVars, ipamVars
  <2>2. CASE AddFails /\ rollbackNATGWOutgoingIP
    BY <2>1, <2>2, <1>1, NatEndAdd DEF AddFails, Released
  <2>3. CASE sb' = [sb EXCEPT ![proc.sb] = "running"] /\ UNCHANGED natVars
    <3>1. NatHeld' BY <2>3, <2>1, <1>a DEF NatHeld, At, natVars
    <3>2. NatAdd' /\ NatDel' BY <2>1, NoProcTypes DEF NatAdd, NatDel, At
    <3>3. proc.ip \in nat <=> PodOf[proc.sb] \in NatPod BY <2>1, <1>1, <1>a DEF NatAdd
    <3>4. NatRun' BY <3>3, <2>3, <2>1, <1>0, <1>a DEF NatRun, natVars, SbType
    <3> QED BY <3>1, <3>2, <3>4 DEF NatInv
  <2> QED BY <1>9, <2>2, <2>3 DEF portmapCmdAdd
<1> QED BY <1>2, <1>3, <1>4, <1>5, <1>6, <1>7, <1>8, <1>9 DEF AddStep

LEMMA NatDelStep ==
  ASSUME Shape, OwnInv, NatInv, DelStep, hazards' = {}, ~natDirty'
  PROVE  NatInv'
<1>0. ProcCtl /\ ProcOK /\ ProcSb /\ Progress /\ SbType /\ NetType /\ NatType BY ShapeParts
<1>a. NatHeld /\ NatAdd /\ NatDel /\ NatRun BY DEF NatInv
<1>1. proc.op = "DEL" /\ proc.sb \in Sandbox
  BY <1>0 DEF DelStep, getPodNetworkRecord, cleanUpIPRoutePolicy, DelRelease, delPodNetworkRecord,
       DelInterface, At, ProcCtl
<1>2. proc'.op \in {"none", "DEL"} /\ proc'.sb \in {proc.sb, NoSandbox}
  <2>1. CASE \E pc \in DelPC : Goto(pc) BY <2>1, <1>0, <1>1, GotoIs
  <2>2. CASE proc' = [proc EXCEPT !.pc = "natdel", !.ip = rec[proc.sb].ip]
    BY <2>2, <1>0, <1>1 DEF ProcOK, ProcType
  <2>3. CASE DelFails \/ DelOK BY <2>3 DEF DelFails, DelOK, NoProc
  <2> QED BY <2>1, <2>2, <2>3 DEF DelStep, getPodNetworkRecord, cleanUpIPRoutePolicy, DelRelease,
                delPodNetworkRecord, DelInterface, DelPC
<1>3. NatAdd' BY <1>2 DEF NatAdd
<1>4. \A s \in Sandbox : sb'[s] = "running" => sb[s] = "running" /\ net'[s] = net[s]
  BY <1>0, <1>1 DEF DelStep, getPodNetworkRecord, cleanUpIPRoutePolicy, DelRelease, delPodNetworkRecord,
       DelInterface, DelFails, DelOK, SbType, NetType, ProcSb, kubeVars
<1>5. CASE cleanUpIPRoutePolicy
  <2>1. proc.ip \in IP /\ UNCHANGED <<attached, pool, cool, freed>>
    BY <1>5, <1>0 DEF cleanUpIPRoutePolicy, At, ProcCtl, ipamVars
  <2>2. nat' = nat \ {proc.ip}
    BY <1>5 DEF cleanUpIPRoutePolicy, deleteNATGWOutgoingIP
  <2>3. ~Outdated(proc.sb, proc.ip, TRUE) BY <1>5 DEF cleanUpIPRoutePolicy, Notice
  <2>4. NatRun'
    <3>1. \A s \in Sandbox : sb[s] = "running" => net[s] # proc.ip BY <1>1, <2>1, <2>3, NotRunning
    <3> QED BY <3>1, <2>2, <1>4, <1>a DEF NatRun
  <2>5. NatHeld' BY <2>1, <2>2, <1>1, <1>a DEF NatHeld, At
  <2>6. NatDel'
    <3>1. CASE Goto("release")
      <4>1. proc'.ip = proc.ip BY <3>1, <1>0, GotoIs DEF DelPC
      <4> QED BY <4>1, <2>2 DEF NatDel
    <3>2. CASE DelFails BY <3>2, NoProcTypes DEF DelFails, NatDel, At
    <3> QED BY <1>5, <3>1, <3>2 DEF cleanUpIPRoutePolicy
  <2> QED BY <1>3, <2>4, <2>5, <2>6 DEF NatInv
<1>6. CASE ~cleanUpIPRoutePolicy
  <2>1. UNCHANGED nat
    BY <1>6 DEF DelStep, getPodNetworkRecord, DelRelease, delPodNetworkRecord, DelInterface, natVars
  <2>2. NatRun' BY <2>1, <1>4, <1>a DEF NatRun
  <2>3. NatHeld'
    <3>1. CASE DelRelease
      <4>1. Released BY <3>1, ReleasePodIs DEF DelRelease
      <4>2. proc.sb \notin freed => proc.ip \notin nat BY <3>1, <1>a DEF NatDel, DelRelease
      <4> QED BY <4>1, <4>2, <2>1, <1>1, <1>a DEF NatHeld, At, Released
    <3>2. CASE ~DelRelease
      <4>1. UNCHANGED <<attached, pool, cool>>
        BY <3>2, <1>6 DEF DelStep, getPodNetworkRecord, delPodNetworkRecord, DelInterface, relVars, ipamVars
      <4> QED BY <4>1, <2>1, <1>1, <1>a DEF NatHeld, At
    <3> QED BY <3>1, <3>2
  <2>4. proc'.pc # "release"
    <3>1. CASE \E pc \in {"iface", "delrec"} : Goto(pc) BY <3>1, <1>0, GotoIs DEF DelPC
    <3>2. CASE proc' = [proc EXCEPT !.pc = "natdel", !.ip = rec[proc.sb].ip]
      BY <3>2, <1>0 DEF ProcOK, ProcType
    <3>3. CASE DelFails \/ DelOK BY <3>3 DEF DelFails, DelOK, NoProc
    <3> QED BY <3>1, <3>2, <3>3, <1>6 DEF DelStep, getPodNetworkRecord, DelRelease, delPodNetworkRecord,
                  DelInterface
  <2>5. NatDel' BY <2>4 DEF NatDel, At
  <2> QED BY <1>3, <2>2, <2>3, <2>5 DEF NatInv
<1> QED BY <1>5, <1>6

LEMMA NatOther ==
  ASSUME Shape, OwnInv, NatInv, ~natDirty',
         (\E s \in Sandbox : StartAdd(s) \/ StartDel(s)) \/ tickSuicide \/ ReconcileStep \/ WorldStep
         \/ UNCHANGED vars
  PROVE  NatInv'
<1>0. SbType /\ ProcCtl /\ ProcOK /\ NatType BY ShapeParts
<1>a. NatHeld /\ NatAdd /\ NatDel /\ NatRun BY DEF NatInv
<1>1. UNCHANGED <<nat, net, freed>>
  BY DEF StartAdd, StartDel, tickSuicide, ReconcileStep, ReconcileListPods, ReconcileListRecords,
       ReconcileEnd, ReconcilePut, ReconcileDelete, WorldStep, CreatePod, DeletePod, StopSandbox,
       CooldownOver, PoolDrop, IpamdSwitch, vars, natVars, relVars
<1>2. \A s \in Sandbox : sb'[s] = "running" => sb[s] = "running"
  <2>1. CASE UNCHANGED sb BY <2>1
  <2>2. ASSUME NEW s \in Sandbox, NEW st \in {"adding", "deleting"}, sb' = [sb EXCEPT ![s] = st]
        PROVE  \A t \in Sandbox : sb'[t] = "running" => sb[t] = "running"
    BY <2>2, <1>0 DEF SbType
  <2>3. CASE tickSuicide BY <2>3, <1>0 DEF tickSuicide, AddFails, SbType
  <2> QED BY <2>1, <2>2, <2>3 DEF StartAdd, StartDel, ReconcileStep, ReconcileListPods, ReconcileListRecords,
                ReconcileEnd, ReconcilePut, ReconcileDelete, WorldStep, CreatePod, DeletePod, StopSandbox,
                CooldownOver, PoolDrop, IpamdSwitch, vars, kubeVars
<1>3. NatRun' BY <1>1, <1>2, <1>a DEF NatRun
<1>4. CASE UNCHANGED proc
  <2>1. NatAdd' /\ NatDel' BY <1>4, <1>1, <1>a DEF NatAdd, NatDel, At
  <2>2. CASE UNCHANGED <<attached, pool, cool>>
    <3>1. NatHeld' BY <2>2, <1>4, <1>1, <1>a DEF NatHeld, At
    <3> QED BY <3>1, <2>1, <1>3 DEF NatInv
  <2>3. ASSUME NEW i \in IP, CooldownOver(i) \/ PoolDrop(i) PROVE NatInv'
    <3>1. NatHeld' BY <2>3, <1>4, <1>1, <1>a DEF NatHeld, At, CooldownOver, PoolDrop
    <3> QED BY <3>1, <2>1, <1>3 DEF NatInv
  <2>4. CASE tickSuicide BY <2>4, <2>2 DEF tickSuicide, relVars, ipamVars
  <2> QED BY <2>2, <2>3, <2>4 DEF StartAdd, StartDel, ReconcileStep, ReconcileListPods, ReconcileListRecords,
                ReconcileEnd, ReconcilePut, ReconcileDelete, WorldStep, CreatePod, DeletePod, StopSandbox,
                IpamdSwitch, vars, relVars, ipamVars
<1>5. CASE /\ proc.op # "ADD" /\ UNCHANGED <<attached, pool, cool>>
           /\ \/ proc' = NoProc
              \/ proc'.pc \in {"assign", "get"} /\ proc'.ip = NoIP /\ proc'.nat = FALSE
  <2>1. NatHeld' BY <1>5, <1>1, <1>a DEF NatHeld, At
  <2>2. NoIP \notin nat BY <1>0, PluginAssumption DEF NatType
  <2>3. NatAdd' /\ NatDel' BY <1>5, <2>2, <1>1, NoProcTypes DEF NatAdd, NatDel, At
  <2> QED BY <2>1, <2>3, <1>3 DEF NatInv
<1>6. CASE \E s \in Sandbox : StartAdd(s) \/ StartDel(s)
  BY <1>6, <1>5 DEF StartAdd, StartDel, NoProc, relVars, ipamVars
<1>7. CASE tickSuicide
  <2>1. proc.op # "ADD" BY <1>7 DEF tickSuicide
  <2>2. proc' = NoProc BY <1>7, <2>1 DEF tickSuicide
  <2>3. UNCHANGED <<attached, pool, cool>> BY <1>7 DEF tickSuicide, relVars, ipamVars
  <2> QED BY <2>1, <2>2, <2>3, <1>5
<1> QED BY <1>4, <1>6, <1>7 DEF ReconcileStep, ReconcileListPods, ReconcileListRecords,
              ReconcileEnd, ReconcilePut, ReconcileDelete, WorldStep, CreatePod, DeletePod, StopSandbox,
              CooldownOver, PoolDrop, IpamdSwitch, vars

LEMMA NatStep ==
  ASSUME Shape, hazards = {} => OwnInv /\ RecInv, hazards = {} /\ ~natDirty => NatInv, [Next]_vars
  PROVE  hazards' = {} /\ ~natDirty' => NatInv'
<1> SUFFICES ASSUME hazards' = {}, ~natDirty' PROVE NatInv' OBVIOUS
<1>0. OwnInv /\ RecInv /\ NatInv BY HazardsGrow, DirtyStays
<1> QED BY <1>0, NatAddStep, NatDelStep, NatOther DEF Next

(* As long as ipset calls succeed and no ADD dies, a running pod is in the *)
(* ipset exactly if its PodNetworking asks for it, whatever ADDs before it *)
(* had the address and failed, and although DEL removes entries by         *)
(* address.                                                                *)
THEOREM SetMatchesPods == Spec => []NatMatches
<1> DEFINE Inv == /\ Shape /\ (hazards = {} => OwnInv /\ RecInv)
                  /\ (hazards = {} /\ ~natDirty => NatInv)
<1>1. Init => Inv BY ShapeInit, OwnInit, RecInit, NatInit
<1>2. Inv /\ [Next]_vars => Inv' BY ShapeStep, OwnStep, RecStep, NatStep
<1>3. Inv => NatMatches BY DEF NatMatches, NatInv, NatRun, Running
<1> QED BY <1>1, <1>2, <1>3, PTL DEF Spec

----------------------------------------------------------------------------
(* Leaks: the addresses that neither ipamd has, nor an ADD in progress,    *)
(* nor a record that a DEL will find and that the reconciler will not      *)
(* delete.  The loss that a forced deletion of a pod may cost is counted   *)
(* when it happens, and the address may come later: until then it is a     *)
(* credit.                                                                 *)

Kept(i) ==
  \/ proc.op = "ADD" /\ proc.sb \notin freed /\ proc.ip = i
  \/ \E s \in Sandbox \ freed : sb[s] # "gone" /\ api[PodOf[s]] = "live" /\ rec[s].ip = i
Lost == {i \in attached : i \notin pool /\ i \notin cool /\ ~Kept(i)}
Credit == IF proc.op = "ADD" /\ api[PodOf[proc.sb]] # "live" THEN 1 ELSE 0

LeakInv == Cardinality(Lost) + Credit <= losses

LEMMA LostFinite ==
  ASSUME RelType
  PROVE  IsFiniteSet(Lost) /\ Cardinality(Lost) \in Nat /\ Lost \subseteq IP
<1>1. Lost \subseteq IP BY DEF RelType, PoolType, Lost
<1>2. IsFiniteSet(Lost) BY <1>1, FS_Subset, PluginAssumption
<1> QED BY <1>1, <1>2, FS_CardinalityType

(* What a step may do to the account. *)
LEMMA LeakLess ==
  ASSUME Shape, Shape', LeakInv, Lost' \subseteq Lost, Credit' <= Credit, losses <= losses'
  PROVE  LeakInv'
<1>0. RelType /\ RelType' /\ FaultType /\ FaultType'
  <2>1. Shape' => RelType' /\ FaultType' BY ShapeParts, PTL
  <2> QED BY <2>1, ShapeParts
<1>1. IsFiniteSet(Lost) /\ Cardinality(Lost) \in Nat BY <1>0, LostFinite
<1>2. PICK L : L = Lost OBVIOUS
<1>3. PICK M : M = Lost' OBVIOUS
<1>4. Cardinality(M) <= Cardinality(L) /\ Cardinality(M) \in Nat
  BY <1>1, <1>2, <1>3, FS_Subset, FS_CardinalityType
<1>5. Cardinality(Lost)' = Cardinality(M) BY <1>3
<1>6. losses \in Nat /\ losses' \in Nat BY <1>0, PluginAssumption DEF FaultType
<1>7. Credit \in {0, 1} /\ Credit' \in {0, 1} BY DEF Credit
<1> QED BY <1>1, <1>2, <1>4, <1>5, <1>6, <1>7 DEF LeakInv

LEMMA Account ==
  \A n, m, l, k, c, d \in Int : m <= n + 1 /\ n + c <= l /\ l + d + 1 <= k + c => m + d <= k
OBVIOUS

LEMMA LeakOne ==
  ASSUME Shape, Shape', LeakInv, NEW x, Lost' \subseteq Lost \cup {x},
         losses + Credit' + 1 <= losses' + Credit
  PROVE  LeakInv'
<1>0. RelType /\ RelType' /\ FaultType /\ FaultType'
  <2>1. Shape' => RelType' /\ FaultType' BY ShapeParts, PTL
  <2> QED BY <2>1, ShapeParts
<1>1. IsFiniteSet(Lost) /\ Cardinality(Lost) \in Nat BY <1>0, LostFinite
<1>2. PICK L : L = Lost OBVIOUS
<1>3. PICK M : M = Lost' OBVIOUS
<1>a. IsFiniteSet(L \cup {x}) /\ Cardinality(L \cup {x}) <= Cardinality(L) + 1
  BY <1>1, <1>2, FS_AddElement
<1>4. Cardinality(M) <= Cardinality(L) + 1 /\ Cardinality(M) \in Nat
  <2>1. IsFiniteSet(M) /\ Cardinality(M) <= Cardinality(L \cup {x}) BY <1>a, <1>2, <1>3, FS_Subset
  <2>2. Cardinality(M) \in Nat /\ Cardinality(L \cup {x}) \in Nat BY <2>1, <1>a, FS_CardinalityType
  <2> QED BY <2>1, <2>2, <1>a, <1>1, <1>2
<1>5. Cardinality(Lost)' = Cardinality(M) BY <1>3
<1>6. losses \in Nat /\ losses' \in Nat BY <1>0, PluginAssumption DEF FaultType
<1>7. Credit \in {0, 1} /\ Credit' \in {0, 1} BY DEF Credit
<1>8. Cardinality(L) + Credit <= losses BY <1>2 DEF LeakInv
<1>9. losses + Credit' + 1 <= losses' + Credit OBVIOUS
<1>10. Cardinality(M) + Credit' <= losses'
  <2>1. /\ Cardinality(L) \in Int /\ Cardinality(M) \in Int /\ losses \in Int /\ losses' \in Int
        /\ Credit \in Int /\ Credit' \in Int
    BY <1>1, <1>2, <1>4, <1>6, <1>7
  <2> QED BY <2>1, <1>4, <1>8, <1>9, Account
<1> QED BY <1>5, <1>10 DEF LeakInv

LEMMA LeakInit == Init => LeakInv
<1> SUFFICES ASSUME Init PROVE LeakInv OBVIOUS
<1>1. Lost = {} BY DEF Init, Lost
<1>2. Credit = 0 BY NoProcTypes DEF Init, Credit
<1>3. Cardinality(Lost) = 0 BY <1>1, FS_EmptySet
<1> QED BY <1>2, <1>3 DEF Init, LeakInv

LEMMA LeakGives ==
  ASSUME Shape, hazards = {} => LeakInv
  PROVE  LeakBound
<1> SUFFICES ASSUME hazards = {} PROVE Cardinality(Leaked) <= losses BY DEF LeakBound
<1>0. RelType /\ FaultType BY ShapeParts
<1>1. IsFiniteSet(Lost) /\ Cardinality(Lost) \in Nat BY <1>0, LostFinite
<1>2. Leaked \subseteq Lost BY DEF Leaked, Lost, Kept
<1>3. PICK L : L = Lost OBVIOUS
<1>4. PICK M : M = Leaked OBVIOUS
<1>5. Cardinality(M) <= Cardinality(L) /\ Cardinality(M) \in Nat
  BY <1>1, <1>2, <1>3, <1>4, FS_Subset, FS_CardinalityType
<1>6. losses \in Nat BY <1>0, PluginAssumption DEF FaultType
<1> QED BY <1>1, <1>3, <1>4, <1>5, <1>6 DEF LeakInv, Credit

(* A step of the process can lose the address of its own sandbox only.     *)
ProcStep ==
  /\ proc.op # "none"
  /\ UNCHANGED api /\ pool' = pool /\ attached' \subseteq attached /\ cool \subseteq cool'
  /\ freed \subseteq freed' /\ freed' \subseteq freed \cup {proc.sb}
  /\ \A t \in Sandbox : t # proc.sb => rec'[t] = rec[t] /\ sb'[t] = sb[t]
  /\ losses <= losses'
  /\ proc' = NoProc \/ (proc'.op = proc.op /\ proc'.sb = proc.sb /\ (proc.op = "ADD" => proc'.ip = proc.ip))

(* The address that the process's own sandbox keeps. *)
MyKept(x) ==
  /\ proc.sb \notin freed
  /\ \/ proc.op = "ADD" /\ proc.ip = x
     \/ sb[proc.sb] # "gone" /\ api[PodOf[proc.sb]] = "live" /\ rec[proc.sb].ip = x

LEMMA MyKeptIs ==
  ASSUME Shape, OwnInv, proc.op # "none", NEW x \in IP, NEW y \in IP, MyKept(x), MyKept(y)
  PROVE  x = y /\ (proc.ip \in IP => x = proc.ip)
<1>0. ProcCtl /\ ProcOK /\ Apart BY ShapeParts DEF OwnInv
<1>1. proc.sb \in Sandbox \ freed BY <1>0 DEF ProcCtl, ProcOK, ProcType, MyKept
<1>2. Has(proc.sb, x) /\ Has(proc.sb, y) /\ Has(proc.sb, proc.ip) BY DEF Has, MyKept
<1> QED BY <1>0, <1>1, <1>2 DEF Apart

LEMMA CreditKept ==
  ASSUME Shape, ProcStep
  PROVE  Credit' <= Credit /\ (proc' = NoProc => Credit' = 0)
<1>1. CASE proc' = NoProc BY <1>1, NoProcTypes DEF Credit
<1>2. CASE proc'.op = proc.op /\ proc'.sb = proc.sb BY <1>2, NoProcTypes DEF Credit, ProcStep
<1> QED BY <1>1, <1>2 DEF ProcStep

LEMMA LostMine ==
  ASSUME Shape, OwnInv, ProcStep
  PROVE  /\ \E x : Lost' \subseteq Lost \cup {x}
         /\ (\A x \in IP : MyKept(x) => x \notin attached' \/ x \in cool' \/ Kept(x)') => Lost' \subseteq Lost
<1>0. ProcCtl /\ ProcOK /\ RelType BY ShapeParts
<1>1. proc.sb \in Sandbox BY <1>0 DEF ProcCtl, ProcOK, ProcType, ProcStep
<1>2. \A i \in IP : Kept(i) /\ ~Kept(i)' => MyKept(i)
  <2> SUFFICES ASSUME NEW i \in IP, Kept(i), ~MyKept(i) PROVE Kept(i)' OBVIOUS
  <2>1. PICK s \in Sandbox \ freed : sb[s] # "gone" /\ api[PodOf[s]] = "live" /\ rec[s].ip = i
    BY DEF Kept, MyKept
  <2>2. s # proc.sb BY <2>1 DEF MyKept
  <2> QED BY <2>1, <2>2 DEF Kept, ProcStep
<1>3. \A i \in Lost' : i \in IP /\ (i \in Lost \/ MyKept(i)) /\ i \in attached' /\ i \notin cool' /\ ~Kept(i)'
  BY <1>0, <1>2 DEF Lost, ProcStep, RelType, PoolType
<1>4. (\A x \in IP : MyKept(x) => x \notin attached' \/ x \in cool' \/ Kept(x)') => Lost' \subseteq Lost
  BY <1>3
<1>5. \E x : Lost' \subseteq Lost \cup {x}
  <2>1. CASE \A y \in IP : ~MyKept(y) BY <2>1, <1>3
  <2>2. CASE \E y \in IP : MyKept(y)
    <3>1. PICK y \in IP : MyKept(y) BY <2>2
    <3>2. \A i \in IP : MyKept(i) => i = y BY <3>1, MyKeptIs DEF ProcStep
    <3>3. Lost' \subseteq Lost \cup {y} BY <1>3, <3>2
    <3> QED BY <3>3
  <2> QED BY <2>1, <2>2
<1> QED BY <1>4, <1>5

(* The account after a step of the process. *)
LEMMA LeakPaid ==
  ASSUME Shape, Shape', OwnInv, LeakInv, ProcStep, losses' = losses + 1
  PROVE  LeakInv'
<1>1. PICK x : Lost' \subseteq Lost \cup {x} BY LostMine
<1>2. losses \in Int /\ Credit \in Int /\ Credit' \in Int
  BY ShapeParts, PluginAssumption DEF FaultType, Credit
<1>3. losses + Credit' + 1 <= losses' + Credit
  <2>1. Credit' <= Credit BY CreditKept
  <2>2. \A l, c, d \in Int : d <= c => l + d + 1 <= l + 1 + c OBVIOUS
  <2> QED BY <2>1, <2>2, <1>2
<1> QED BY <1>1, <1>3, LeakOne

LEMMA LeakFree ==
  ASSUME Shape, Shape', OwnInv, LeakInv, ProcStep,
         \A x \in IP : MyKept(x) => x \notin attached' \/ x \in cool' \/ Kept(x)'
  PROVE  LeakInv'
<1>1. Lost' \subseteq Lost BY LostMine
<1>2. losses <= losses' BY DEF ProcStep
<1> QED BY <1>1, <1>2, CreditKept, LeakLess

(* A release that is answered with success has had its effect, or a fault  *)
(* has been counted.                                                       *)
LEMMA ReleaseCost ==
  ASSUME FaultType, NEW error \in BOOLEAN, releasePodIp(error)
  PROVE  losses' = losses + 1 \/ (losses' = losses /\ (proc.ip \notin attached' \/ proc.ip \in cool'))
<1>1. CASE ~error /\ Release(proc.sb, proc.ip, TRUE) /\ UNCHANGED history
  BY <1>1 DEF Release, DelPodNetwork, deallocateSecondaryIP, history
<1>2. CASE \E k \in {"db", "api", "lost"} : Fault(k) BY <1>2 DEF Fault
<1> QED BY <1>1, <1>2 DEF releasePodIp

LEMMA FaultCost ==
  ASSUME FaultType
  PROVE  /\ \A k : Fault(k) => losses <= losses' /\ (k \notin {"host", "ipset"} => losses' = losses + 1)
         /\ UNCHANGED history => losses' = losses /\ losses <= losses'
BY PluginAssumption DEF FaultType, Fault, history

LEMMA LossesGrow ==
  ASSUME FaultType, AddStep \/ DelStep \/ tickSuicide
  PROVE  losses <= losses'
<1>1. CASE \E error \in BOOLEAN : releasePodIp(error) BY <1>1, ReleaseCost DEF FaultType
<1>2. CASE UNCHANGED history \/ \E k : Fault(k) BY <1>2, FaultCost
<1> QED BY <1>1, <1>2 DEF AddStep, assignPodIp, checkMasterInterface, syncNATGWOutgoingIP, setupPodVethNetwork,
              innerRelease, rollbackReleaseIP, addPodNetworkRecord, portmapCmdAdd, DelStep, getPodNetworkRecord,
              cleanUpIPRoutePolicy, DelRelease, delPodNetworkRecord, DelInterface, tickSuicide, history

LEMMA AddIsProcStep ==
  ASSUME Shape, AddStep, ~assignPodIp, hazards' = {}
  PROVE  ProcStep /\ proc.op = "ADD" /\ proc.sb \in Sandbox /\ proc.ip \in IP
<1>0. ProcCtl /\ ProcOK /\ SbType /\ RecType /\ FaultType BY ShapeParts
<1>1. proc.op = "ADD" /\ proc.sb \in Sandbox /\ proc.ip \in IP /\ UNCHANGED api
  BY <1>0 DEF AddStep, checkMasterInterface, syncNATGWOutgoingIP, setupPodVethNetwork, innerRelease,
       rollbackReleaseIP, addPodNetworkRecord, portmapCmdAdd, At, ProcCtl, kubeVars
<1>2. Released /\ (freed' = freed \/ freed' = freed \cup {proc.sb})
  <2>1. CASE UNCHANGED relVars BY <2>1 DEF relVars, ipamVars, Released
  <2>2. CASE \E error \in BOOLEAN : releasePodIp(error) BY <2>2, ReleasePodIs
  <2>3. CASE Release(proc.sb, proc.ip, TRUE) BY <2>3, ReleaseIs
  <2> QED BY <2>1, <2>2, <2>3 DEF AddStep, checkMasterInterface, syncNATGWOutgoingIP, setupPodVethNetwork,
                innerRelease, rollbackReleaseIP, addPodNetworkRecord, portmapCmdAdd
<1>3. \/ proc' = NoProc
      \/ proc'.op = "ADD" /\ proc'.sb = proc.sb /\ proc'.ip = proc.ip
  <2>1. CASE \E pc \in AddPC : Goto(pc) BY <2>1, <1>0, <1>1, GotoIs
  <2>2. CASE proc' = [proc EXCEPT !.pc = "veth", !.nat = proc.ip \notin nat]
    BY <2>2, <1>0, <1>1 DEF ProcOK, ProcType
  <2>3. CASE AddFails \/ proc' = NoProc BY <2>3 DEF AddFails
  <2> QED BY <2>1, <2>2, <2>3 DEF AddStep, checkMasterInterface, syncNATGWOutgoingIP, setupPodVethNetwork,
                innerRelease, rollbackReleaseIP, addPodNetworkRecord, portmapCmdAdd, AddPC
<1>4. /\ sb' = sb \/ sb' = [sb EXCEPT ![proc.sb] = "deleting"] \/ sb' = [sb EXCEPT ![proc.sb] = "running"]
      /\ rec' = rec \/ rec' = [rec EXCEPT ![proc.sb] = [ip |-> proc.ip, uid |-> proc.uid]]
  BY DEF AddStep, checkMasterInterface, syncNATGWOutgoingIP, setupPodVethNetwork,
       innerRelease, rollbackReleaseIP, addPodNetworkRecord, portmapCmdAdd, AddFails, kubeVars
<1>5. \A t \in Sandbox : t # proc.sb => rec'[t] = rec[t] /\ sb'[t] = sb[t]
  BY <1>4, <1>0 DEF SbType, RecType
<1>6. pool' = pool /\ attached' \subseteq attached /\ cool \subseteq cool' BY <1>2 DEF Released
<1>7. losses <= losses' BY <1>0, LossesGrow
<1> QED BY <1>1, <1>2, <1>3, <1>5, <1>6, <1>7 DEF ProcStep

LEMMA LeakAdd ==
  ASSUME Shape, Shape', OwnInv, RecInv, LeakInv, AddStep, ~assignPodIp, hazards' = {}
  PROVE  LeakInv'
<1>0. ProcCtl /\ ProcOK /\ ProcSb /\ Progress /\ SbType /\ RecType /\ FaultType BY ShapeParts
<1>1. ProcStep /\ proc.op = "ADD" /\ proc.sb \in Sandbox /\ proc.ip \in IP BY AddIsProcStep
<1>m. \A x \in IP : MyKept(x) => x = proc.ip BY <1>1, MyKeptIs DEF ProcStep
<1>2. CASE checkMasterInterface \/ syncNATGWOutgoingIP \/ setupPodVethNetwork
  <2>1. UNCHANGED freed /\ proc'.op = "ADD"
    <3>1. UNCHANGED freed
      BY <1>2 DEF checkMasterInterface, syncNATGWOutgoingIP, setupPodVethNetwork, relVars
    <3>2. CASE \E pc \in AddPC : Goto(pc) BY <3>1, <3>2, <1>0, <1>1, GotoIs
    <3>3. CASE proc' = [proc EXCEPT !.pc = "veth", !.nat = proc.ip \notin nat]
      BY <3>1, <3>3, <1>0, <1>1 DEF ProcOK, ProcType
    <3> QED BY <1>2, <3>2, <3>3 DEF checkMasterInterface, syncNATGWOutgoingIP, setupPodVethNetwork, AddPC
  <2>2. proc'.sb = proc.sb /\ proc'.ip = proc.ip BY <2>1, <1>1, NoProcTypes DEF ProcStep
  <2>3. \A x \in IP : MyKept(x) => Kept(x)' BY <2>1, <2>2, <1>m DEF Kept, MyKept
  <2> QED BY <2>3, <1>1, LeakFree
<1>3. CASE innerRelease \/ rollbackReleaseIP
  <2>1. PICK error \in BOOLEAN : releasePodIp(error) BY <1>3 DEF innerRelease, rollbackReleaseIP
  <2>2. CASE losses' = losses + 1 BY <2>2, <1>1, LeakPaid
  <2>3. CASE proc.ip \notin attached' \/ proc.ip \in cool' BY <2>3, <1>1, <1>m, LeakFree
  <2> QED BY <2>1, <2>2, <2>3, <1>0, ReleaseCost
<1>4. CASE addPodNetworkRecord
  <2>1. CASE \E k \in {"lost", "db"} : Fault(k)
    <3>1. losses' = losses + 1 BY <2>1, <1>0, FaultCost
    <3> QED BY <3>1, <1>1, LeakPaid
  <2>2. CASE Goto("portmap") /\ UNCHANGED relVars
    <3>1. proc'.op = "ADD" /\ proc'.sb = proc.sb /\ proc'.ip = proc.ip BY <2>2, <1>0, <1>1, GotoIs DEF AddPC
    <3>2. \A x \in IP : MyKept(x) => Kept(x)' BY <2>2, <3>1, <1>m DEF Kept, MyKept, relVars
    <3> QED BY <3>2, <1>1, LeakFree
  <2> QED BY <1>4, <2>1, <2>2 DEF addPodNetworkRecord
<1>5. CASE portmapCmdAdd
  <2>1. /\ proc.pc = "portmap" /\ net[proc.sb] = proc.ip /\ proc' = NoProc /\ UNCHANGED <<api, rec, freed>>
        /\ sb'[proc.sb] # "gone"
    BY <1>5, <1>0, <1>1 DEF portmapCmdAdd, At, Progress, AddFails, relVars, SbType
  <2>2. CASE api[PodOf[proc.sb]] = "live"
    <3>1. rec[proc.sb].ip = proc.ip BY <2>1, <2>2, <1>1 DEF RecInv, RecNet, Bound, At
    <3>2. \A x \in IP : MyKept(x) => Kept(x)' BY <3>1, <2>1, <2>2, <1>1, <1>m DEF Kept, MyKept
    <3> QED BY <3>2, <1>1, LeakFree
  <2>3. CASE api[PodOf[proc.sb]] # "live"
    <3>1. Credit = 1 BY <2>3, <1>1 DEF Credit
    <3>2. Credit' = 0 BY <2>1, <1>1, CreditKept
    <3>3. losses <= losses' BY <1>1 DEF ProcStep
    <3>4. losses \in Int /\ losses' \in Int
      BY <1>0, <1>5, PluginAssumption DEF FaultType, portmapCmdAdd, Fault, history
    <3>a. \A l, k, c, d \in Int : l <= k /\ c = 1 /\ d = 0 => l + d + 1 <= k + c OBVIOUS
    <3>b. Credit \in Int /\ Credit' \in Int BY <3>1, <3>2
    <3>5. losses + Credit' + 1 <= losses' + Credit BY <3>1, <3>2, <3>3, <3>4, <3>a, <3>b
    <3>6. PICK x : Lost' \subseteq Lost \cup {x} BY <1>1, LostMine
    <3> QED BY <3>5, <3>6, LeakOne
  <2> QED BY <2>2, <2>3
<1> QED BY <1>2, <1>3, <1>4, <1>5 DEF AddStep

LEMMA LeakAssign ==
  ASSUME Shape, Shape', OwnInv, LeakInv, assignPodIp
  PROVE  LeakInv'
<1>0. ProcCtl /\ ProcOK /\ ProcSb /\ Progress /\ SbType /\ RelType /\ FaultType BY ShapeParts
<1>1. /\ proc.op = "ADD" /\ proc.sb \in Sandbox /\ Fresh(proc.sb) /\ proc.ip = NoIP
      /\ UNCHANGED <<api, rec, freed, cool>>
  BY <1>0 DEF assignPodIp, At, ProcCtl, Progress
<1>2. \A i \in IP : Kept(i) => Kept(i)'
  <2> SUFFICES ASSUME NEW i \in IP, Kept(i) PROVE Kept(i)' OBVIOUS
  <2>1. PICK s \in Sandbox \ freed : sb[s] # "gone" /\ api[PodOf[s]] = "live" /\ rec[s].ip = i
    BY <1>1, PluginAssumption DEF Kept
  <2>2. sb'[s] # "gone" BY <2>1, <1>0 DEF assignPodIp, AddFails, SbType
  <2> QED BY <2>1, <2>2, <1>1 DEF Kept
<1>l. losses \in Int /\ losses' \in Int /\ Credit \in {0, 1}
  <2>1. Shape' => FaultType' BY ShapeParts, PTL
  <2> QED BY <2>1, <1>0, PluginAssumption DEF FaultType, Credit
<1>3. CASE AddFails /\ (attached' = attached /\ (pool' = pool \/ \E i \in pool \ attached : pool' = pool \ {i}))
  <2>1. Lost' \subseteq Lost BY <1>3, <1>2, <1>0, <1>1 DEF Lost, RelType, PoolType
  <2>2. Credit' = 0 BY <1>3, NoProcTypes DEF AddFails, Credit
  <2>3. losses <= losses' BY <1>0, LossesGrow DEF AddStep
  <2> QED BY <2>1, <2>2, <2>3, <1>l, LeakLess
<1>4. ASSUME NEW i \in IP,
             \/ up /\ AddPodNetwork(i)
             \/ ~up /\ i \notin attached /\ attached' = attached \cup {i} /\ UNCHANGED pool,
             \/ /\ proc' = [proc EXCEPT !.pc = "check", !.ip = i, !.uid = up]
                /\ UNCHANGED <<sb, history>>
             \/ Fault("lost") /\ AddFails
      PROVE  LeakInv'
  <2>1. Lost' \subseteq Lost \cup {i} BY <1>4, <1>2, <1>0, <1>1 DEF Lost, RelType, PoolType, AddPodNetwork
  <2>2. CASE Fault("lost") /\ AddFails
    <3>1. Credit' = 0 BY <2>2, NoProcTypes DEF AddFails, Credit
    <3>2. losses' = losses + 1 BY <2>2, <1>0, FaultCost
    <3>a. \A l, c, d \in Int : d = 0 /\ 0 <= c => l + d + 1 <= (l + 1) + c OBVIOUS
    <3>b. Credit \in Int /\ Credit' \in Int /\ 0 <= Credit BY <1>l, <3>1
    <3>3. losses + Credit' + 1 <= losses' + Credit BY <3>1, <3>2, <3>a, <3>b, <1>l
    <3> QED BY <2>1, <3>3, LeakOne
  <2>3. CASE /\ proc' = [proc EXCEPT !.pc = "check", !.ip = i, !.uid = up]
             /\ UNCHANGED <<sb, history>>
    <3>1. proc'.op = "ADD" /\ proc'.sb = proc.sb /\ proc'.ip = i BY <2>3, <1>0, <1>1 DEF ProcOK, ProcType
    <3>2. Kept(i)' BY <3>1, <1>1 DEF Kept, Fresh
    <3>3. Lost' \subseteq Lost BY <2>1, <3>2 DEF Lost
    <3>4. Credit' = Credit BY <3>1, <1>1 DEF Credit
    <3>5. losses <= losses' BY <1>0, <2>3, FaultCost DEF history
    <3> QED BY <3>3, <3>4, <3>5, <1>l, LeakLess
  <2> QED BY <1>4, <2>2, <2>3
<1> QED BY <1>3, <1>4 DEF assignPodIp

LEMMA DelIsProcStep ==
  ASSUME Shape, DelStep, hazards' = {}
  PROVE  ProcStep /\ proc.op = "DEL" /\ proc.sb \in Sandbox
<1>0. ProcCtl /\ ProcOK /\ SbType /\ RecType /\ FaultType BY ShapeParts
<1>1. proc.op = "DEL" /\ proc.sb \in Sandbox /\ UNCHANGED api
  BY <1>0 DEF DelStep, getPodNetworkRecord, cleanUpIPRoutePolicy, DelRelease, delPodNetworkRecord,
       DelInterface, At, ProcCtl, kubeVars
<1>2. Released /\ (freed' = freed \/ freed' = freed \cup {proc.sb})
  <2>1. CASE UNCHANGED <<ipamVars, freed>> BY <2>1 DEF ipamVars, Released
  <2>2. CASE \E error \in BOOLEAN : releasePodIp(error) BY <2>2, ReleasePodIs
  <2> QED BY <2>1, <2>2 DEF DelStep, getPodNetworkRecord, cleanUpIPRoutePolicy, DelRelease,
                delPodNetworkRecord, DelInterface, relVars
<1>3. proc' = NoProc \/ (proc'.op = "DEL" /\ proc'.sb = proc.sb)
  <2>1. CASE \E pc \in DelPC : Goto(pc) BY <2>1, <1>0, <1>1, GotoIs
  <2>2. CASE proc' = [proc EXCEPT !.pc = "natdel", !.ip = rec[proc.sb].ip]
    BY <2>2, <1>0, <1>1 DEF ProcOK, ProcType
  <2>3. CASE DelFails \/ DelOK BY <2>3 DEF DelFails, DelOK
  <2> QED BY <2>1, <2>2, <2>3 DEF DelStep, getPodNetworkRecord, cleanUpIPRoutePolicy, DelRelease,
                delPodNetworkRecord, DelInterface, DelPC
<1>4. /\ sb' = sb \/ sb' = [sb EXCEPT ![proc.sb] = "gone"]
      /\ rec' = rec \/ rec' = [rec EXCEPT ![proc.sb] = NoRec]
  BY DEF DelStep, getPodNetworkRecord, cleanUpIPRoutePolicy, DelRelease, delPodNetworkRecord,
       DelInterface, DelFails, DelOK, kubeVars
<1>5. \A t \in Sandbox : t # proc.sb => rec'[t] = rec[t] /\ sb'[t] = sb[t]
  BY <1>4, <1>0 DEF SbType, RecType
<1>6. pool' = pool /\ attached' \subseteq attached /\ cool \subseteq cool' BY <1>2 DEF Released
<1>7. losses <= losses' BY <1>0, LossesGrow
<1> QED BY <1>1, <1>2, <1>3, <1>5, <1>6, <1>7 DEF ProcStep

LEMMA LeakDel ==
  ASSUME Shape, Shape', OwnInv, RecInv, LeakInv, DelStep, hazards' = {}
  PROVE  LeakInv'
<1>0. ProcCtl /\ ProcOK /\ ProcSb /\ Progress /\ SbType /\ RecType /\ FaultType BY ShapeParts
<1>1. ProcStep /\ proc.op = "DEL" /\ proc.sb \in Sandbox BY DelIsProcStep
<1>2. CASE UNCHANGED <<rec, sb, freed>>
  <2>1. \A x \in IP : MyKept(x) => Kept(x)' BY <1>2, <1>1 DEF Kept, MyKept, ProcStep
  <2> QED BY <2>1, <1>1, LeakFree
<1>3. CASE getPodNetworkRecord
  <2>1. CASE Fault("db")
    <3>1. losses' = losses + 1 BY <2>1, <1>0, FaultCost
    <3> QED BY <3>1, <1>1, LeakPaid
  <2>2. CASE rec[proc.sb] = NoRec
    <3>1. \A x \in IP : ~MyKept(x) BY <2>2, <1>1, PluginAssumption DEF MyKept, NoRec
    <3> QED BY <3>1, <1>1, LeakFree
  <2> QED BY <1>2, <1>3, <2>1, <2>2 DEF getPodNetworkRecord, relVars
<1>4. CASE cleanUpIPRoutePolicy BY <1>4, <1>2 DEF cleanUpIPRoutePolicy, DelFails
<1>5. CASE DelRelease
  <2>i. proc.ip \in IP BY <1>5, <1>0 DEF DelRelease, At, ProcCtl
  <2>m. \A x \in IP : MyKept(x) => x = proc.ip BY <2>i, <1>1, MyKeptIs DEF ProcStep
  <2>1. PICK error \in BOOLEAN : releasePodIp(error) BY <1>5 DEF DelRelease
  <2>2. CASE losses' = losses + 1 BY <2>2, <1>1, LeakPaid
  <2>3. CASE proc.ip \notin attached' \/ proc.ip \in cool' BY <2>3, <1>1, <2>m, LeakFree
  <2> QED BY <2>1, <2>2, <2>3, <1>0, ReleaseCost
<1>6. CASE delPodNetworkRecord
  <2>1. proc.sb \in freed BY <1>6, <1>0 DEF delPodNetworkRecord, Progress
  <2>2. \A x \in IP : ~MyKept(x) BY <2>1 DEF MyKept
  <2> QED BY <2>2, <1>1, LeakFree
<1>7. CASE DelInterface
  <2>1. proc.sb \notin freed => rec[proc.sb] = NoRec BY <1>7 DEF DelInterface, RecInv, IfaceRec
  <2>2. \A x \in IP : ~MyKept(x) BY <2>1, <1>1, PluginAssumption DEF MyKept, NoRec
  <2> QED BY <2>2, <1>1, LeakFree
<1> QED BY <1>3, <1>4, <1>5, <1>6, <1>7 DEF DelStep

LEMMA LeakKill ==
  ASSUME Shape, Shape', OwnInv, LeakInv, tickSuicide
  PROVE  LeakInv'
<1>0. SbType /\ FaultType BY ShapeParts
<1>1. losses' = losses + 1 BY <1>0, FaultCost DEF tickSuicide
<1>2. ProcStep
  <2>1. /\ proc.op # "none" /\ UNCHANGED <<api, attached, pool, cool, freed, rec>> /\ proc' = NoProc
        /\ (UNCHANGED sb \/ sb' = [sb EXCEPT ![proc.sb] = "deleting"])
    BY DEF tickSuicide, relVars, ipamVars, AddFails
  <2>2. losses <= losses' BY <1>0, LossesGrow
  <2> QED BY <2>1, <2>2, <1>0 DEF ProcStep, SbType
<1> QED BY <1>1, <1>2, LeakPaid

(* The steps of the others. *)
LEMMA LeakStart ==
  ASSUME Shape, Shape', LeakInv, NEW s \in Sandbox, StartAdd(s) \/ StartDel(s)
  PROVE  LeakInv'
<1>0. SbType /\ FaultType BY ShapeParts
<1>1. /\ UNCHANGED <<api, attached, pool, cool, freed, rec>> /\ proc.op = "none"
      /\ (UNCHANGED sb \/ sb' = [sb EXCEPT ![s] = "adding"])
  BY DEF StartAdd, StartDel, relVars, ipamVars, kubeVars
<1>2. \A i \in IP : Kept(i) => Kept(i)' BY <1>0, <1>1 DEF Kept, SbType
<1>3. Lost' \subseteq Lost BY <1>1, <1>2, ShapeParts DEF Lost, RelType, PoolType
<1>4. Credit' = 0 /\ Credit = 0
  BY <1>1 DEF Credit, StartAdd, StartDel, NoProc
<1>5. losses <= losses' BY <1>0, FaultCost DEF StartAdd, StartDel
<1> QED BY <1>3, <1>4, <1>5, LeakLess

LEMMA LeakReconcile ==
  ASSUME Shape, Shape', RecInv, LeakInv, ReconcileStep
  PROVE  LeakInv'
<1>0. FaultType /\ RecType /\ GCOK /\ RelType BY ShapeParts
<1>1. UNCHANGED <<api, sb, proc, attached, pool, cool, freed>>
  BY DEF ReconcileStep, ReconcileListPods, ReconcileListRecords, ReconcileEnd, ReconcilePut,
       ReconcileDelete, relVars, ipamVars, kubeVars
<1>2. losses <= losses'
  BY <1>0, FaultCost DEF ReconcileStep, ReconcileListPods, ReconcileListRecords, ReconcileEnd, ReconcilePut,
       ReconcileDelete
<1>3. \A t \in Sandbox \ freed : api[PodOf[t]] = "live" => rec'[t].ip = rec[t].ip
  <2>1. CASE UNCHANGED rec BY <2>1
  <2>2. ASSUME NEW s \in Sandbox, ReconcilePut(s)
        PROVE  \A t \in Sandbox \ freed : rec'[t].ip = rec[t].ip
    <3>1. gc.put[s] # NoIP BY <2>2 DEF ReconcilePut
    <3>2. s \notin freed => rec[s].ip = gc.put[s] BY <3>1 DEF RecInv, PutRec
    <3>3. CASE UNCHANGED rec BY <3>3
    <3>4. CASE rec' = [rec EXCEPT ![s] = [ip |-> gc.put[s], uid |-> TRUE]]
      BY <3>2, <3>4, <1>0 DEF RecType
    <3> QED BY <2>2, <3>3, <3>4 DEF ReconcilePut
  <2>3. ASSUME NEW s \in Sandbox, ReconcileDelete(s)
        PROVE  \A t \in Sandbox \ freed : api[PodOf[t]] = "live" => rec'[t].ip = rec[t].ip
    <3>1. api[PodOf[s]] = "gone" BY <2>3 DEF ReconcileDelete, RecInv, DelGone
    <3> QED BY <3>1, <2>3, <1>0 DEF ReconcileDelete, RecType
  <2> QED BY <2>1, <2>2, <2>3 DEF ReconcileStep, ReconcileListPods, ReconcileListRecords, ReconcileEnd
<1>4. \A i \in IP : Kept(i) => Kept(i)' BY <1>1, <1>3 DEF Kept
<1>5. Lost' \subseteq Lost BY <1>1, <1>4, <1>0 DEF Lost, RelType, PoolType
<1>6. Credit' = Credit /\ Credit \in {0, 1} BY <1>1 DEF Credit
<1> QED BY <1>2, <1>5, <1>6, LeakLess

(* kubelet removes the API object of a pod whose sandboxes are gone; a     *)
(* forced deletion costs the address of the one sandbox that is not.       *)
LEMMA LeakDeletePod ==
  ASSUME Shape, Shape', OwnInv, LeakInv, NEW p \in Pod, DeletePod(p)
  PROVE  LeakInv'
<1>0. KubeType /\ SbType /\ FaultType /\ RelType /\ ProcCtl /\ ProcSb /\ ProcOK /\ Progress /\ SbShape /\ PodShape
  BY ShapeParts
<1>1. /\ UNCHANGED <<sb, proc, attached, pool, cool, freed, rec>> /\ api[p] = "live"
      /\ \A q \in Pod : q # p => api'[q] = api[q]
      /\ api'[p] = "gone"
  BY <1>0 DEF DeletePod, relVars, ipamVars, KubeType
<1>l. losses \in Int /\ losses <= losses' BY <1>0, FaultCost, PluginAssumption DEF DeletePod, FaultType
<1>c. Credit \in {0, 1} /\ Credit' \in {0, 1} BY DEF Credit
<1>p. \A s \in Sandbox : PodOf[s] \in Pod BY PluginAssumption
<1>2. ASSUME NEW i \in IP, Kept(i), ~Kept(i)'
      PROVE  \E s \in Sandbox \ freed : PodOf[s] = p /\ sb[s] \notin {"none", "gone"} /\ rec[s].ip = i
    <2>1. PICK s \in Sandbox \ freed : sb[s] # "gone" /\ api[PodOf[s]] = "live" /\ rec[s].ip = i
      BY <1>2, <1>1 DEF Kept
    <2>2. PodOf[s] = p BY <2>1, <1>1, <1>2, <1>p DEF Kept
    <2>3. sb[s] # "none" BY <2>1, <1>0, PluginAssumption DEF SbShape, Fresh, NoRec
    <2> QED BY <2>1, <2>2, <2>3
<1>3. \A i \in Lost' : i \in IP /\ (i \in Lost \/ (Kept(i) /\ ~Kept(i)'))
  BY <1>1, <1>0 DEF Lost, RelType, PoolType
<1>4. CASE \A s \in Sandbox : PodOf[s] = p => sb[s] \in {"none", "gone"}
  <2>1. Lost' \subseteq Lost BY <1>2, <1>3, <1>4
  <2>2. Credit' <= Credit
    <3>1. CASE proc.op = "ADD"
      <4>1. PodOf[proc.sb] # p BY <3>1, <1>4, <1>0 DEF ProcSb, ProcCtl
      <4> QED BY <4>1, <3>1, <1>1, <1>0, <1>p DEF Credit, ProcCtl
    <3>2. CASE proc.op # "ADD" BY <3>2, <1>1 DEF Credit
    <3> QED BY <3>1, <3>2
  <2> QED BY <2>1, <2>2, <1>l, LeakLess
<1>5. CASE Fault("force") /\ \E s \in Sandbox : PodOf[s] = p /\ sb[s] \notin {"none", "gone"}
  <2>1. losses' = losses + 1 BY <1>5, <1>0, FaultCost
  <2>2. PICK s \in Sandbox : PodOf[s] = p /\ sb[s] \notin {"none", "gone"} BY <1>5
  <2>3. \A t \in Sandbox : PodOf[t] = p /\ sb[t] \notin {"none", "gone"} => t = s
    BY <2>2, <1>0 DEF PodShape
  <2>4. CASE proc.op = "ADD" /\ proc.sb = s
    <3>1. Lost' \subseteq Lost
      <4> SUFFICES ASSUME NEW i \in IP, Kept(i), ~Kept(i)' PROVE FALSE BY <1>3
      <4>1. s \notin freed /\ rec[s].ip = i BY <1>2, <2>3
      <4>2. proc.pc # "assign" BY <4>1, <2>4, <1>0, PluginAssumption DEF Progress, At, Fresh, NoRec
      <4>3. proc.ip \in IP BY <4>2, <2>4, <1>0 DEF ProcCtl
      <4>4. proc.ip = i BY <4>1, <4>3, <2>4 DEF OwnInv, Apart, Has
      <4> QED BY <4>1, <4>4, <2>4, <1>1 DEF Kept
    <3>3. Credit = 0 /\ Credit' = 1 BY <2>2, <2>4, <1>1 DEF Credit
    <3>4. LeakInv'
      <4>1. Cardinality(Lost) + Credit <= losses BY DEF LeakInv
      <4>2. PICK L : L = Lost OBVIOUS
      <4>3. PICK M : M = Lost' OBVIOUS
      <4>4. IsFiniteSet(L) /\ Cardinality(L) \in Nat BY <4>2, <1>0, LostFinite
      <4>5. Cardinality(M) <= Cardinality(L) /\ Cardinality(M) \in Nat
        BY <3>1, <4>2, <4>3, <4>4, FS_Subset, FS_CardinalityType
      <4>6. Cardinality(M) + 1 <= losses'
        BY <4>1, <4>2, <4>4, <4>5, <3>3, <2>1, <1>l
      <4> QED BY <4>3, <4>6, <3>3 DEF LeakInv
    <3> QED BY <3>4
  <2>5. CASE ~(proc.op = "ADD" /\ proc.sb = s)
    <3>1. Lost' \subseteq Lost \cup {rec[s].ip} BY <1>2, <1>3, <2>3
    <3>2. Credit' = Credit
      <4>1. CASE proc.op = "ADD"
        <5>1. proc.sb \in Sandbox /\ sb[proc.sb] = "adding" BY <4>1, <1>0 DEF ProcCtl, ProcSb
        <5>2. PodOf[proc.sb] # p BY <5>1, <4>1, <2>5, <2>3
        <5> QED BY <5>1, <5>2, <4>1, <1>1, <1>p DEF Credit
      <4>2. CASE proc.op # "ADD" BY <4>2, <1>1 DEF Credit
      <4> QED BY <4>1, <4>2
    <3>a. \A l, c \in Int : l + c + 1 <= l + 1 + c OBVIOUS
    <3>b. Credit \in Int BY <1>c
    <3>3. losses + Credit' + 1 <= losses' + Credit BY <3>2, <3>a, <3>b, <2>1, <1>l
    <3> QED BY <3>1, <3>3, LeakOne
  <2> QED BY <2>4, <2>5
<1> QED BY <1>4, <1>5 DEF DeletePod

LEMMA LeakWorld ==
  ASSUME Shape, Shape', OwnInv, LeakInv, WorldStep
  PROVE  LeakInv'
<1>0. KubeType /\ SbType /\ FaultType /\ RelType /\ ProcCtl /\ PodShape BY ShapeParts
<1>1. CASE \E p \in Pod : DeletePod(p) BY <1>1, LeakDeletePod
<1>2. CASE ~\E p \in Pod : DeletePod(p)
  <2>1. UNCHANGED <<rec, proc, freed, history>>
    BY <1>2 DEF WorldStep, CreatePod, StopSandbox, CooldownOver, PoolDrop, IpamdSwitch, relVars
  <2>2. \A q \in Pod : api[q] = "live" => api'[q] = "live"
    BY <1>2, <1>0 DEF WorldStep, CreatePod, StopSandbox, CooldownOver, PoolDrop, IpamdSwitch, KubeType, kubeVars
  <2>3. \A s \in Sandbox : sb[s] # "gone" => sb'[s] # "gone"
    BY <1>2, <1>0 DEF WorldStep, CreatePod, StopSandbox, CooldownOver, PoolDrop, IpamdSwitch, SbType, kubeVars
  <2>4. \A i \in IP : Kept(i) => Kept(i)'
    BY <2>1, <2>2, <2>3, PluginAssumption DEF Kept
  <2>5. \A i \in IP : i \in attached' /\ i \notin pool' /\ i \notin cool' => i \in attached /\ i \notin pool /\ i \notin cool
    BY <1>2 DEF WorldStep, CreatePod, StopSandbox, CooldownOver, PoolDrop, IpamdSwitch, relVars, ipamVars
  <2>6. Lost' \subseteq Lost
    <3>1. attached' \subseteq IP
      <4>1. Shape' => RelType' BY ShapeParts, PTL
      <4> QED BY <4>1 DEF RelType, PoolType
    <3> QED BY <3>1, <2>4, <2>5 DEF Lost
  <2>7. Credit' <= Credit
    BY <2>1, <2>2, <1>0, PluginAssumption DEF Credit, ProcCtl
  <2>8. losses <= losses' BY <2>1, <1>0, FaultCost
  <2> QED BY <2>6, <2>7, <2>8, LeakLess
<1> QED BY <1>1, <1>2

LEMMA LeakStep ==
  ASSUME Shape, hazards = {} => OwnInv /\ RecInv /\ LeakInv, [Next]_vars
  PROVE  hazards' = {} => LeakInv'
<1> SUFFICES ASSUME hazards' = {} PROVE LeakInv' OBVIOUS
<1>0. OwnInv /\ RecInv /\ LeakInv /\ Shape' BY HazardsGrow, ShapeStep
<1>1. CASE UNCHANGED vars
  <2>1. UNCHANGED <<api, sb, rec, proc, attached, pool, cool, freed, losses>>
    BY <1>1 DEF vars, relVars, ipamVars, kubeVars, history
  <2>2. Lost' = Lost /\ Credit' = Credit BY <2>1 DEF Lost, Credit, Kept
  <2> QED BY <2>1, <2>2, <1>0 DEF LeakInv
<1>2. CASE Next
  BY <1>0, <1>2, LeakStart, LeakAssign, LeakAdd, LeakDel, LeakKill, LeakReconcile, LeakWorld DEF Next
<1> QED BY <1>1, <1>2

(* Until a hazardous event the node loses at most one address for each     *)
(* lost answer, dead process, failed release or database call and forced   *)
(* deletion, and none for a failure on the host.                           *)
THEOREM LeaksAreBounded == Spec => []LeakBound
<1> DEFINE Inv == Shape /\ (hazards = {} => OwnInv /\ RecInv /\ LeakInv)
<1>1. Init => Inv BY ShapeInit, OwnInit, RecInit, LeakInit
<1>2. Inv /\ [Next]_vars => Inv' BY ShapeStep, OwnStep, RecStep, LeakStep
<1>3. Inv => LeakBound BY LeakGives
<1> QED BY <1>1, <1>2, <1>3, PTL DEF Spec
============================================================================
