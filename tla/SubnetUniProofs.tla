-------------------------- MODULE SubnetUniProofs --------------------------
(***************************************************************************)
(* The invariants of SubnetUni for every number of subnets, interfaces,    *)
(* calls and faults and every size of node.                                *)
(*                                                                         *)
(* None of them is inductive: that a new interface is the only one of its  *)
(* subnet follows from what the call saw in the metadata when it began and *)
(* from the metadata having been complete then, several steps before the   *)
(* interface is attached.  IInv therefore carries both from the first step *)
(* of a call to the attach (KnownInv), and the state each interface must   *)
(* be in while the call or the metadata refers to it (Shape).              *)
(***************************************************************************)
EXTENDS SubnetUni, FiniteSetTheorems, TLAPS

Pc == {"idle", "query", "create", "attach", "cleanup", "wait", "describe"}
UniState == {"absent", "detached", "attached", "deleted"}
Detached == {u \in Uni : uni[u].st = "detached"}
Shown == {"attached", "deleted"}   \* the states in which the metadata can show an interface

ProcShape ==
  /\ proc = [pc |-> proc.pc, strategy |-> proc.strategy, meta |-> proc.meta, k |-> proc.k,
             subnets |-> proc.subnets, subnet |-> proc.subnet, uni |-> proc.uni]
  /\ proc.pc \in Pc
  /\ proc.meta \subseteq Uni
  /\ proc.pc = "idle" => proc = NoProc
  /\ proc.pc \in {"query", "create"} => proc.uni = NoUni
  /\ proc.pc \in {"attach", "cleanup", "wait", "describe"} => proc.uni \in Uni
  /\ proc.pc = "attach" => uni[proc.uni].st = "detached"
  /\ proc.pc = "wait" => uni[proc.uni].st = "attached"
  /\ proc.pc = "describe" => uni[proc.uni].st \in Shown
  /\ \A u \in proc.meta : uni[u].st \in Shown

CloudShape ==
  /\ cpu \in Nat
  /\ uni = [u \in Uni |-> uni[u]]
  /\ \A u \in Uni : uni[u].st \in UniState
  /\ meta \subseteq Uni
  /\ \A u \in meta : uni[u].st \in Shown
  /\ losses \in Nat
  /\ gaveUp \in BOOLEAN

Shape == CloudShape /\ ProcShape

(* What a call knows of the interfaces it has not made itself.             *)
Planned ==
  proc.pc \in {"create", "attach"} =>
    /\ \A u \in proc.meta : uni[u].subnet # proc.subnet
    /\ Cardinality(proc.meta) + 1 < GetNodeUNILimits
Complete ==
  /\ proc.pc = "idle" => Attached \subseteq meta
  /\ proc.pc \in {"query", "create", "attach"} => Attached \subseteq proc.meta
KnownInv == Planned /\ (~gaveUp => Complete)

IInv == Shape /\ KnownInv /\ OneUniPerSubnet /\ WithinLimit /\ UniLeakBound

----------------------------------------------------------------------------
(* What the steps of a call do, one fact per action: chooseUNI works on    *)
(* some subnet, whichever the strategy selects.                            *)

LEMMA ReturnFacts ==
  ASSUME NEW r, Return(r), gaveUp \in BOOLEAN
  PROVE  /\ proc' = NoProc /\ gaveUp' \in BOOLEAN
         /\ ~gaveUp' => ~gaveUp /\ \A u \in Uni : uni'[u].st = "attached" => u \in meta
BY DEF Return

LEMMA FaultFacts ==
  ASSUME losses \in Nat
  PROVE  /\ NoFault => losses' = losses
         /\ \A k : Fault(k) => losses' \in Nat /\ losses' \in {losses, losses + 1}
         /\ \A k : Fault(k) /\ k # "api" => losses' = losses + 1
BY DEF NoFault, Fault

LEMMA SetUniFacts ==
  ASSUME NEW u \in Uni, NEW s, NEW st, CloudShape, SetUni(u, s, st)
  PROVE  /\ uni' = [v \in Uni |-> uni'[v]]
         /\ uni'[u].st = st /\ uni'[u].subnet = s
         /\ \A v \in Uni \ {u} : uni'[v] = uni[v]
<1>1. uni' = [v \in Uni |-> IF v = u THEN [subnet |-> s, st |-> st] ELSE uni[v]]
  BY DEF SetUni, CloudShape
<1> QED
  BY <1>1

(* A call that begins reads the metadata; nothing else changes.            *)
LEMMA EnsureFacts ==
  ASSUME Shape, NEW st, ensureSubnetUNI(st)
  PROVE  /\ UNCHANGED <<cpu, uni, meta, gaveUp>>
         /\ losses' \in Nat /\ losses' >= losses
         /\ proc = NoProc
         /\ \/ proc' = [pc |-> "query", strategy |-> st, meta |-> meta, k |-> 1, subnets |-> <<>>,
                        subnet |-> NoSubnet, uni |-> NoUni]
            \/ proc' = proc
<1>1. losses' \in Nat /\ losses' >= losses
  BY FaultFacts DEF ensureSubnetUNI, Shape, CloudShape
<1> QED
  BY <1>1 DEF ensureSubnetUNI, cloudVars, NoProc

LEMMA QueryFacts ==
  ASSUME Shape, getSubnetAvailableIPs
  PROVE  /\ UNCHANGED <<cpu, uni, meta, gaveUp>>
         /\ losses' \in Nat /\ losses' >= losses
         /\ proc.pc = "query"
         /\ \E k, subnets : proc' = [proc EXCEPT !.k = k, !.subnets = subnets]
<1>1. losses' \in Nat /\ losses' >= losses
  BY FaultFacts DEF getSubnetAvailableIPs, Shape, CloudShape
<1>2. proc' = [proc EXCEPT !.k = proc'.k, !.subnets = proc'.subnets]
  BY DEF getSubnetAvailableIPs, Shape, ProcShape
<1> QED
  BY <1>1, <1>2 DEF getSubnetAvailableIPs, cloudVars, callVars

LEMMA ChooseFacts ==
  ASSUME Shape, chooseUNI
  PROVE  /\ UNCHANGED <<cpu, uni, meta>>
         /\ losses' \in Nat /\ losses' >= losses
         /\ proc.pc = "query"
         /\ \/ \E r : Return(r)
            \/ \E s, u : /\ u \in proc.meta
                         /\ proc' = [proc EXCEPT !.pc = "describe", !.subnet = s, !.uni = u]
                         /\ gaveUp' = gaveUp
            \/ \E s : /\ Existing(s) = {} /\ ~AtLimit
                      /\ proc' = [proc EXCEPT !.pc = "create", !.subnet = s]
                      /\ gaveUp' = gaveUp
<1>0. NoFault \/ Fault("api")
  BY DEF chooseUNI
<1>1. losses' \in Nat /\ losses' >= losses
  BY <1>0, FaultFacts DEF Shape, CloudShape
<1> DEFINE sel == selectSubnetByAllocationStrategy(proc.strategy, proc.subnets)
<1> HIDE DEF sel
<1>2. \/ \E u \in Existing(sel) :
           /\ proc' = [proc EXCEPT !.pc = "describe", !.subnet = sel, !.uni = u]
           /\ UNCHANGED callVars
      \/ /\ Existing(sel) = {} /\ ~AtLimit
         /\ proc' = [proc EXCEPT !.pc = "create", !.subnet = sel]
         /\ UNCHANGED callVars
      \/ Return("error")
  BY DEF chooseUNI, sel
<1>3. \A u \in Existing(sel) : u \in proc.meta
  BY DEF Existing
<1> QED
  BY <1>1, <1>2, <1>3 DEF chooseUNI, cloudVars, callVars

LEMMA CreateFacts ==
  ASSUME Shape, createNetworkInterface
  PROVE  /\ UNCHANGED <<cpu, meta>>
         /\ proc.pc = "create"
         /\ \/ \E u \in Uni :
                 /\ uni[u].st = "absent" /\ SetUni(u, proc.subnet, "detached")
                 /\ \/ /\ \E pc \in {"attach", "cleanup"} : proc' = [proc EXCEPT !.uni = u, !.pc = pc]
                       /\ losses' = losses /\ gaveUp' = gaveUp
                    \/ Return("error") /\ losses' = losses + 1
            \/ uni' = uni /\ Return("error") /\ losses' \in Nat /\ losses' >= losses
<1>1. losses \in Nat
  BY DEF Shape, CloudShape
<1>2. CASE \E u \in Uni :
             /\ uni[u].st = "absent"
             /\ SetUni(u, proc.subnet, "detached")
             /\ \/ /\ proc' = [proc EXCEPT !.uni = u,
                                 !.pc = IF avail[proc.subnet] > 0 THEN "attach" ELSE "cleanup"]
                   /\ NoFault /\ UNCHANGED callVars
                \/ Fault("lost") /\ Return("error")
  <2> PICK u \in Uni :
             /\ uni[u].st = "absent"
             /\ SetUni(u, proc.subnet, "detached")
             /\ \/ /\ proc' = [proc EXCEPT !.uni = u,
                                 !.pc = IF avail[proc.subnet] > 0 THEN "attach" ELSE "cleanup"]
                   /\ NoFault /\ UNCHANGED callVars
                \/ Fault("lost") /\ Return("error")
    BY <1>2
  <2>1. \/ /\ \E pc \in {"attach", "cleanup"} : proc' = [proc EXCEPT !.uni = u, !.pc = pc]
           /\ NoFault /\ UNCHANGED callVars
        \/ Fault("lost") /\ Return("error")
    OBVIOUS
  <2>2. \/ /\ \E pc \in {"attach", "cleanup"} : proc' = [proc EXCEPT !.uni = u, !.pc = pc]
           /\ losses' = losses /\ gaveUp' = gaveUp
        \/ Return("error") /\ losses' = losses + 1
    BY <2>1, <1>1, FaultFacts DEF callVars
  <2>3. cpu' = cpu /\ meta' = meta /\ proc.pc = "create"
    BY DEF createNetworkInterface
  <2> HIDE DEF SetUni, Return
  <2> QED
    BY <2>2, <2>3, Zenon
<1>3. CASE (NoFault \/ Fault("api")) /\ UNCHANGED <<avail, uni>> /\ Return("error")
  <2>1. losses' \in Nat /\ losses' >= losses
    BY <1>1, <1>3, FaultFacts
  <2>2. cpu' = cpu /\ meta' = meta /\ proc.pc = "create"
    BY DEF createNetworkInterface
  <2> QED
    BY <1>3, <2>1, <2>2, Zenon
<1> QED
  BY <1>2, <1>3 DEF createNetworkInterface

LEMMA AttachFacts ==
  ASSUME Shape, attachNetworkInterface
  PROVE  /\ UNCHANGED <<cpu, meta, gaveUp>>
         /\ proc.pc = "attach"
         /\ losses' \in Nat /\ losses' >= losses
         /\ \/ SetUni(proc.uni, proc.subnet, "attached")
               /\ \E pc \in {"wait", "cleanup"} : proc' = [proc EXCEPT !.pc = pc]
            \/ uni' = uni /\ proc' = [proc EXCEPT !.pc = "cleanup"]
<1>1. \/ /\ NoFault /\ Goto("wait")
         /\ SetUni(proc.uni, proc.subnet, "attached")
      \/ Fault("api") /\ Goto("cleanup") /\ uni' = uni
      \/ /\ Fault("lost") /\ Goto("cleanup")
         /\ SetUni(proc.uni, proc.subnet, "attached")
  BY DEF attachNetworkInterface
<1>2. losses' \in Nat /\ losses' >= losses
  BY <1>1, FaultFacts DEF Shape, CloudShape
<1>3. proc.pc = "attach" /\ cpu' = cpu /\ meta' = meta
  BY DEF attachNetworkInterface
<1>4. gaveUp' = gaveUp
  BY <1>1 DEF Goto, callVars
<1> QED
  BY <1>1, <1>2, <1>3, <1>4 DEF Goto

(* The interface of the call is deleted, or it stays: attached, or against *)
(* a loss.                                                                 *)
LEMMA DeleteFacts ==
  ASSUME Shape, deleteNetworkInterface
  PROVE  \/ SetUni(proc.uni, proc.subnet, "deleted") /\ losses' = losses
         \/ uni' = uni /\ uni[proc.uni].st = "attached" /\ losses' = losses
         \/ uni' = uni /\ losses' = losses + 1
<1>1. losses \in Nat
  BY DEF Shape, CloudShape
<1>2. \/ SetUni(proc.uni, proc.subnet, "deleted") /\ NoFault
      \/ uni[proc.uni].st = "attached" /\ uni' = uni /\ NoFault
      \/ Fault("delete") /\ uni' = uni
  BY DEF deleteNetworkInterface
<1> QED
  BY <1>1, <1>2, FaultFacts

LEMMA GiveUpFacts ==
  ASSUME Shape, cleanUpNewUNI \/ waitTimeout
  PROVE  /\ UNCHANGED <<cpu, meta>>
         /\ proc.pc \in {"cleanup", "wait"}
         /\ deleteNetworkInterface
         /\ \E r : Return(r)
BY DEF cleanUpNewUNI, waitTimeout

LEMMA ReloadFacts ==
  ASSUME Shape, ReloadMeta
  PROVE  /\ UNCHANGED <<cpu, uni, meta, gaveUp, losses>>
         /\ proc.pc = "wait"
         /\ \E u \in meta : proc' = [proc EXCEPT !.pc = "describe", !.uni = u]
BY DEF ReloadMeta, cloudVars, callVars

(* A call that ends without touching an interface ends after describe, or  *)
(* is killed against a loss.                                               *)
LEMMA EndFacts ==
  ASSUME Shape, describeNetworkInterface \/ Kill
  PROVE  /\ UNCHANGED <<cpu, uni, meta>>
         /\ losses' \in Nat /\ losses' >= losses
         /\ proc.pc = "describe" \/ losses' = losses + 1
         /\ \E r : Return(r)
<1>1. losses \in Nat
  BY DEF Shape, CloudShape
<1>2. CASE describeNetworkInterface
  <2>1. NoFault \/ Fault("api")
    BY <1>2 DEF describeNetworkInterface
  <2>2. losses' \in Nat /\ losses' >= losses
    BY <1>1, <2>1, FaultFacts
  <2> QED
    BY <1>2, <2>2 DEF describeNetworkInterface, cloudVars
<1>3. CASE Kill
  <2>1. losses' = losses + 1
    BY <1>1, <1>3, FaultFacts DEF Kill
  <2> QED
    BY <1>1, <1>3, <2>1 DEF Kill, cloudVars
<1> QED
  BY <1>2, <1>3

LEMMA CloudFacts ==
  ASSUME Shape, (\E u \in Uni : MetaFollows(u)) \/ (\E s \in Subnet : OthersUse(s))
  PROVE  /\ UNCHANGED <<cpu, uni, proc, gaveUp, losses>>
         /\ \/ meta' = meta
            \/ \E u \in Uni : uni[u].st = "attached" /\ meta' = meta \cup {u}
            \/ \E u \in Uni : uni[u].st = "deleted" /\ meta' = meta \ {u}
BY DEF MetaFollows, OthersUse, callVars

LEMMA NextCases ==
  ASSUME [Next]_vars
  PROVE  \/ \E st \in Strategy : ensureSubnetUNI(st)
         \/ getSubnetAvailableIPs \/ chooseUNI \/ createNetworkInterface
         \/ attachNetworkInterface \/ cleanUpNewUNI \/ waitTimeout \/ ReloadMeta
         \/ describeNetworkInterface \/ Kill
         \/ (\E u \in Uni : MetaFollows(u)) \/ (\E s \in Subnet : OthersUse(s))
         \/ UNCHANGED <<cpu, uni, meta, proc, gaveUp, losses>>
BY DEF Next, CallStep, vars, cloudVars, callVars

----------------------------------------------------------------------------
(* Shape.                                                                  *)

LEMMA IdleShape ==
  ASSUME CloudShape', proc' = NoProc
  PROVE  Shape'
BY DEF Shape, ProcShape, NoProc, Pc

(* An interface changes its state only forward.                            *)
LEMMA SetShape ==
  ASSUME Shape, NEW u \in Uni, NEW s, NEW st \in UniState, SetUni(u, s, st),
         u \in meta => st \in Shown,
         cpu' = cpu, meta' = meta, losses' \in Nat, gaveUp' \in BOOLEAN
  PROVE  CloudShape'
<1>1. CloudShape
  BY DEF Shape
<1> QED
  BY <1>1, SetUniFacts DEF CloudShape

LEMMA SameShape ==
  ASSUME Shape, uni' = uni, meta' = meta, cpu' = cpu, losses' \in Nat, gaveUp' \in BOOLEAN
  PROVE  CloudShape'
BY DEF Shape, CloudShape

LEMMA ShapeStep ==
  ASSUME Shape, [Next]_vars
  PROVE  Shape'
<1> USE UniAssumption
<1>0. CloudShape /\ ProcShape /\ gaveUp \in BOOLEAN /\ losses \in Nat
  BY DEF Shape, CloudShape
<1>1. CASE \E st \in Strategy : ensureSubnetUNI(st)
  <2> PICK st \in Strategy : ensureSubnetUNI(st)
    BY <1>1
  <2>1. CloudShape'
    BY <1>0, EnsureFacts, SameShape
  <2>2. CASE proc' = [pc |-> "query", strategy |-> st, meta |-> meta, k |-> 1, subnets |-> <<>>,
                      subnet |-> NoSubnet, uni |-> NoUni]
    <3>1. uni' = uni /\ meta \subseteq Uni /\ \A u \in meta : uni[u].st \in Shown
      BY <1>0, EnsureFacts DEF CloudShape
    <3> QED
      BY <2>1, <2>2, <3>1 DEF Shape, ProcShape, Pc
  <2>3. CASE proc' = proc
    BY <1>0, <2>1, <2>3, EnsureFacts, IdleShape
  <2> QED
    BY <2>2, <2>3, EnsureFacts
<1>2. CASE getSubnetAvailableIPs
  <2>1. CloudShape'
    BY <1>0, <1>2, QueryFacts, SameShape
  <2> QED
    BY <1>0, <1>2, <2>1, QueryFacts DEF Shape, ProcShape, NoProc, Pc
<1>3. CASE chooseUNI
  <2>1. gaveUp' \in BOOLEAN
    BY <1>0, <1>3, ChooseFacts, ReturnFacts
  <2>2. CloudShape'
    BY <1>3, <2>1, ChooseFacts, SameShape
  <2>3. CASE \E r : Return(r)
    BY <1>0, <2>2, <2>3, ReturnFacts, IdleShape
  <2>4. CASE \E s, u : u \in proc.meta /\ proc' = [proc EXCEPT !.pc = "describe", !.subnet = s, !.uni = u]
    BY <1>0, <1>3, <2>2, <2>4, ChooseFacts DEF Shape, ProcShape, NoProc, Pc
  <2>5. CASE \E s : proc' = [proc EXCEPT !.pc = "create", !.subnet = s]
    BY <1>0, <1>3, <2>2, <2>5, ChooseFacts DEF Shape, ProcShape, NoProc, Pc
  <2> QED
    BY <1>3, <2>3, <2>4, <2>5, ChooseFacts
<1>4. CASE createNetworkInterface
  <2>1. CASE \E u \in Uni :
               /\ uni[u].st = "absent" /\ SetUni(u, proc.subnet, "detached")
               /\ \/ /\ \E pc \in {"attach", "cleanup"} : proc' = [proc EXCEPT !.uni = u, !.pc = pc]
                     /\ losses' = losses /\ gaveUp' = gaveUp
                  \/ Return("error") /\ losses' = losses + 1
    <3> PICK u \in Uni :
          /\ uni[u].st = "absent" /\ SetUni(u, proc.subnet, "detached")
          /\ \/ /\ \E pc \in {"attach", "cleanup"} : proc' = [proc EXCEPT !.uni = u, !.pc = pc]
                /\ losses' = losses /\ gaveUp' = gaveUp
             \/ Return("error") /\ losses' = losses + 1
      BY <2>1
    <3>0. uni'[u].st = "detached" /\ \A v \in Uni \ {u} : uni'[v] = uni[v]
      BY <1>0, SetUniFacts
    <3>1a. gaveUp' \in BOOLEAN /\ losses' \in Nat
      BY <1>0, ReturnFacts
    <3>1. gaveUp' \in BOOLEAN /\ losses' \in Nat /\ cpu' = cpu /\ meta' = meta
      BY <1>4, <3>1a DEF createNetworkInterface
    <3>2. u \notin meta /\ u \notin proc.meta
      BY <1>0 DEF CloudShape, ProcShape, Shown
    <3>3. CloudShape'
      BY <3>1, <3>2, SetShape DEF UniState
    <3>4. CASE Return("error")
      BY <1>0, <3>3, <3>4, ReturnFacts, IdleShape
    <3>5. CASE \E pc \in {"attach", "cleanup"} : proc' = [proc EXCEPT !.uni = u, !.pc = pc]
      BY <1>0, <1>4, <3>0, <3>2, <3>3, <3>5, CreateFacts DEF Shape, ProcShape, NoProc, Pc
    <3> QED
      BY <3>4, <3>5
  <2>2. CASE uni' = uni /\ Return("error") /\ losses' \in Nat
    <3>1. CloudShape'
      BY <1>0, <1>4, <2>2, CreateFacts, ReturnFacts, SameShape
    <3> QED
      BY <1>0, <2>2, <3>1, ReturnFacts, IdleShape
  <2> QED
    BY <1>4, <2>1, <2>2, CreateFacts
<1>5. CASE attachNetworkInterface
  <2>0. /\ cpu' = cpu /\ meta' = meta /\ gaveUp' = gaveUp /\ losses' \in Nat
        /\ proc.pc = "attach" /\ proc.uni \in Uni
        /\ proc.uni \notin meta /\ proc.uni \notin proc.meta
    BY <1>0, <1>5, AttachFacts DEF ProcShape, CloudShape, Shown
  <2>1. CASE SetUni(proc.uni, proc.subnet, "attached")
    <3>1. CloudShape'
      BY <1>0, <2>0, <2>1, SetShape DEF UniState
    <3>2. \E pc \in {"wait", "cleanup"} : proc' = [proc EXCEPT !.pc = pc]
      BY <1>5, AttachFacts
    <3>3. uni'[proc.uni].st = "attached" /\ \A v \in Uni \ {proc.uni} : uni'[v] = uni[v]
      BY <1>0, <2>0, <2>1, SetUniFacts
    <3> QED
      BY <1>0, <2>0, <3>1, <3>2, <3>3 DEF Shape, ProcShape, NoProc, Pc
  <2>2. CASE uni' = uni /\ proc' = [proc EXCEPT !.pc = "cleanup"]
    <3>1. CloudShape'
      BY <1>0, <2>0, <2>2, SameShape
    <3> QED
      BY <1>0, <2>0, <2>2, <3>1 DEF Shape, ProcShape, NoProc, Pc
  <2> QED
    BY <1>5, <2>1, <2>2, AttachFacts
<1>6. CASE cleanUpNewUNI \/ waitTimeout
  <2>1. /\ proc.uni \in Uni /\ cpu' = cpu /\ meta' = meta /\ proc' = NoProc
        /\ gaveUp' \in BOOLEAN /\ losses' \in Nat
    BY <1>0, <1>6, GiveUpFacts, ReturnFacts, DeleteFacts DEF ProcShape
  <2>2. SetUni(proc.uni, proc.subnet, "deleted") \/ uni' = uni
    BY <1>6, GiveUpFacts, DeleteFacts
  <2>3. CloudShape'
    BY <2>1, <2>2, SetShape, SameShape DEF UniState, Shown
  <2> QED
    BY <2>1, <2>3, IdleShape
<1>7. CASE ReloadMeta
  <2>1. CloudShape'
    BY <1>0, <1>7, ReloadFacts, SameShape
  <2> QED
    BY <1>0, <1>7, <2>1, ReloadFacts DEF Shape, ProcShape, CloudShape, NoProc, Pc
<1>8. CASE describeNetworkInterface \/ Kill
  <2>1. CloudShape'
    BY <1>0, <1>8, EndFacts, ReturnFacts, SameShape
  <2> QED
    BY <1>0, <1>8, <2>1, EndFacts, ReturnFacts, IdleShape
<1>9. CASE (\E u \in Uni : MetaFollows(u)) \/ (\E s \in Subnet : OthersUse(s))
  BY <1>0, <1>9, CloudFacts DEF Shape, CloudShape, ProcShape, NoProc, Shown
<1>10. CASE UNCHANGED <<cpu, uni, meta, proc, gaveUp, losses>>
  BY <1>0, <1>10 DEF Shape, CloudShape, ProcShape, NoProc
<1> QED
  BY <1>1, <1>2, <1>3, <1>4, <1>5, <1>6, <1>7, <1>8, <1>9, <1>10, NextCases

----------------------------------------------------------------------------
(* What a call knows.                                                      *)

LEMMA Limits ==
  /\ GetNodeUNILimits \in Nat /\ GetNodeUNILimits >= 2
  /\ cpu' = cpu => GetNodeUNILimits' = GetNodeUNILimits
BY DEF GetNodeUNILimits

(* No step takes back that a call gave up, or changes the node's size.     *)
LEMMA History ==
  ASSUME Shape, [Next]_vars
  PROVE  cpu' = cpu /\ (~gaveUp' => ~gaveUp)
<1>0. gaveUp \in BOOLEAN
  BY DEF Shape, CloudShape
<1> USE DEF cloudVars, callVars
<1>1. CASE \E st \in Strategy : ensureSubnetUNI(st)
  BY <1>1, EnsureFacts
<1>2. CASE getSubnetAvailableIPs
  BY <1>2 DEF getSubnetAvailableIPs
<1>3. CASE chooseUNI
  BY <1>0, <1>3, ChooseFacts, ReturnFacts
<1>4. CASE createNetworkInterface
  <2>1. (\E r : Return(r)) \/ gaveUp' = gaveUp
    BY <1>4, CreateFacts
  <2> QED
    BY <1>0, <1>4, <2>1, ReturnFacts DEF createNetworkInterface
<1>5. CASE attachNetworkInterface
  BY <1>5, AttachFacts
<1>6. CASE cleanUpNewUNI \/ waitTimeout
  BY <1>0, <1>6, GiveUpFacts, ReturnFacts
<1>7. CASE ReloadMeta
  BY <1>7 DEF ReloadMeta
<1>8. CASE describeNetworkInterface \/ Kill
  BY <1>0, <1>8, EndFacts, ReturnFacts
<1>9. CASE (\E u \in Uni : MetaFollows(u)) \/ (\E s \in Subnet : OthersUse(s))
  BY <1>9, CloudFacts
<1>10. CASE UNCHANGED <<cpu, uni, meta, proc, gaveUp, losses>>
  BY <1>10
<1> QED
  BY <1>1, <1>2, <1>3, <1>4, <1>5, <1>6, <1>7, <1>8, <1>9, <1>10, NextCases

(* Only attachNetworkInterface attaches an interface, and none moves to    *)
(* another subnet.                                                         *)
LEMMA OnlyAttachAttaches ==
  ASSUME Shape, [Next]_vars, ~attachNetworkInterface
  PROVE  \A u \in Uni : uni'[u].st = "attached" =>
            uni[u].st = "attached" /\ uni'[u].subnet = uni[u].subnet
<1>0. CloudShape /\ ProcShape
  BY DEF Shape
<1>1. CASE uni' = uni
  BY <1>1
<1>2. CASE createNetworkInterface
  <2>1. uni' = uni \/ \E u \in Uni : SetUni(u, proc.subnet, "detached")
    BY <1>2, CreateFacts
  <2> QED
    BY <1>0, <2>1, SetUniFacts
<1>3. CASE cleanUpNewUNI \/ waitTimeout
  <2>1. proc.uni \in Uni
    BY <1>0, <1>3, GiveUpFacts DEF ProcShape
  <2>2. uni' = uni \/ SetUni(proc.uni, proc.subnet, "deleted")
    BY <1>3, GiveUpFacts, DeleteFacts
  <2> QED
    BY <1>0, <2>1, <2>2, SetUniFacts
<1>4. \/ uni' = uni \/ createNetworkInterface \/ cleanUpNewUNI \/ waitTimeout
  BY NextCases, EnsureFacts, QueryFacts, ChooseFacts, ReloadFacts, EndFacts, CloudFacts
<1> QED
  BY <1>1, <1>2, <1>3, <1>4

LEMMA CompleteStep ==
  ASSUME Shape, ~gaveUp, Complete, [Next]_vars, ~gaveUp'
  PROVE  Complete'
<1>0. CloudShape /\ ProcShape /\ gaveUp \in BOOLEAN
  BY DEF Shape, CloudShape
<1>1. ASSUME NEW r, Return(r), meta' = meta PROVE Complete'
  <2>1. proc' = NoProc /\ \A u \in Uni : uni'[u].st = "attached" => u \in meta
    BY <1>0, <1>1, ReturnFacts
  <2> QED
    BY <1>1, <2>1 DEF Complete, NoProc, Attached
<1>2. CASE \E st \in Strategy : ensureSubnetUNI(st)
  <2>1. PICK st : ensureSubnetUNI(st)
    BY <1>2
  <2>2. CASE proc' = [pc |-> "query", strategy |-> st, meta |-> meta, k |-> 1, subnets |-> <<>>,
                      subnet |-> NoSubnet, uni |-> NoUni]
    <3>1. Attached \subseteq meta
      BY <2>1 DEF ensureSubnetUNI, Complete, NoProc
    <3>2. Attached' = Attached /\ meta' = meta
      BY <2>1 DEF ensureSubnetUNI, cloudVars, Attached
    <3> QED
      BY <2>2, <3>1, <3>2 DEF Complete
  <2>3. CASE proc' = proc
    BY <2>1, <2>3, EnsureFacts DEF Complete, NoProc, Attached
  <2> QED
    BY <2>1, <2>2, <2>3, EnsureFacts
<1>3. CASE getSubnetAvailableIPs
  BY <1>0, <1>3, QueryFacts DEF Complete, Attached, ProcShape
<1>4. CASE chooseUNI
  <2>1. CASE \E r : Return(r)
    BY <1>1, <1>4, <2>1, ChooseFacts
  <2>2. CASE \E s, u : proc' = [proc EXCEPT !.pc = "describe", !.subnet = s, !.uni = u]
    BY <1>0, <2>2 DEF Complete, ProcShape
  <2>3. CASE \E s : proc' = [proc EXCEPT !.pc = "create", !.subnet = s]
    BY <1>0, <1>4, <2>3, ChooseFacts DEF Complete, Attached, ProcShape
  <2> QED
    BY <1>4, <2>1, <2>2, <2>3, ChooseFacts
<1>5. CASE createNetworkInterface
  <2>0. meta' = meta /\ proc.pc = "create"
    BY <1>5 DEF createNetworkInterface
  <2>1. CASE \E r : Return(r)
    BY <1>1, <2>0, <2>1
  <2>2. CASE \E u, pc : pc \in {"attach", "cleanup"} /\ proc' = [proc EXCEPT !.uni = u, !.pc = pc]
    <3>1. ~attachNetworkInterface
      BY <2>0 DEF attachNetworkInterface
    <3>2. Attached' \subseteq Attached
      BY <3>1, OnlyAttachAttaches DEF Attached
    <3> QED
      BY <1>0, <2>0, <2>2, <3>2 DEF Complete, ProcShape
  <2> QED
    BY <1>5, <2>1, <2>2, CreateFacts
<1>6. CASE attachNetworkInterface
  <2>1. proc'.pc \in {"wait", "cleanup"}
    BY <1>0, <1>6, AttachFacts DEF ProcShape
  <2> QED
    BY <2>1 DEF Complete
<1>7. CASE cleanUpNewUNI \/ waitTimeout
  BY <1>1, <1>7, GiveUpFacts
<1>8. CASE ReloadMeta
  BY <1>0, <1>8, ReloadFacts DEF Complete, ProcShape
<1>9. CASE describeNetworkInterface \/ Kill
  BY <1>1, <1>9, EndFacts
<1>10. CASE (\E u \in Uni : MetaFollows(u)) \/ (\E s \in Subnet : OthersUse(s))
  BY <1>10, CloudFacts DEF Complete, Attached
<1>11. CASE UNCHANGED <<cpu, uni, meta, proc, gaveUp, losses>>
  BY <1>11 DEF Complete, Attached
<1> QED
  BY <1>2, <1>3, <1>4, <1>5, <1>6, <1>7, <1>8, <1>9, <1>10, <1>11, NextCases

LEMMA PlannedStep ==
  ASSUME Shape, Planned, [Next]_vars
  PROVE  Planned'
<1>0. CloudShape /\ ProcShape
  BY DEF Shape
<1>1. cpu' = cpu /\ GetNodeUNILimits \in Nat /\ GetNodeUNILimits' = GetNodeUNILimits
  BY History, Limits
<1>2. ASSUME proc'.pc \notin {"create", "attach"} PROVE Planned'
  BY <1>2 DEF Planned
<1>3. CASE chooseUNI
  <2>1. CASE \E s : /\ Existing(s) = {} /\ ~AtLimit
                    /\ proc' = [proc EXCEPT !.pc = "create", !.subnet = s]
    <3> PICK s : /\ Existing(s) = {} /\ ~AtLimit
                 /\ proc' = [proc EXCEPT !.pc = "create", !.subnet = s]
      BY <2>1
    <3>1. proc'.meta = proc.meta /\ proc'.subnet = s /\ uni' = uni
      BY <1>0, <1>3, ChooseFacts DEF ProcShape
    <3>2. \A u \in proc.meta : uni[u].subnet # s
      BY DEF Existing
    <3>3. Cardinality(proc.meta) \in Nat
      BY <1>0, UniAssumption, FS_Subset, FS_CardinalityType DEF ProcShape
    <3>4. Cardinality(proc.meta) + 1 < GetNodeUNILimits
      BY <1>1, <3>3 DEF AtLimit
    <3> QED
      BY <1>1, <3>1, <3>2, <3>4 DEF Planned
  <2>2. CASE proc'.pc \in {"idle", "describe"}
    BY <1>2, <2>2
  <2>3. ASSUME NEW r, Return(r) PROVE proc'.pc = "idle"
    BY <2>3 DEF Return, NoProc
  <2>4. ASSUME NEW s, NEW u, proc' = [proc EXCEPT !.pc = "describe", !.subnet = s, !.uni = u]
        PROVE  proc'.pc = "describe"
    BY <1>0, <2>4 DEF ProcShape
  <2> QED
    BY <1>3, <2>1, <2>2, <2>3, <2>4, ChooseFacts
<1>4. CASE createNetworkInterface
  <2>1. CASE \E u \in Uni :
               /\ uni[u].st = "absent" /\ SetUni(u, proc.subnet, "detached")
               /\ \E pc \in {"attach", "cleanup"} : proc' = [proc EXCEPT !.uni = u, !.pc = pc]
    <3> PICK u \in Uni :
               /\ uni[u].st = "absent" /\ SetUni(u, proc.subnet, "detached")
               /\ \E pc \in {"attach", "cleanup"} : proc' = [proc EXCEPT !.uni = u, !.pc = pc]
      BY <2>1
    <3>1. proc'.meta = proc.meta /\ proc'.subnet = proc.subnet /\ proc.pc = "create"
      BY <1>0, <1>4 DEF ProcShape, createNetworkInterface
    <3>2. u \notin proc.meta /\ proc.meta \subseteq Uni
      BY <1>0 DEF ProcShape, Shown
    <3>3. \A v \in Uni \ {u} : uni'[v] = uni[v]
      BY <1>0, SetUniFacts
    <3> QED
      BY <1>1, <3>1, <3>2, <3>3 DEF Planned
  <2>2. ASSUME NEW r, Return(r) PROVE Planned'
    BY <1>2, <2>2 DEF Return, NoProc
  <2> QED
    BY <1>4, <2>1, <2>2, CreateFacts
<1>5. CASE UNCHANGED <<uni, proc>>
  BY <1>1, <1>5 DEF Planned
<1>6. CASE \E st \in Strategy : ensureSubnetUNI(st)
  <2>1. PICK st : ensureSubnetUNI(st)
    BY <1>6
  <2>2. proc'.pc \in {"query", "idle"}
    <3>1. CASE proc' = proc
      BY <2>1, <3>1 DEF ensureSubnetUNI, NoProc
    <3>2. CASE proc' = [pc |-> "query", strategy |-> st, meta |-> meta, k |-> 1, subnets |-> <<>>,
                        subnet |-> NoSubnet, uni |-> NoUni]
      BY <3>2
    <3> QED
      BY <2>1, <3>1, <3>2, EnsureFacts
  <2> QED
    BY <1>2, <2>2
<1>7. CASE getSubnetAvailableIPs
  BY <1>0, <1>2, <1>7, QueryFacts DEF ProcShape
<1>8. CASE attachNetworkInterface
  BY <1>0, <1>2, <1>8, AttachFacts DEF ProcShape
<1>9. CASE ReloadMeta
  BY <1>0, <1>2, <1>9, ReloadFacts DEF ProcShape
<1>10. CASE cleanUpNewUNI \/ waitTimeout \/ describeNetworkInterface \/ Kill
  <2>1. PICK r : Return(r)
    BY <1>10, GiveUpFacts, EndFacts
  <2> QED
    BY <1>2, <2>1 DEF Return, NoProc
<1> QED
  BY <1>3, <1>4, <1>5, <1>6, <1>7, <1>8, <1>9, <1>10, CloudFacts, NextCases

----------------------------------------------------------------------------
(* The three properties, step by step.                                     *)

(* The interface that is attached is in a subnet where the metadata showed *)
(* none, and the metadata showed all that are attached.                    *)
LEMMA OneUniStep ==
  ASSUME Shape, KnownInv, OneUniPerSubnet, [Next]_vars
  PROVE  OneUniPerSubnet'
<1> SUFFICES ASSUME ~gaveUp' PROVE (\A u, v \in Attached : u # v => uni[u].subnet # uni[v].subnet)'
  BY DEF OneUniPerSubnet
<1>1. ~gaveUp
  BY History
<1>2. \A u, v \in Attached : u # v => uni[u].subnet # uni[v].subnet
  BY <1>1 DEF OneUniPerSubnet
<1>3. CASE ~attachNetworkInterface
  BY <1>2, <1>3, OnlyAttachAttaches DEF Attached
<1>4. CASE attachNetworkInterface
  <2>1. proc.pc = "attach" /\ proc.uni \in Uni
    BY <1>4, AttachFacts DEF Shape, ProcShape
  <2>2. \A u \in Attached : uni[u].subnet # proc.subnet
    BY <1>1, <2>1 DEF KnownInv, Planned, Complete
  <2>3. CASE uni' = uni
    BY <1>2, <2>3 DEF Attached
  <2>4. CASE SetUni(proc.uni, proc.subnet, "attached")
    <3>1. /\ uni'[proc.uni].subnet = proc.subnet
          /\ \A v \in Uni \ {proc.uni} : uni'[v] = uni[v]
      BY <2>1, <2>4, SetUniFacts DEF Shape
    <3> QED
      BY <1>2, <2>2, <3>1 DEF Attached
  <2> QED
    BY <1>4, <2>3, <2>4, AttachFacts
<1> QED
  BY <1>3, <1>4

LEMMA WithinLimitStep ==
  ASSUME Shape, KnownInv, WithinLimit, [Next]_vars
  PROVE  WithinLimit'
<1> SUFFICES ASSUME ~gaveUp' PROVE (Cardinality(Attached) + 1 <= GetNodeUNILimits)'
  BY DEF WithinLimit
<1>1. ~gaveUp /\ cpu' = cpu
  BY History
<1>2. GetNodeUNILimits \in Nat /\ GetNodeUNILimits' = GetNodeUNILimits
  BY <1>1, Limits
<1>3. IsFiniteSet(Attached) /\ IsFiniteSet(Attached')
  BY UniAssumption, FS_Subset DEF Attached
<1>4. Cardinality(Attached) \in Nat /\ Cardinality(Attached') \in Nat
  BY <1>3, FS_CardinalityType
<1>5. CASE Attached' \subseteq Attached
  <2>1. Cardinality(Attached') <= Cardinality(Attached)
    BY <1>3, <1>5, FS_Subset
  <2> QED
    BY <1>1, <1>2, <1>4, <2>1 DEF WithinLimit
<1>6. CASE attachNetworkInterface
  <2>1. proc.pc = "attach" /\ proc.uni \in Uni /\ proc.meta \subseteq Uni
    BY <1>6, AttachFacts DEF Shape, ProcShape
  <2>2. Attached \subseteq proc.meta /\ Cardinality(proc.meta) + 1 < GetNodeUNILimits
    BY <1>1, <2>1 DEF KnownInv, Planned, Complete
  <2>3. Attached' \subseteq Attached \cup {proc.uni}
    <3>1. CASE uni' = uni
      BY <3>1 DEF Attached
    <3>2. CASE SetUni(proc.uni, proc.subnet, "attached")
      <4>1. \A v \in Uni \ {proc.uni} : uni'[v] = uni[v]
        BY <2>1, <3>2, SetUniFacts DEF Shape
      <4> QED
        BY <4>1 DEF Attached
    <3> QED
      BY <1>6, <3>1, <3>2, AttachFacts
  <2>4. IsFiniteSet(proc.meta) /\ Cardinality(proc.meta) \in Nat
    BY <2>1, UniAssumption, FS_Subset, FS_CardinalityType
  <2>5. /\ IsFiniteSet(proc.meta \cup {proc.uni})
        /\ Cardinality(proc.meta \cup {proc.uni}) <= Cardinality(proc.meta) + 1
    BY <2>4, FS_AddElement
  <2>6. Cardinality(Attached') <= Cardinality(proc.meta \cup {proc.uni})
    BY <2>2, <2>3, <2>5, FS_Subset
  <2>7. Cardinality(proc.meta \cup {proc.uni}) \in Nat
    BY <2>5, FS_CardinalityType
  <2> QED
    BY <1>2, <1>4, <2>2, <2>4, <2>5, <2>6, <2>7
<1> QED
  BY <1>5, <1>6, OnlyAttachAttaches DEF Attached

(* An interface is added to the stray ones only against a loss.            *)
LEMMA LeakFrame ==
  ASSUME UniLeakBound, losses \in Nat, losses' \in Nat, NEW x,
         \/ (Detached \ {proc.uni})' \subseteq Detached \ {proc.uni} /\ losses' >= losses
         \/ (Detached \ {proc.uni})' \subseteq (Detached \ {proc.uni}) \cup {x} /\ losses' >= losses + 1
  PROVE  UniLeakBound'
<1> DEFINE L == Detached \ {proc.uni}
<1>1. IsFiniteSet(L) /\ IsFiniteSet(L')
  <2>1. IsFiniteSet(Detached) /\ IsFiniteSet(Detached')
    BY UniAssumption, FS_Subset DEF Detached
  <2> QED
    BY <2>1, FS_Subset
<1>2. IsFiniteSet(L \cup {x}) /\ Cardinality(L \cup {x}) <= Cardinality(L) + 1
  <2> HIDE DEF L
  <2>1. Cardinality(L) \in Nat
    BY <1>1, FS_CardinalityType
  <2>2. /\ IsFiniteSet(L \cup {x})
        /\ Cardinality(L \cup {x}) \in {Cardinality(L), Cardinality(L) + 1}
    BY <1>1, FS_AddElement
  <2> QED
    BY <2>1, <2>2
<1>3. Cardinality(L) \in Nat /\ Cardinality(L') \in Nat /\ Cardinality(L \cup {x}) \in Nat
  BY <1>1, <1>2, FS_CardinalityType
<1>4. Cardinality(L) <= losses
  BY DEF UniLeakBound, Detached
<1>5. \/ Cardinality(L') <= Cardinality(L) /\ losses' >= losses
      \/ Cardinality(L') <= Cardinality(L \cup {x}) /\ losses' >= losses + 1
  BY <1>1, <1>2, FS_Subset
<1>6. Cardinality(L') <= losses'
  BY <1>2, <1>3, <1>4, <1>5
<1> QED
  BY <1>6 DEF UniLeakBound, Detached

LEMMA UniLeakStep ==
  ASSUME Shape, UniLeakBound, [Next]_vars
  PROVE  UniLeakBound'
<1>0. CloudShape /\ ProcShape /\ losses \in Nat /\ NoUni \notin Uni
  BY UniAssumption DEF Shape, CloudShape
<1>1. losses' \in Nat
  BY ShapeStep DEF Shape, CloudShape
<1>2. ASSUME (Detached \ {proc.uni})' \subseteq Detached \ {proc.uni}, losses' >= losses
      PROVE  UniLeakBound'
  BY <1>0, <1>1, <1>2, LeakFrame
<1>3. ASSUME NEW x, (Detached \ {proc.uni})' \subseteq (Detached \ {proc.uni}) \cup {x},
             losses' >= losses + 1
      PROVE  UniLeakBound'
  BY <1>0, <1>1, <1>3, LeakFrame
<1>4. CASE \E st \in Strategy : ensureSubnetUNI(st)
  <2>1. PICK st : ensureSubnetUNI(st)
    BY <1>4
  <2>2. proc'.uni = proc.uni
    <3>1. CASE proc' = proc
      BY <3>1
    <3>2. CASE proc' = [pc |-> "query", strategy |-> st, meta |-> meta, k |-> 1, subnets |-> <<>>,
                        subnet |-> NoSubnet, uni |-> NoUni]
      BY <2>1, <3>2 DEF ensureSubnetUNI, NoProc
    <3> QED
      BY <2>1, <3>1, <3>2, EnsureFacts
  <2>3. uni' = uni /\ losses' >= losses
    BY <2>1, EnsureFacts
  <2> QED
    BY <1>2, <2>2, <2>3 DEF Detached
<1>5. CASE getSubnetAvailableIPs
  <2>1. proc'.uni = proc.uni /\ uni' = uni /\ losses' >= losses
    BY <1>0, <1>5, QueryFacts DEF ProcShape
  <2> QED
    BY <1>2, <2>1 DEF Detached
<1>6. CASE chooseUNI
  <2>1. proc.uni = NoUni /\ uni' = uni /\ losses' >= losses
    BY <1>0, <1>6, ChooseFacts DEF ProcShape
  <2> QED
    BY <1>0, <1>2, <2>1 DEF Detached
<1>7. CASE createNetworkInterface
  <2>0. proc.uni = NoUni
    BY <1>0, <1>7 DEF createNetworkInterface, ProcShape
  <2>1. CASE \E u \in Uni :
               /\ uni[u].st = "absent" /\ SetUni(u, proc.subnet, "detached")
               /\ \/ /\ \E pc \in {"attach", "cleanup"} : proc' = [proc EXCEPT !.uni = u, !.pc = pc]
                     /\ losses' = losses /\ gaveUp' = gaveUp
                  \/ Return("error") /\ losses' = losses + 1
    <3>0. PICK u \in Uni :
               /\ uni[u].st = "absent" /\ SetUni(u, proc.subnet, "detached")
               /\ \/ /\ \E pc \in {"attach", "cleanup"} : proc' = [proc EXCEPT !.uni = u, !.pc = pc]
                     /\ losses' = losses /\ gaveUp' = gaveUp
                  \/ Return("error") /\ losses' = losses + 1
      BY <2>1
    <3>1. \A v \in Uni \ {u} : uni'[v] = uni[v]
      BY <1>0, <3>0, SetUniFacts
    <3>2. Detached' \subseteq Detached \cup {u} /\ Detached \subseteq Uni
      BY <3>1 DEF Detached
    <3>3. CASE \E pc \in {"attach", "cleanup"} : proc' = [proc EXCEPT !.uni = u, !.pc = pc]
                 /\ losses' = losses
      <4>1. proc'.uni = u
        BY <1>0, <3>3 DEF ProcShape
      <4>2. (Detached \ {proc.uni})' \subseteq Detached \ {proc.uni}
        BY <1>0, <2>0, <3>2, <4>1
      <4> QED
        BY <1>0, <1>2, <3>3, <4>2
    <3>4. CASE losses' = losses + 1
      <4>1. (Detached \ {proc.uni})' \subseteq (Detached \ {proc.uni}) \cup {u}
        BY <1>0, <2>0, <3>2
      <4> QED
        BY <1>0, <1>3, <3>4, <4>1
    <3> QED
      BY <3>0, <3>3, <3>4
  <2>2. CASE uni' = uni /\ Return("error") /\ losses' >= losses
    BY <1>0, <1>2, <2>0, <2>2 DEF Detached
  <2> QED
    BY <1>7, <2>1, <2>2, CreateFacts
<1>8. CASE attachNetworkInterface
  <2>1. proc.uni \in Uni /\ losses' >= losses
    BY <1>0, <1>8, AttachFacts DEF ProcShape
  <2>2. proc'.uni = proc.uni
    BY <1>0, <1>8, AttachFacts DEF ProcShape
  <2>3. SetUni(proc.uni, proc.subnet, "attached") \/ uni' = uni
    BY <1>8, AttachFacts
  <2>4. \A v \in Uni \ {proc.uni} : uni'[v] = uni[v]
    BY <1>0, <2>1, <2>3, SetUniFacts
  <2> QED
    BY <1>2, <2>1, <2>2, <2>4 DEF Detached
<1>9. CASE cleanUpNewUNI \/ waitTimeout
  <2>1. proc.uni \in Uni /\ proc' = NoProc /\ deleteNetworkInterface
    BY <1>0, <1>9, GiveUpFacts DEF ProcShape, Return
  <2>2. CASE SetUni(proc.uni, proc.subnet, "deleted") /\ losses' = losses
    <3>1. uni'[proc.uni].st = "deleted" /\ \A v \in Uni \ {proc.uni} : uni'[v] = uni[v]
      BY <1>0, <2>1, <2>2, SetUniFacts
    <3>2. (Detached \ {proc.uni})' \subseteq Detached \ {proc.uni}
      BY <3>1 DEF Detached
    <3> QED
      BY <1>0, <1>2, <2>2, <3>2
  <2>3. CASE uni' = uni /\ uni[proc.uni].st = "attached" /\ losses' = losses
    <3>1. (Detached \ {proc.uni})' \subseteq Detached \ {proc.uni}
      BY <2>3 DEF Detached
    <3> QED
      BY <1>0, <1>2, <2>3, <3>1
  <2>4. CASE uni' = uni /\ losses' = losses + 1
    <3>1. (Detached \ {proc.uni})' \subseteq (Detached \ {proc.uni}) \cup {proc.uni}
      BY <2>4 DEF Detached
    <3> QED
      BY <1>0, <1>3, <2>4, <3>1
  <2> QED
    BY <2>1, <2>2, <2>3, <2>4, DeleteFacts
<1>10. CASE ReloadMeta
  <2>1. uni[proc.uni].st = "attached" /\ uni' = uni /\ losses' = losses
    BY <1>0, <1>10, ReloadFacts DEF ProcShape
  <2>2. (Detached \ {proc.uni})' \subseteq Detached \ {proc.uni}
    BY <2>1 DEF Detached
  <2> QED
    BY <1>0, <1>2, <2>1, <2>2
<1>11. CASE describeNetworkInterface \/ Kill
  <2>1. uni' = uni /\ losses' \in Nat /\ losses' >= losses
        /\ (proc.pc = "describe" \/ losses' = losses + 1)
    BY <1>11, EndFacts
  <2>2. CASE proc.pc = "describe"
    <3>1. uni[proc.uni].st \in Shown
      BY <1>0, <2>2 DEF ProcShape
    <3>2. (Detached \ {proc.uni})' \subseteq Detached \ {proc.uni}
      BY <2>1, <3>1 DEF Detached, Shown
    <3> QED
      BY <1>2, <2>1, <3>2
  <2>3. CASE losses' = losses + 1
    <3>1. (Detached \ {proc.uni})' \subseteq (Detached \ {proc.uni}) \cup {proc.uni}
      BY <2>1 DEF Detached
    <3> QED
      BY <1>0, <1>3, <2>3, <3>1
  <2> QED
    BY <2>1, <2>2, <2>3
<1>12. CASE uni' = uni /\ proc' = proc /\ losses' = losses
  BY <1>0, <1>2, <1>12 DEF Detached
<1> QED
  BY <1>4, <1>5, <1>6, <1>7, <1>8, <1>9, <1>10, <1>11, <1>12, CloudFacts, NextCases

----------------------------------------------------------------------------
(* The theorems.                                                           *)

LEMMA InitIInv == Init => IInv
<1> SUFFICES ASSUME Init PROVE IInv
  OBVIOUS
<1> USE UniAssumption
<1>1. \A u \in Uni : uni[u] = Absent /\ uni[u].st = "absent"
  BY DEF Init, Absent
<1>2. Attached = {} /\ Detached = {}
  BY <1>1 DEF Attached, Detached
<1>3. Shape
  BY <1>1 DEF Init, Shape, CloudShape, ProcShape, NoProc, Pc, UniState
<1>4. KnownInv
  BY <1>2 DEF Init, KnownInv, Planned, Complete, NoProc
<1>5. OneUniPerSubnet
  BY <1>2 DEF OneUniPerSubnet
<1>6. Cardinality({}) = 0
  BY FS_EmptySet
<1>7. WithinLimit
  BY <1>2, <1>6, Limits DEF WithinLimit
<1>8. Detached \ {proc.uni} = {} /\ losses = 0
  BY <1>2 DEF Init
<1>9. UniLeakBound
  BY <1>6, <1>8 DEF UniLeakBound, Detached
<1> QED
  BY <1>3, <1>4, <1>5, <1>7, <1>9 DEF IInv

LEMMA IInvStep == IInv /\ [Next]_vars => IInv'
<1> SUFFICES ASSUME IInv, [Next]_vars PROVE IInv'
  OBVIOUS
<1>1. Shape /\ KnownInv /\ OneUniPerSubnet /\ WithinLimit /\ UniLeakBound
  BY DEF IInv
<1>2. KnownInv'
  <2>1. Planned' /\ (~gaveUp' => Complete')
    BY <1>1, PlannedStep, CompleteStep, History DEF KnownInv
  <2> QED
    BY <2>1 DEF KnownInv
<1> QED
  BY <1>1, <1>2, ShapeStep, OneUniStep, WithinLimitStep, UniLeakStep DEF IInv

LEMMA Invariant == Spec => []IInv
BY InitIInv, IInvStep, PTL DEF Spec

(* ensureSubnetUNI never gives the node a second interface in a subnet,    *)
(* whatever the metadata server is late with, unless an earlier call ended *)
(* before the metadata showed what it had attached.                        *)
THEOREM NoSecondUni == Spec => []OneUniPerSubnet
<1>1. IInv => OneUniPerSubnet
  BY DEF IInv
<1> QED
  BY <1>1, Invariant, PTL

(* ... and never more interfaces than GetNodeUNILimits allows a node of    *)
(* its size, for each of the sizes.                                        *)
THEOREM LimitIsKept == Spec => []WithinLimit
<1>1. IInv => WithinLimit
  BY DEF IInv
<1> QED
  BY <1>1, Invariant, PTL

(* cleanUpNewUNI leaves no interface detached except against a lost        *)
(* answer, a failed delete or a kill, each of which costs at most one.     *)
THEOREM UniLeaksAreBounded == Spec => []UniLeakBound
<1>1. IInv => UniLeakBound
  BY DEF IInv
<1> QED
  BY <1>1, Invariant, PTL
=============================================================================
