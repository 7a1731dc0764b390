---------------------------- MODULE IpamdProofs ----------------------------
(***************************************************************************)
(* The safety of Ipamd, for every cluster, subnet, watermark and fault     *)
(* budget.                                                                 *)
(*                                                                         *)
(* Ipamd keeps its types, and its goroutines keep their local invariant.   *)
(* The two need each other: an address a goroutine puts somewhere is an    *)
(* address only because the goroutine holds one at that step.              *)
(*                                                                         *)
(* Up to the first hazardous event IInv is inductive, and it implies that  *)
(* pods have addresses of their own, attached to their node and checked    *)
(* there.                                                                  *)
(*                                                                         *)
(* An address is lost only by a fault: the addresses that are attached and *)
(* held by nobody on their node, with the borrow calls still worked on     *)
(* that nobody waits for, are no more than the faults so far (Budget).     *)
(***************************************************************************)
EXTENDS Ipamd, FiniteSetTheorems, TLAPS

----------------------------------------------------------------------------
(* The helpers keep the types.                                             *)

LEMMA PoolCardinality ==
  ASSUME NEW S \in SUBSET IP
  PROVE  Cardinality(S) \in Nat
BY ConstAssumption, FS_Subset, FS_CardinalityType

LEMMA NetworkType ==
  /\ NoNetwork \in PodNetwork
  /\ \A i \in IP \cup {NoIP}, t \in Tag : [ip |-> i, tag |-> t] \in PodNetwork
  /\ \A n, i : TagOf(n, i) \in Tag
  /\ "new" \in Tag /\ "recycled" \in Tag
BY DEF NoNetwork, PodNetwork, Tag, TagOf

LEMMA CandidatesType ==
  /\ NoCands \in Candidates
  /\ \A c \in Candidates, m \in Node : [c EXCEPT ![m] = NoCR] \in Candidates
  /\ TypeOK => \A n \in Node : borrowCandidates(n) \in Candidates
BY DEF NoCands, Candidates, TypeOK, borrowCandidates

LEMMA LendStateType ==
  /\ LendIdle \in LendState
  /\ [LendIdle EXCEPT !.pc = "view"] \in LendState
  /\ [LendIdle EXCEPT !.pc = "err"] \in LendState
  /\ \A s \in LendState : /\ [s EXCEPT !.pc = "move"] \in LendState
                          /\ [s EXCEPT !.pc = "ok"] \in LendState
  /\ \A i \in IP, t \in Tag : [pc |-> "del", ip |-> i, tag |-> t] \in LendState
BY DEF LendIdle, LendState, LendPC, Tag

LEMMA SetLendType ==
  ASSUME LendType, NEW l \in Node, NEW b \in Node, NEW s \in LendState, SetLend(l, b, s)
  PROVE  LendType'
BY DEF LendType, SetLend

LEMMA FaultType ==
  ASSUME faults \in 0..MaxFaults, NEW k, Fault(k)
  PROVE  faults' \in 0..MaxFaults
BY ConstAssumption DEF Fault

LEMMA SpendType ==
  ASSUME faults \in 0..MaxFaults, NEW o, Spend(o)
  PROVE  faults' \in 0..MaxFaults
BY FaultType DEF Spend

LEMMA AttachType ==
  ASSUME VpcType, NEW i \in IP, NEW m \in Node \cup {NoNode}, Attach(i, m)
  PROVE  VpcType'
BY DEF VpcType, Attach

LEMMA DeleteType ==
  ASSUME VpcType, NEW n \in Node, NEW i \in IP, NEW o, uapiDeleteSecondaryIp(n, i, o)
  PROVE  VpcType'
BY AttachType DEF uapiDeleteSecondaryIp, VpcType, vpcVars

LEMMA BackupType ==
  ASSUME VpcType, NEW n \in Node, NEW i \in IP, backupReleaseSecondaryIP(n, i)
  PROVE  VpcType'
BY DeleteType DEF backupReleaseSecondaryIP

LEMMA PoolPutType ==
  ASSUME PoolType, NEW n \in Node, NEW i \in IP, NEW tag, PoolPut(n, i, tag)
  PROVE  PoolType'
BY DEF PoolType, PoolPut

LEMMA PutIpType ==
  ASSUME VpcType, PoolType, NEW n \in Node, NEW i \in IP, NEW tag,
         NEW o, putIpToPool(n, i, tag, o)
  PROVE  VpcType' /\ PoolType'
BY BackupType, PoolPutType DEF putIpToPool, VpcType, PoolType, vpcVars, poolVars

LEMMA BackupPushType ==
  ASSUME PoolType, NEW n \in Node, NEW i \in IP, NEW tag, NEW o, backupPushSecondaryIP(n, i, tag, o)
  PROVE  PoolType'
BY PoolPutType DEF backupPushSecondaryIP, PoolType, poolVars

LEMMA FinishType ==
  ASSUME MgrType, NEW n \in Node, Finish(n)
  PROVE  MgrType'
BY NetworkType, CandidatesType DEF MgrType, Finish, Goto, ResetLocals, MgrPC

LEMMA ReplyType ==
  ASSUME TypeOK, NEW n \in Node, req[n] # NoPod, ReplyError(n) \/ ReplyIP(n)
  PROVE  MgrType' /\ PodType'
<1>1. MgrType'
  BY FinishType DEF ReplyError, ReplyIP, TypeOK
<1>2. req[n] \in Pod /\ hand[n].ip \in IP \cup {NoIP}
  BY DEF TypeOK, MgrType, PodNetwork
<1>3. PodType'
  BY <1>2 DEF ReplyError, ReplyIP, TypeOK, PodType, PodIdle, PodState
<1> QED
  BY <1>1, <1>3

LEMMA SkipType ==
  ASSUME MgrType, NEW n \in Node, NEW c \in Node, Skip(n, c)
  PROVE  cands' \in [Node -> Candidates]
BY CandidatesType DEF MgrType, Skip

(* What a step leaves alone keeps its type and its invariant. *)
LEMMA TypeUnchanged ==
  ASSUME TypeOK
  PROVE  /\ UNCHANGED vpcVars => VpcType'
         /\ UNCHANGED poolVars => PoolType'
         /\ UNCHANGED coolVars => CoolType'
         /\ UNCHANGED mgrVars => MgrType'
         /\ UNCHANGED lend => LendType'
         /\ UNCHANGED pod => PodType'
BY DEF TypeOK, VpcType, PoolType, CoolType, MgrType, LendType, PodType,
       vpcVars, poolVars, coolVars, mgrVars, job, borrow

LEMMA LocalUnchanged ==
  ASSUME LocalInv
  PROVE  /\ UNCHANGED mgrVars => MgrLocal'
         /\ UNCHANGED <<req, pod>> => ReqLocal'
         /\ UNCHANGED lend => LendLocal'
         /\ UNCHANGED pod => PodLocal'
BY DEF LocalInv, MgrLocal, ReqLocal, LendLocal, PodLocal, mgrVars, job, borrow

(* What the two invariants say about one goroutine or one pod. *)
LEMMA MgrFacts ==
  ASSUME TypeOK, LocalInv, NEW n \in Node
  PROVE  /\ pc[n] \in MgrPC /\ hand[n].ip \in IP \cup {NoIP} /\ hand[n].tag \in Tag
         /\ cands[n] \in Candidates /\ req[n] \in Pod \cup {NoPod} /\ left[n] \in Nat
         /\ hand[n].ip # NoIP <=> pc[n] \in {"del", "check", "garp", "release", "put"}
         /\ pc[n] \in {"alloc", "borrow", "try", "rpc", "check", "garp"} => req[n] # NoPod
         /\ pc[n] \in {"idle", "release", "recycle", "put", "status", "down"} => req[n] = NoPod
         /\ pc[n] = "rpc" => peer[n] \in Node
         /\ pc[n] \in {"view", "del", "release"} /\ req[n] = NoPod => left[n] > 0
         /\ req[n] # NoPod => PodNode[req[n]] = n /\ pod[req[n]].st = "wait"
BY DEF TypeOK, MgrType, LocalInv, MgrLocal, ReqLocal, PodNetwork

LEMMA LendFacts ==
  ASSUME TypeOK, LocalInv, NEW l \in Node, NEW b \in Node
  PROVE  /\ lend[l][b] \in LendState
         /\ lend[l][b].pc \in LendPC /\ lend[l][b].ip \in IP \cup {NoIP} /\ lend[l][b].tag \in Tag
         /\ lend[l][b].ip # NoIP <=> lend[l][b].pc \in {"del", "move", "ok"}
BY DEF TypeOK, LendType, LocalInv, LendLocal, LendState

LEMMA PodFacts ==
  ASSUME TypeOK, LocalInv, NEW p \in Pod
  PROVE  /\ PodNode[p] \in Node
         /\ pod[p].st \in PodState /\ pod[p].ip \in IP \cup {NoIP}
         /\ pod[p].ip # NoIP <=> pod[p].st \in {"annot", "up", "del"}
BY ConstAssumption DEF TypeOK, PodType, LocalInv, PodLocal

----------------------------------------------------------------------------
(* Type correctness.                                                       *)

LEMMA TypeInit == Init => TypeOK
<1> SUFFICES ASSUME Init PROVE TypeOK
  OBVIOUS
<1>1. cr \in [Node -> Nat \cup {NoCR}]
  BY ConstAssumption, PoolCardinality DEF Init, NoCR
<1>2. MgrType
  BY NetworkType, CandidatesType DEF Init, MgrType, MgrPC
<1>3. LendType
  BY LendStateType DEF Init, LendType
<1> QED
  BY <1>1, <1>2, <1>3, ConstAssumption
  DEF Init, TypeOK, VpcType, PoolType, CoolType, PodType, PodIdle, PodState

LEMMA TypeStep == TypeOK /\ LocalInv /\ Next => TypeOK'
<1> SUFFICES ASSUME TypeOK, LocalInv, Next PROVE TypeOK'
  OBVIOUS
<1>a. VpcType /\ PoolType /\ CoolType /\ LendType /\ PodType /\ MgrType
  BY DEF TypeOK
<1>f. /\ cr \in [Node -> Nat \cup {NoCR}]
      /\ faults \in 0..MaxFaults
      /\ hazards \in SUBSET Hazard
  BY DEF TypeOK
<1>c. ASSUME NEW n \in Node PROVE Cardinality(pool[n]) \in Nat
  BY PoolCardinality DEF TypeOK, PoolType
<1>1. ASSUME NEW n \in Node, NEW p \in Pod, RecvAdd(n, p) PROVE TypeOK'
  <2>1. PoolType'
    BY <1>1, MgrFacts, PodFacts, <1>a, PoolPutType, PutIpType, BackupPushType, TypeOK, LocalInv
       DEF PoolType, poolVars, PopDelete, RecvAdd
  <2>2. MgrType'
    <3>1. pc' \in [Node -> MgrPC]
      BY <1>1, <1>a, TypeOK, LocalInv DEF MgrType, RecvAdd, Goto, Finish, ResetLocals,
         ReplyError, Skip, MgrPC
    <3>2. hand' \in [Node -> PodNetwork]
      BY <1>1, <1>a, MgrFacts, PodFacts, NetworkType, TypeOK, LocalInv DEF MgrType, RecvAdd,
         Goto, Finish, ResetLocals, ReplyError, Skip, PoolType, CoolType
    <3>3. req' \in [Node -> Pod \cup {NoPod}]
      BY <1>1, <1>a, TypeOK, LocalInv DEF MgrType, RecvAdd, Goto, Finish, ResetLocals,
         ReplyError, Skip, job
    <3>4. left' \in [Node -> Nat]
      BY <1>1, <1>a, MgrFacts, PodFacts, <1>c, ConstAssumption, TypeOK, LocalInv DEF MgrType,
         RecvAdd, Goto, Finish, ResetLocals, ReplyError, Skip, job, toRelease
    <3>5. cands' \in [Node -> Candidates]
      BY <1>1, <1>a, CandidatesType, SkipType, TypeOK, LocalInv DEF MgrType, RecvAdd, Goto,
         Finish, ResetLocals, ReplyError, borrow
    <3>6. peer' \in [Node -> Node \cup {NoNode}]
      BY <1>1, <1>a, MgrFacts, PodFacts, TypeOK, LocalInv DEF MgrType, RecvAdd, Goto, Finish,
         ResetLocals, ReplyError, Skip, borrow
    <3> QED
      BY <3>1, <3>2, <3>3, <3>4, <3>5, <3>6 DEF MgrType
  <2>3. PodType'
    BY <1>1, MgrFacts, PodFacts, <1>a, ReplyType, TypeOK, LocalInv DEF PodType, PodState,
       PodIdle, RecvAdd
  <2>4. faults' \in 0..MaxFaults
    BY <1>1, <1>f, FaultType, SpendType DEF history, RecvAdd
  <2>u. UNCHANGED <<vpcVars, coolVars, cr, lend, hazards>>
    BY <1>1 DEF RecvAdd, history
  <2> QED
    BY <2>1, <2>2, <2>3, <2>4, <2>u, <1>f, TypeUnchanged, TypeOK DEF TypeOK
<1>2. ASSUME NEW n \in Node, NEW p \in Pod, RecvDel(n, p) PROVE TypeOK'
  <2>1. VpcType'
    BY <1>2, MgrFacts, PodFacts, <1>a, AttachType, DeleteType, BackupType, PutIpType, TypeOK,
       LocalInv DEF VpcType, vpcVars, RecvDel
  <2>2. CoolType'
    BY <1>2, MgrFacts, PodFacts, <1>a, TypeOK, LocalInv DEF CoolType, coolVars, RecvDel
  <2>3. MgrType'
    BY <1>2, MgrFacts, PodFacts, <1>a, FinishType, ReplyType, NetworkType, CandidatesType,
       TypeOK, LocalInv DEF MgrType, mgrVars, job, borrow, Goto, ResetLocals, MgrPC, RecvDel
  <2>4. PodType'
    BY <1>2, MgrFacts, PodFacts, <1>a, ReplyType, TypeOK, LocalInv DEF PodType, PodState,
       PodIdle, RecvDel
  <2>5. faults' \in 0..MaxFaults
    BY <1>2, <1>f, FaultType, SpendType DEF history, RecvDel
  <2>6. hazards' \in SUBSET Hazard
    BY <1>2, <1>f DEF Hazard, PopDelete, history, RecvDel
  <2>u. UNCHANGED <<poolVars, cr, lend>>
    BY <1>2 DEF RecvDel, history
  <2> QED
    BY <2>1, <2>2, <2>3, <2>4, <2>5, <2>6, <2>u, <1>f, TypeUnchanged, TypeOK DEF TypeOK
<1>3. ASSUME NEW n \in Node, WatermarkTick(n) PROVE TypeOK'
  <2>1. MgrType'
    <3>1. pc' \in [Node -> MgrPC]
      BY <1>3, <1>a, TypeOK, LocalInv DEF MgrType, WatermarkTick, Goto, Finish, ResetLocals,
         ReplyError, Skip, MgrPC
    <3>2. hand' \in [Node -> PodNetwork]
      BY <1>3, <1>a, MgrFacts, NetworkType, TypeOK, LocalInv DEF MgrType, WatermarkTick, Goto,
         Finish, ResetLocals, ReplyError, Skip, PoolType, CoolType
    <3>3. req' \in [Node -> Pod \cup {NoPod}]
      BY <1>3, <1>a, TypeOK, LocalInv DEF MgrType, WatermarkTick, Goto, Finish, ResetLocals,
         ReplyError, Skip, job
    <3>4. left' \in [Node -> Nat]
      BY <1>3, <1>a, MgrFacts, <1>c, ConstAssumption, TypeOK, LocalInv DEF MgrType,
         WatermarkTick, Goto, Finish, ResetLocals, ReplyError, Skip, job, toRelease
    <3>5. cands' \in [Node -> Candidates]
      BY <1>3, <1>a, CandidatesType, SkipType, TypeOK, LocalInv DEF MgrType, WatermarkTick,
         Goto, Finish, ResetLocals, ReplyError, borrow
    <3>6. peer' \in [Node -> Node \cup {NoNode}]
      BY <1>3, <1>a, MgrFacts, TypeOK, LocalInv DEF MgrType, WatermarkTick, Goto, Finish,
         ResetLocals, ReplyError, Skip, borrow
    <3> QED
      BY <3>1, <3>2, <3>3, <3>4, <3>5, <3>6 DEF MgrType
  <2>u. UNCHANGED <<vpcVars, poolVars, coolVars, cr, lend, pod, faults, hazards>>
    BY <1>3 DEF WatermarkTick, history
  <2> QED
    BY <2>1, <2>u, <1>f, TypeUnchanged, TypeOK DEF TypeOK
<1>4. ASSUME NEW n \in Node, CooldownTick(n) PROVE TypeOK'
  <2>1. MgrType'
    BY <1>4, MgrFacts, <1>a, FinishType, ReplyType, NetworkType, CandidatesType, TypeOK,
       LocalInv DEF MgrType, mgrVars, job, borrow, Goto, ResetLocals, MgrPC, CooldownTick
  <2>u. UNCHANGED <<vpcVars, poolVars, coolVars, cr, lend, pod, faults, hazards>>
    BY <1>4 DEF CooldownTick, history
  <2> QED
    BY <2>1, <2>u, <1>f, TypeUnchanged, TypeOK DEF TypeOK
<1>5. ASSUME NEW n \in Node, MgrPopView(n) PROVE TypeOK'
  <2>1. MgrType'
    <3>1. pc' \in [Node -> MgrPC]
      BY <1>5, <1>a, TypeOK, LocalInv DEF MgrType, MgrPopView, Goto, Finish, ResetLocals,
         ReplyError, Skip, MgrPC
    <3>2. hand' \in [Node -> PodNetwork]
      BY <1>5, <1>a, MgrFacts, NetworkType, TypeOK, LocalInv DEF MgrType, MgrPopView, Goto,
         Finish, ResetLocals, ReplyError, Skip, PoolType, CoolType
    <3>3. req' \in [Node -> Pod \cup {NoPod}]
      BY <1>5, <1>a, TypeOK, LocalInv DEF MgrType, MgrPopView, Goto, Finish, ResetLocals,
         ReplyError, Skip, job
    <3>4. left' \in [Node -> Nat]
      BY <1>5, <1>a, MgrFacts, <1>c, ConstAssumption, TypeOK, LocalInv DEF MgrType, MgrPopView,
         Goto, Finish, ResetLocals, ReplyError, Skip, job, toRelease
    <3>5. cands' \in [Node -> Candidates]
      BY <1>5, <1>a, CandidatesType, SkipType, TypeOK, LocalInv DEF MgrType, MgrPopView, Goto,
         Finish, ResetLocals, ReplyError, borrow
    <3>6. peer' \in [Node -> Node \cup {NoNode}]
      BY <1>5, <1>a, MgrFacts, TypeOK, LocalInv DEF MgrType, MgrPopView, Goto, Finish,
         ResetLocals, ReplyError, Skip, borrow
    <3> QED
      BY <3>1, <3>2, <3>3, <3>4, <3>5, <3>6 DEF MgrType
  <2>u. UNCHANGED <<vpcVars, poolVars, coolVars, cr, lend, pod, faults, hazards>>
    BY <1>5 DEF MgrPopView, history
  <2> QED
    BY <2>1, <2>u, <1>f, TypeUnchanged, TypeOK DEF TypeOK
<1>6. ASSUME NEW n \in Node, MgrPopDelete(n) PROVE TypeOK'
  <2>1. PoolType'
    BY <1>6, MgrFacts, <1>a, PoolPutType, PutIpType, BackupPushType, TypeOK, LocalInv DEF
       PoolType, poolVars, PopDelete, MgrPopDelete
  <2>2. MgrType'
    BY <1>6, MgrFacts, <1>a, FinishType, ReplyType, NetworkType, CandidatesType, TypeOK,
       LocalInv DEF MgrType, mgrVars, job, borrow, Goto, ResetLocals, MgrPC, MgrPopDelete
  <2>3. hazards' \in SUBSET Hazard
    BY <1>6, <1>f DEF Hazard, PopDelete, history, MgrPopDelete
  <2>u. UNCHANGED <<vpcVars, coolVars, cr, lend, pod, faults>>
    BY <1>6 DEF MgrPopDelete, history
  <2> QED
    BY <2>1, <2>2, <2>3, <2>u, <1>f, TypeUnchanged, TypeOK DEF TypeOK
<1>7. ASSUME NEW n \in Node, MgrPopError(n) PROVE TypeOK'
  <2>1. MgrType'
    BY <1>7, MgrFacts, <1>a, FinishType, ReplyType, NetworkType, CandidatesType, TypeOK,
       LocalInv DEF MgrType, mgrVars, job, borrow, Goto, ResetLocals, MgrPC, MgrPopError
  <2>2. PodType'
    BY <1>7, MgrFacts, <1>a, ReplyType, TypeOK, LocalInv DEF PodType, PodState, PodIdle,
       MgrPopError
  <2>3. faults' \in 0..MaxFaults
    BY <1>7, <1>f, FaultType, SpendType DEF history, MgrPopError
  <2>u. UNCHANGED <<vpcVars, poolVars, coolVars, cr, lend, hazards>>
    BY <1>7 DEF MgrPopError, history
  <2> QED
    BY <2>1, <2>2, <2>3, <2>u, <1>f, TypeUnchanged, TypeOK DEF TypeOK
<1>8. ASSUME NEW n \in Node, uapiAllocateSecondaryIP(n) PROVE TypeOK'
  <2>1. VpcType'
    BY <1>8, MgrFacts, <1>a, AttachType, DeleteType, BackupType, PutIpType, TypeOK, LocalInv
       DEF VpcType, vpcVars, uapiAllocateSecondaryIP
  <2>2. MgrType'
    <3>1. pc' \in [Node -> MgrPC]
      BY <1>8, <1>a, TypeOK, LocalInv DEF MgrType, uapiAllocateSecondaryIP, Goto, Finish,
         ResetLocals, ReplyError, Skip, MgrPC
    <3>2. hand' \in [Node -> PodNetwork]
      BY <1>8, <1>a, MgrFacts, NetworkType, TypeOK, LocalInv DEF MgrType,
         uapiAllocateSecondaryIP, Goto, Finish, ResetLocals, ReplyError, Skip, PoolType,
         CoolType
    <3>3. req' \in [Node -> Pod \cup {NoPod}]
      BY <1>8, <1>a, TypeOK, LocalInv DEF MgrType, uapiAllocateSecondaryIP, Goto, Finish,
         ResetLocals, ReplyError, Skip, job
    <3>4. left' \in [Node -> Nat]
      BY <1>8, <1>a, MgrFacts, <1>c, ConstAssumption, TypeOK, LocalInv DEF MgrType,
         uapiAllocateSecondaryIP, Goto, Finish, ResetLocals, ReplyError, Skip, job, toRelease
    <3>5. cands' \in [Node -> Candidates]
      BY <1>8, <1>a, CandidatesType, SkipType, TypeOK, LocalInv DEF MgrType,
         uapiAllocateSecondaryIP, Goto, Finish, ResetLocals, ReplyError, borrow
    <3>6. peer' \in [Node -> Node \cup {NoNode}]
      BY <1>8, <1>a, MgrFacts, TypeOK, LocalInv DEF MgrType, uapiAllocateSecondaryIP, Goto,
         Finish, ResetLocals, ReplyError, Skip, borrow
    <3> QED
      BY <3>1, <3>2, <3>3, <3>4, <3>5, <3>6 DEF MgrType
  <2>3. PodType'
    BY <1>8, MgrFacts, <1>a, ReplyType, TypeOK, LocalInv DEF PodType, PodState, PodIdle,
       uapiAllocateSecondaryIP
  <2>4. faults' \in 0..MaxFaults
    BY <1>8, <1>f, FaultType, SpendType DEF history, uapiAllocateSecondaryIP
  <2>u. UNCHANGED <<poolVars, coolVars, cr, lend, hazards>>
    BY <1>8 DEF uapiAllocateSecondaryIP, history
  <2> QED
    BY <2>1, <2>2, <2>3, <2>4, <2>u, <1>f, TypeUnchanged, TypeOK DEF TypeOK
<1>9. ASSUME NEW n \in Node, checkSecondaryIpExist(n) PROVE TypeOK'
  <2>1. VpcType'
    BY <1>9, MgrFacts, <1>a, AttachType, DeleteType, BackupType, PutIpType, TypeOK, LocalInv
       DEF VpcType, vpcVars, checkSecondaryIpExist
  <2>2. PoolType'
    BY <1>9, MgrFacts, <1>a, PoolPutType, PutIpType, BackupPushType, TypeOK, LocalInv DEF
       PoolType, poolVars, PopDelete, checkSecondaryIpExist
  <2>3. MgrType'
    BY <1>9, MgrFacts, <1>a, FinishType, ReplyType, NetworkType, CandidatesType, TypeOK,
       LocalInv DEF MgrType, mgrVars, job, borrow, Goto, ResetLocals, MgrPC,
       checkSecondaryIpExist
  <2>4. PodType'
    BY <1>9, MgrFacts, <1>a, ReplyType, TypeOK, LocalInv DEF PodType, PodState, PodIdle,
       checkSecondaryIpExist
  <2>5. faults' \in 0..MaxFaults
    BY <1>9, <1>f, FaultType, SpendType DEF history, checkSecondaryIpExist
  <2>u. UNCHANGED <<coolVars, cr, lend, hazards>>
    BY <1>9 DEF checkSecondaryIpExist, history
  <2> QED
    BY <2>1, <2>2, <2>3, <2>4, <2>5, <2>u, <1>f, TypeUnchanged, TypeOK DEF TypeOK
<1>10. ASSUME NEW n \in Node, checkIPConflict(n) PROVE TypeOK'
  <2>1. VpcType'
    BY <1>10, MgrFacts, <1>a, AttachType, DeleteType, BackupType, PutIpType, TypeOK, LocalInv
       DEF VpcType, vpcVars, checkIPConflict
  <2>2. MgrType'
    BY <1>10, MgrFacts, <1>a, FinishType, ReplyType, NetworkType, CandidatesType, TypeOK,
       LocalInv DEF MgrType, mgrVars, job, borrow, Goto, ResetLocals, MgrPC, checkIPConflict
  <2>3. PodType'
    BY <1>10, MgrFacts, <1>a, ReplyType, TypeOK, LocalInv DEF PodType, PodState, PodIdle,
       checkIPConflict
  <2>4. faults' \in 0..MaxFaults
    BY <1>10, <1>f, FaultType, SpendType DEF history, checkIPConflict
  <2>u. UNCHANGED <<poolVars, coolVars, cr, lend, hazards>>
    BY <1>10 DEF checkIPConflict, history
  <2> QED
    BY <2>1, <2>2, <2>3, <2>4, <2>u, <1>f, TypeUnchanged, TypeOK DEF TypeOK
<1>11. ASSUME NEW n \in Node, releasePool(n) PROVE TypeOK'
  <2>1. VpcType'
    BY <1>11, MgrFacts, <1>a, AttachType, DeleteType, BackupType, PutIpType, TypeOK, LocalInv
       DEF VpcType, vpcVars, releasePool
  <2>2. PoolType'
    BY <1>11, MgrFacts, <1>a, PoolPutType, PutIpType, BackupPushType, TypeOK, LocalInv DEF
       PoolType, poolVars, PopDelete, releasePool
  <2>3. MgrType'
    <3>1. pc' \in [Node -> MgrPC]
      BY <1>11, <1>a, TypeOK, LocalInv DEF MgrType, releasePool, Goto, Finish, ResetLocals,
         ReplyError, Skip, MgrPC
    <3>2. hand' \in [Node -> PodNetwork]
      BY <1>11, <1>a, MgrFacts, NetworkType, TypeOK, LocalInv DEF MgrType, releasePool, Goto,
         Finish, ResetLocals, ReplyError, Skip, PoolType, CoolType
    <3>3. req' \in [Node -> Pod \cup {NoPod}]
      BY <1>11, <1>a, TypeOK, LocalInv DEF MgrType, releasePool, Goto, Finish, ResetLocals,
         ReplyError, Skip, job
    <3>4. left' \in [Node -> Nat]
      BY <1>11, <1>a, MgrFacts, <1>c, ConstAssumption, TypeOK, LocalInv DEF MgrType,
         releasePool, Goto, Finish, ResetLocals, ReplyError, Skip, job, toRelease
    <3>5. cands' \in [Node -> Candidates]
      BY <1>11, <1>a, CandidatesType, SkipType, TypeOK, LocalInv DEF MgrType, releasePool,
         Goto, Finish, ResetLocals, ReplyError, borrow
    <3>6. peer' \in [Node -> Node \cup {NoNode}]
      BY <1>11, <1>a, MgrFacts, TypeOK, LocalInv DEF MgrType, releasePool, Goto, Finish,
         ResetLocals, ReplyError, Skip, borrow
    <3> QED
      BY <3>1, <3>2, <3>3, <3>4, <3>5, <3>6 DEF MgrType
  <2>4. faults' \in 0..MaxFaults
    BY <1>11, <1>f, FaultType, SpendType DEF history, releasePool
  <2>5. hazards' \in SUBSET Hazard
    BY <1>11, <1>f DEF Hazard, PopDelete, history, releasePool
  <2>u. UNCHANGED <<coolVars, cr, lend, pod>>
    BY <1>11 DEF releasePool, history
  <2> QED
    BY <2>1, <2>2, <2>3, <2>4, <2>5, <2>u, <1>f, TypeUnchanged, TypeOK DEF TypeOK
<1>12. ASSUME NEW n \in Node, RecycleDelete(n) PROVE TypeOK'
  <2>1. CoolType'
    BY <1>12, MgrFacts, <1>a, TypeOK, LocalInv DEF CoolType, coolVars, RecycleDelete
  <2>2. MgrType'
    <3>1. pc' \in [Node -> MgrPC]
      BY <1>12, <1>a, TypeOK, LocalInv DEF MgrType, RecycleDelete, Goto, Finish, ResetLocals,
         ReplyError, Skip, MgrPC
    <3>2. hand' \in [Node -> PodNetwork]
      BY <1>12, <1>a, MgrFacts, NetworkType, TypeOK, LocalInv DEF MgrType, RecycleDelete, Goto,
         Finish, ResetLocals, ReplyError, Skip, PoolType, CoolType
    <3>3. req' \in [Node -> Pod \cup {NoPod}]
      BY <1>12, <1>a, TypeOK, LocalInv DEF MgrType, RecycleDelete, Goto, Finish, ResetLocals,
         ReplyError, Skip, job
    <3>4. left' \in [Node -> Nat]
      BY <1>12, <1>a, MgrFacts, <1>c, ConstAssumption, TypeOK, LocalInv DEF MgrType,
         RecycleDelete, Goto, Finish, ResetLocals, ReplyError, Skip, job, toRelease
    <3>5. cands' \in [Node -> Candidates]
      BY <1>12, <1>a, CandidatesType, SkipType, TypeOK, LocalInv DEF MgrType, RecycleDelete,
         Goto, Finish, ResetLocals, ReplyError, borrow
    <3>6. peer' \in [Node -> Node \cup {NoNode}]
      BY <1>12, <1>a, MgrFacts, TypeOK, LocalInv DEF MgrType, RecycleDelete, Goto, Finish,
         ResetLocals, ReplyError, Skip, borrow
    <3> QED
      BY <3>1, <3>2, <3>3, <3>4, <3>5, <3>6 DEF MgrType
  <2>3. faults' \in 0..MaxFaults
    BY <1>12, <1>f, FaultType, SpendType DEF history, RecycleDelete
  <2>u. UNCHANGED <<vpcVars, poolVars, cr, lend, pod, hazards>>
    BY <1>12 DEF RecycleDelete, history
  <2> QED
    BY <2>1, <2>2, <2>3, <2>u, <1>f, TypeUnchanged, TypeOK DEF TypeOK
<1>13. ASSUME NEW n \in Node, RecyclePut(n) PROVE TypeOK'
  <2>1. VpcType'
    BY <1>13, MgrFacts, <1>a, AttachType, DeleteType, BackupType, PutIpType, TypeOK, LocalInv
       DEF VpcType, vpcVars, RecyclePut
  <2>2. PoolType'
    BY <1>13, MgrFacts, <1>a, PoolPutType, PutIpType, BackupPushType, TypeOK, LocalInv DEF
       PoolType, poolVars, PopDelete, RecyclePut
  <2>3. MgrType'
    BY <1>13, MgrFacts, <1>a, FinishType, ReplyType, NetworkType, CandidatesType, TypeOK,
       LocalInv DEF MgrType, mgrVars, job, borrow, Goto, ResetLocals, MgrPC, RecyclePut
  <2>4. faults' \in 0..MaxFaults
    BY <1>13, <1>f, FaultType, SpendType DEF history, RecyclePut
  <2>u. UNCHANGED <<coolVars, cr, lend, pod, hazards>>
    BY <1>13 DEF RecyclePut, history
  <2> QED
    BY <2>1, <2>2, <2>3, <2>4, <2>u, <1>f, TypeUnchanged, TypeOK DEF TypeOK
<1>14. ASSUME NEW n \in Node, updateStatus(n) PROVE TypeOK'
  <2>1. MgrType'
    BY <1>14, MgrFacts, <1>a, FinishType, ReplyType, NetworkType, CandidatesType, TypeOK,
       LocalInv DEF MgrType, mgrVars, job, borrow, Goto, ResetLocals, MgrPC, updateStatus
  <2>2. cr' \in [Node -> Nat \cup {NoCR}]
    BY <1>14, <1>c, <1>f DEF updateStatus
  <2>3. faults' \in 0..MaxFaults
    BY <1>14, <1>f, FaultType, SpendType DEF history, updateStatus
  <2>u. UNCHANGED <<vpcVars, poolVars, coolVars, lend, pod, hazards>>
    BY <1>14 DEF updateStatus, history
  <2> QED
    BY <2>1, <2>2, <2>3, <2>u, <1>f, TypeUnchanged, TypeOK DEF TypeOK
<1>15. ASSUME NEW n \in Node, ListIpamds(n) PROVE TypeOK'
  <2>1. MgrType'
    <3>1. pc' \in [Node -> MgrPC]
      BY <1>15, <1>a, TypeOK, LocalInv DEF MgrType, ListIpamds, Goto, Finish, ResetLocals,
         ReplyError, Skip, MgrPC
    <3>2. hand' \in [Node -> PodNetwork]
      BY <1>15, <1>a, MgrFacts, NetworkType, TypeOK, LocalInv DEF MgrType, ListIpamds, Goto,
         Finish, ResetLocals, ReplyError, Skip, PoolType, CoolType
    <3>3. req' \in [Node -> Pod \cup {NoPod}]
      BY <1>15, <1>a, TypeOK, LocalInv DEF MgrType, ListIpamds, Goto, Finish, ResetLocals,
         ReplyError, Skip, job
    <3>4. left' \in [Node -> Nat]
      BY <1>15, <1>a, MgrFacts, <1>c, ConstAssumption, TypeOK, LocalInv DEF MgrType,
         ListIpamds, Goto, Finish, ResetLocals, ReplyError, Skip, job, toRelease
    <3>5. cands' \in [Node -> Candidates]
      BY <1>15, <1>a, CandidatesType, SkipType, TypeOK, LocalInv DEF MgrType, ListIpamds, Goto,
         Finish, ResetLocals, ReplyError, borrow
    <3>6. peer' \in [Node -> Node \cup {NoNode}]
      BY <1>15, <1>a, MgrFacts, TypeOK, LocalInv DEF MgrType, ListIpamds, Goto, Finish,
         ResetLocals, ReplyError, Skip, borrow
    <3> QED
      BY <3>1, <3>2, <3>3, <3>4, <3>5, <3>6 DEF MgrType
  <2>2. PodType'
    BY <1>15, MgrFacts, <1>a, ReplyType, TypeOK, LocalInv DEF PodType, PodState, PodIdle,
       ListIpamds
  <2>3. faults' \in 0..MaxFaults
    BY <1>15, <1>f, FaultType, SpendType DEF history, ListIpamds
  <2>u. UNCHANGED <<vpcVars, poolVars, coolVars, cr, lend, hazards>>
    BY <1>15 DEF ListIpamds, history
  <2> QED
    BY <2>1, <2>2, <2>3, <2>u, <1>f, TypeUnchanged, TypeOK DEF TypeOK
<1>16. ASSUME NEW n \in Node, BorrowCall(n) PROVE TypeOK'
  <2>1. MgrType'
    <3>1. pc' \in [Node -> MgrPC]
      BY <1>16, <1>a, MgrFacts, TypeOK, LocalInv DEF MgrType, BorrowCall, Goto, Finish,
         ResetLocals, ReplyError, Skip, MgrPC
    <3>2. hand' \in [Node -> PodNetwork]
      BY <1>16, <1>a, MgrFacts, NetworkType, TypeOK, LocalInv DEF MgrType, BorrowCall, Goto,
         Finish, ResetLocals, ReplyError, Skip, PoolType, CoolType
    <3>3. req' \in [Node -> Pod \cup {NoPod}]
      BY <1>16, <1>a, MgrFacts, TypeOK, LocalInv DEF MgrType, BorrowCall, Goto, Finish,
         ResetLocals, ReplyError, Skip, job
    <3>4. left' \in [Node -> Nat]
      BY <1>16, <1>a, MgrFacts, <1>c, ConstAssumption, TypeOK, LocalInv DEF MgrType,
         BorrowCall, Goto, Finish, ResetLocals, ReplyError, Skip, job, toRelease
    <3>5. cands' \in [Node -> Candidates]
      BY <1>16, <1>a, MgrFacts, CandidatesType, SkipType, TypeOK, LocalInv, SMTT(30) DEF MgrType,
         BorrowCall, Goto, Finish, ResetLocals, ReplyError, borrow
    <3>6. peer' \in [Node -> Node \cup {NoNode}]
      BY <1>16, <1>a, MgrFacts, TypeOK, LocalInv DEF MgrType, BorrowCall, Goto, Finish,
         ResetLocals, ReplyError, Skip, borrow
    <3> QED
      BY <3>1, <3>2, <3>3, <3>4, <3>5, <3>6 DEF MgrType
  <2>2. LendType'
    BY <1>16, MgrFacts, <1>a, LendStateType, SetLendType, NetworkType, TypeOK, LocalInv DEF
       LendType, BorrowCall
  <2>3. PodType'
    BY <1>16, MgrFacts, <1>a, ReplyType, TypeOK, LocalInv DEF PodType, PodState, PodIdle,
       BorrowCall
  <2>u. UNCHANGED <<vpcVars, poolVars, coolVars, cr, faults, hazards>>
    BY <1>16 DEF BorrowCall, history
  <2> QED
    BY <2>1, <2>2, <2>3, <2>u, <1>f, TypeUnchanged, TypeOK DEF TypeOK
<1>17. ASSUME NEW n \in Node, BorrowReturn(n) PROVE TypeOK'
  <2>p. peer[n] \in Node /\ pc[n] = "rpc"
    BY <1>17, MgrFacts DEF BorrowReturn
  <2>l. /\ lend[peer[n]][n].ip \in IP \cup {NoIP}
        /\ Borrowed(lend[peer[n]][n]) \in PodNetwork
    BY <2>p, LendFacts, NetworkType DEF Borrowed
  <2>1. MgrType'
    <3>1. pc' \in [Node -> MgrPC]
      BY <1>17, <1>a, MgrFacts, <2>p, <2>l, TypeOK, LocalInv DEF MgrType, BorrowReturn, Goto,
         Finish, ResetLocals, ReplyError, Skip, MgrPC
    <3>2. hand' \in [Node -> PodNetwork]
      BY <1>17, <1>a, MgrFacts, <2>p, <2>l, NetworkType, TypeOK, LocalInv DEF MgrType,
         BorrowReturn, Goto, Finish, ResetLocals, ReplyError, Skip, PoolType, CoolType
    <3>3. req' \in [Node -> Pod \cup {NoPod}]
      BY <1>17, <1>a, MgrFacts, <2>p, <2>l, TypeOK, LocalInv DEF MgrType, BorrowReturn, Goto,
         Finish, ResetLocals, ReplyError, Skip, job
    <3>4. left' \in [Node -> Nat]
      BY <1>17, <1>a, MgrFacts, <2>p, <2>l, <1>c, ConstAssumption, TypeOK, LocalInv DEF
         MgrType, BorrowReturn, Goto, Finish, ResetLocals, ReplyError, Skip, job, toRelease
    <3>5. cands' \in [Node -> Candidates]
      BY <1>17, <1>a, MgrFacts, <2>p, <2>l, CandidatesType, SkipType, TypeOK, LocalInv DEF
         MgrType, BorrowReturn, Goto, Finish, ResetLocals, ReplyError, borrow
    <3>6. peer' \in [Node -> Node \cup {NoNode}]
      BY <1>17, <1>a, MgrFacts, <2>p, <2>l, TypeOK, LocalInv DEF MgrType, BorrowReturn, Goto,
         Finish, ResetLocals, ReplyError, Skip, borrow
    <3> QED
      BY <3>1, <3>2, <3>3, <3>4, <3>5, <3>6 DEF MgrType
  <2>2. LendType'
    BY <1>17, MgrFacts, <1>a, LendStateType, SetLendType, NetworkType, TypeOK, LocalInv DEF
       LendType, BorrowReturn
  <2>u. UNCHANGED <<vpcVars, poolVars, coolVars, cr, pod, faults, hazards>>
    BY <1>17 DEF BorrowReturn, history
  <2> QED
    BY <2>1, <2>2, <2>u, <1>f, TypeUnchanged, TypeOK DEF TypeOK
<1>18. ASSUME NEW n \in Node, BorrowTimeout(n) PROVE TypeOK'
  <2>1. MgrType'
    <3>1. pc' \in [Node -> MgrPC]
      BY <1>18, <1>a, MgrFacts, TypeOK, LocalInv DEF MgrType, BorrowTimeout, Goto, Finish,
         ResetLocals, ReplyError, Skip, MgrPC
    <3>2. hand' \in [Node -> PodNetwork]
      BY <1>18, <1>a, MgrFacts, NetworkType, TypeOK, LocalInv DEF MgrType, BorrowTimeout, Goto,
         Finish, ResetLocals, ReplyError, Skip, PoolType, CoolType
    <3>3. req' \in [Node -> Pod \cup {NoPod}]
      BY <1>18, <1>a, MgrFacts, TypeOK, LocalInv DEF MgrType, BorrowTimeout, Goto, Finish,
         ResetLocals, ReplyError, Skip, job
    <3>4. left' \in [Node -> Nat]
      BY <1>18, <1>a, MgrFacts, <1>c, ConstAssumption, TypeOK, LocalInv DEF MgrType,
         BorrowTimeout, Goto, Finish, ResetLocals, ReplyError, Skip, job, toRelease
    <3>5. cands' \in [Node -> Candidates]
      BY <1>18, <1>a, MgrFacts, CandidatesType, SkipType, TypeOK, LocalInv DEF MgrType,
         BorrowTimeout, Goto, Finish, ResetLocals, ReplyError, borrow
    <3>6. peer' \in [Node -> Node \cup {NoNode}]
      BY <1>18, <1>a, MgrFacts, TypeOK, LocalInv DEF MgrType, BorrowTimeout, Goto, Finish,
         ResetLocals, ReplyError, Skip, borrow
    <3> QED
      BY <3>1, <3>2, <3>3, <3>4, <3>5, <3>6 DEF MgrType
  <2>2. faults' \in 0..MaxFaults
    BY <1>18, <1>f, FaultType, SpendType DEF history, BorrowTimeout
  <2>u. UNCHANGED <<vpcVars, poolVars, coolVars, cr, lend, pod, hazards>>
    BY <1>18 DEF BorrowTimeout, history
  <2> QED
    BY <2>1, <2>2, <2>u, <1>f, TypeUnchanged, TypeOK DEF TypeOK
<1>19. ASSUME NEW n \in Node, Crash(n) PROVE TypeOK'
  <2>1. PoolType'
    BY <1>19, MgrFacts, <1>a, PoolPutType, PutIpType, BackupPushType, TypeOK, LocalInv DEF
       PoolType, poolVars, PopDelete, Crash
  <2>2. MgrType'
    BY <1>19, MgrFacts, <1>a, FinishType, ReplyType, NetworkType, CandidatesType, TypeOK,
       LocalInv DEF MgrType, mgrVars, job, borrow, Goto, ResetLocals, MgrPC, Crash
  <2>3. LendType'
    BY <1>19, MgrFacts, <1>a, LendStateType, SetLendType, NetworkType, TypeOK, LocalInv DEF
       LendType, Crash
  <2>4. PodType'
    BY <1>19, MgrFacts, <1>a, ReplyType, TypeOK, LocalInv DEF PodType, PodState, PodIdle, Crash
  <2>5. faults' \in 0..MaxFaults
    BY <1>19, <1>f, FaultType, SpendType DEF history, Crash
  <2>u. UNCHANGED <<vpcVars, coolVars, cr, hazards>>
    BY <1>19 DEF Crash, history
  <2> QED
    BY <2>1, <2>2, <2>3, <2>4, <2>5, <2>u, <1>f, TypeUnchanged, TypeOK DEF TypeOK
<1>20. ASSUME NEW n \in Node, Restart(n) PROVE TypeOK'
  <2>1. MgrType'
    BY <1>20, MgrFacts, <1>a, FinishType, ReplyType, NetworkType, CandidatesType, TypeOK,
       LocalInv DEF MgrType, mgrVars, job, borrow, Goto, ResetLocals, MgrPC, Restart
  <2>u. UNCHANGED <<vpcVars, poolVars, coolVars, cr, lend, pod, faults, hazards>>
    BY <1>20 DEF Restart, history
  <2> QED
    BY <2>1, <2>u, <1>f, TypeUnchanged, TypeOK DEF TypeOK
<1>21. ASSUME NEW n \in Node, NEW i \in IP, CooldownOver(n, i) PROVE TypeOK'
  <2>1. CoolType'
    BY <1>21, MgrFacts, <1>a, TypeOK, LocalInv DEF CoolType, coolVars, CooldownOver
  <2>u. UNCHANGED <<vpcVars, poolVars, cr, mgrVars, lend, pod, faults, hazards>>
    BY <1>21 DEF CooldownOver, history
  <2> QED
    BY <2>1, <2>u, <1>f, TypeUnchanged, TypeOK DEF TypeOK
<1>22. ASSUME NEW l \in Node, NEW b \in Node, LendPopView(l, b) PROVE TypeOK'
  <2>1. LendType'
    BY <1>22, LendFacts, <1>a, LendStateType, SetLendType, NetworkType, TypeOK, LocalInv DEF
       LendType, PoolType, LendPopView
  <2>u. UNCHANGED <<vpcVars, poolVars, coolVars, cr, mgrVars, pod, faults, hazards>>
    BY <1>22 DEF LendPopView, history
  <2> QED
    BY <2>1, <2>u, <1>f, TypeUnchanged, TypeOK DEF TypeOK
<1>23. ASSUME NEW l \in Node, NEW b \in Node, LendPopDelete(l, b) PROVE TypeOK'
  <2>1. PoolType'
    BY <1>23, LendFacts, <1>a, PoolPutType, PutIpType, BackupPushType, TypeOK, LocalInv DEF
       PoolType, poolVars, PopDelete, LendPopDelete
  <2>2. LendType'
    BY <1>23, LendFacts, <1>a, LendStateType, SetLendType, NetworkType, TypeOK, LocalInv DEF
       LendType, LendPopDelete
  <2>3. hazards' \in SUBSET Hazard
    BY <1>23, <1>f DEF Hazard, PopDelete, history, LendPopDelete
  <2>u. UNCHANGED <<vpcVars, coolVars, cr, mgrVars, pod, faults>>
    BY <1>23 DEF LendPopDelete, history
  <2> QED
    BY <2>1, <2>2, <2>3, <2>u, <1>f, TypeUnchanged, TypeOK DEF TypeOK
<1>24. ASSUME NEW l \in Node, NEW b \in Node, LendPopError(l, b) PROVE TypeOK'
  <2>1. LendType'
    BY <1>24, LendFacts, <1>a, LendStateType, SetLendType, NetworkType, TypeOK, LocalInv DEF
       LendType, LendPopError
  <2>2. faults' \in 0..MaxFaults
    BY <1>24, <1>f, FaultType, SpendType DEF history, LendPopError
  <2>u. UNCHANGED <<vpcVars, poolVars, coolVars, cr, mgrVars, pod, hazards>>
    BY <1>24 DEF LendPopError, history
  <2> QED
    BY <2>1, <2>2, <2>u, <1>f, TypeUnchanged, TypeOK DEF TypeOK
<1>25. ASSUME NEW l \in Node, NEW b \in Node, uapiMoveSecondaryIPMac(l, b) PROVE TypeOK'
  <2>1. VpcType'
    BY <1>25, LendFacts, <1>a, AttachType, DeleteType, BackupType, PutIpType, TypeOK, LocalInv
       DEF VpcType, vpcVars, uapiMoveSecondaryIPMac
  <2>2. PoolType'
    BY <1>25, LendFacts, <1>a, PoolPutType, PutIpType, BackupPushType, TypeOK, LocalInv DEF
       PoolType, poolVars, PopDelete, uapiMoveSecondaryIPMac
  <2>3. LendType'
    BY <1>25, LendFacts, <1>a, LendStateType, SetLendType, NetworkType, TypeOK, LocalInv DEF
       LendType, uapiMoveSecondaryIPMac
  <2>4. faults' \in 0..MaxFaults
    BY <1>25, <1>f, FaultType, SpendType DEF history, uapiMoveSecondaryIPMac
  <2>u. UNCHANGED <<coolVars, cr, mgrVars, pod, hazards>>
    BY <1>25 DEF uapiMoveSecondaryIPMac, history
  <2> QED
    BY <2>1, <2>2, <2>3, <2>4, <2>u, <1>f, TypeUnchanged, TypeOK DEF TypeOK
<1>26. ASSUME NEW l \in Node, NEW b \in Node, LendDropped(l, b) PROVE TypeOK'
  <2>1. LendType'
    BY <1>26, LendFacts, <1>a, LendStateType, SetLendType, NetworkType, TypeOK, LocalInv DEF
       LendType, LendDropped
  <2>u. UNCHANGED <<vpcVars, poolVars, coolVars, cr, mgrVars, pod, faults, hazards>>
    BY <1>26 DEF LendDropped, history
  <2> QED
    BY <2>1, <2>u, <1>f, TypeUnchanged, TypeOK DEF TypeOK
<1>27. ASSUME NEW p \in Pod, AddPodNetwork(p) PROVE TypeOK'
  <2>1. PodType'
    BY <1>27, PodFacts, <1>a, ReplyType, TypeOK, LocalInv DEF PodType, PodState, PodIdle,
       AddPodNetwork
  <2>u. UNCHANGED <<vpcVars, poolVars, coolVars, cr, mgrVars, lend, faults, hazards>>
    BY <1>27 DEF AddPodNetwork, history
  <2> QED
    BY <2>1, <2>u, <1>f, TypeUnchanged, TypeOK DEF TypeOK
<1>28. ASSUME NEW p \in Pod, AnswerAdd(p) PROVE TypeOK'
  <2>1. VpcType'
    BY <1>28, PodFacts, <1>a, AttachType, DeleteType, BackupType, PutIpType, TypeOK, LocalInv
       DEF VpcType, vpcVars, AnswerAdd
  <2>2. PodType'
    BY <1>28, PodFacts, <1>a, ReplyType, TypeOK, LocalInv DEF PodType, PodState, PodIdle,
       AnswerAdd
  <2>3. faults' \in 0..MaxFaults
    BY <1>28, <1>f, FaultType, SpendType DEF history, AnswerAdd
  <2>u. UNCHANGED <<poolVars, coolVars, cr, mgrVars, lend, hazards>>
    BY <1>28 DEF AnswerAdd, history
  <2> QED
    BY <2>1, <2>2, <2>3, <2>u, <1>f, TypeUnchanged, TypeOK DEF TypeOK
<1>29. ASSUME NEW p \in Pod, DelPodNetwork(p) PROVE TypeOK'
  <2>1. PodType'
    BY <1>29, PodFacts, <1>a, ReplyType, TypeOK, LocalInv DEF PodType, PodState, PodIdle,
       DelPodNetwork
  <2>u. UNCHANGED <<vpcVars, poolVars, coolVars, cr, mgrVars, lend, faults, hazards>>
    BY <1>29 DEF DelPodNetwork, history
  <2> QED
    BY <2>1, <2>u, <1>f, TypeUnchanged, TypeOK DEF TypeOK
<1> QED
  BY <1>1, <1>2, <1>3, <1>4, <1>5, <1>6, <1>7, <1>8, <1>9, <1>10, <1>11, <1>12, <1>13, <1>14,
     <1>15, <1>16, <1>17, <1>18, <1>19, <1>20, <1>21, <1>22, <1>23, <1>24, <1>25, <1>26, <1>27,
     <1>28, <1>29 DEF Next, Select, MgrStep, LendStep, PodStep

----------------------------------------------------------------------------
(* The local invariant of the goroutines.                                  *)

LEMMA LocalInit == Init => LocalInv
BY ConstAssumption 
  DEF Init, LocalInv, MgrLocal, ReqLocal, LendLocal, PodLocal, NoNetwork, LendIdle, PodIdle

LEMMA LendStateFacts ==
  /\ LendIdle.pc = "idle" /\ LendIdle.ip = NoIP
  /\ \A s \in {"view", "err"} : /\ [LendIdle EXCEPT !.pc = s].pc = s
                                /\ [LendIdle EXCEPT !.pc = s].ip = NoIP
  /\ \A s \in LendState, t \in {"move", "ok"} : /\ [s EXCEPT !.pc = t].pc = t
                                                /\ [s EXCEPT !.pc = t].ip = s.ip
                                                /\ [s EXCEPT !.pc = t].tag = s.tag
BY DEF LendIdle, LendState

LEMMA SetLendLocal ==
  ASSUME LendType, LendLocal, NEW l \in Node, NEW b \in Node, NEW s, SetLend(l, b, s),
         s.ip # NoIP <=> s.pc \in {"del", "move", "ok"}
  PROVE  LendLocal'
BY DEF LendType, LendLocal, SetLend

LEMMA FinishLocal ==
  ASSUME TypeOK, LocalInv, NEW n \in Node, Finish(n)
  PROVE  MgrLocal'
BY DEF TypeOK, LocalInv, MgrType, MgrLocal, Finish, Goto, ResetLocals, NoNetwork

LEMMA FinishReq ==
  ASSUME TypeOK, LocalInv, NEW n \in Node, Finish(n),
         \A m \in Node \ {n} : req[m] # NoPod => pod'[req[m]].st = pod[req[m]].st
  PROVE  ReqLocal'
BY DEF TypeOK, LocalInv, MgrType, ReqLocal, Finish, Goto, ResetLocals

LEMMA ReplyLocal ==
  ASSUME TypeOK, LocalInv, NEW n \in Node, req[n] # NoPod,
         ReplyError(n) \/ (ReplyIP(n) /\ hand[n].ip # NoIP)
  PROVE  MgrLocal' /\ ReqLocal' /\ PodLocal'
<1>1. Finish(n)
  BY DEF ReplyError, ReplyIP
<1>2. req[n] \in Pod /\ PodNode[req[n]] = n
  BY MgrFacts
<1>3. \A m \in Node \ {n} : req[m] # NoPod => req[m] \in Pod /\ req[m] # req[n]
  BY <1>2, MgrFacts
<1>4. \A q \in Pod : q # req[n] => pod'[q] = pod[q]
  BY DEF ReplyError, ReplyIP, TypeOK, PodType
<1>5. pod'[req[n]].ip # NoIP <=> pod'[req[n]].st \in {"annot", "up", "del"}
  BY <1>2 DEF ReplyError, ReplyIP, TypeOK, PodType, PodIdle
<1>6. PodLocal'
  BY <1>4, <1>5 DEF LocalInv, PodLocal
<1> QED
  BY <1>1, <1>3, <1>4, <1>6, FinishLocal, FinishReq

LEMMA LocalStep == TypeOK /\ LocalInv /\ Next => LocalInv'
<1> SUFFICES ASSUME TypeOK, LocalInv, Next PROVE LocalInv'
  OBVIOUS
<1>a. VpcType /\ PoolType /\ CoolType /\ LendType /\ PodType /\ MgrType
  BY DEF TypeOK
<1>b. MgrLocal /\ ReqLocal /\ LendLocal /\ PodLocal
  BY DEF LocalInv
<1>c. ASSUME NEW n \in Node PROVE Cardinality(pool[n]) \in Nat
  BY PoolCardinality DEF TypeOK, PoolType
<1>i. NoIP \notin IP /\ NoPod \notin Pod /\ HighWatermark \in Nat
  BY ConstAssumption
<1>1. ASSUME NEW n \in Node, NEW p \in Pod, RecvAdd(n, p) PROVE LocalInv'
  <2>1. CASE Finish(n) /\ pod' = [pod EXCEPT ![p] = PodIdle]
    <3>1. \A m \in Node : req[m] # NoPod => req[m] \in Pod /\ req[m] # p
      BY <1>1, MgrFacts DEF RecvAdd
    <3>2. PodLocal'
      BY <2>1, <1>a, <1>b DEF PodLocal, PodType, PodIdle
    <3>3. ReqLocal'
      BY <2>1, <3>1, <1>a, FinishReq DEF PodType
    <3> QED
      BY <1>1, <2>1, <3>2, <3>3, FinishLocal, LocalUnchanged DEF RecvAdd, LocalInv
  <2>2. CASE /\ Goto(n, "view") /\ req' = [req EXCEPT ![n] = p]
             /\ pod' = [pod EXCEPT ![p].st = "wait"] /\ UNCHANGED <<hand, left, borrow>>
    <3>1. /\ Goto(n, "view") /\ req' = [req EXCEPT ![n] = p]
          /\ pod' = [pod EXCEPT ![p].st = "wait"]
          /\ UNCHANGED <<hand, left, peer, lend>> /\ pc[n] = "idle" /\ PodNode[p] = n /\ pod[p].st = "want"
      BY <1>1, <2>2 DEF RecvAdd, borrow
    <3>2. MgrLocal'
      BY <3>1, <1>a, <1>b, <1>i DEF MgrLocal, MgrType, Goto
    <3>3. \A m \in Node : req[m] # NoPod => req[m] \in Pod /\ req[m] # p
      BY <3>1, MgrFacts
    <3>4. ReqLocal'
      BY <3>1, <3>3, <1>a, <1>b DEF ReqLocal, MgrType, PodType
    <3>5. PodLocal'
      BY <3>1, <1>a, <1>b DEF PodLocal, PodType
    <3> QED
      BY <3>1, <3>2, <3>4, <3>5, LocalUnchanged DEF LocalInv
  <2> QED
    BY <1>1, <2>1, <2>2 DEF RecvAdd
<1>2. ASSUME NEW n \in Node, NEW p \in Pod, RecvDel(n, p) PROVE LocalInv'
  <2>1. Finish(n) /\ UNCHANGED lend /\ pod[p].st = "del"
    BY <1>2 DEF RecvDel
  <2>2. pod' = [pod EXCEPT ![p] = PodIdle] \/ pod' = [pod EXCEPT ![p].st = "up"]
    BY <1>2 DEF RecvDel
  <2>3. PodLocal'
    BY <2>1, <2>2, <1>a, <1>b DEF PodLocal, PodType, PodIdle
  <2>4. \A m \in Node : req[m] # NoPod => req[m] \in Pod /\ req[m] # p
    BY <2>1, MgrFacts
  <2>5. ReqLocal'
    BY <2>1, <2>2, <2>4, <1>a, FinishReq DEF PodType
  <2> QED
    BY <2>1, <2>3, <2>5, FinishLocal, LocalUnchanged DEF LocalInv
<1>3. ASSUME NEW n \in Node, WatermarkTick(n) PROVE LocalInv'
  <2>1. MgrLocal'
    BY <1>3, <1>a, <1>b, <1>c, <1>i DEF WatermarkTick, Goto, Finish, ResetLocals, ReplyError,
       ReplyIP, SetLend, Skip, MgrLocal, MgrType, PodNetwork, NoNetwork, mgrVars, job, borrow,
       PoolType, CoolType, toRelease
  <2>2. ReqLocal'
    BY <1>3, <1>a, <1>b, <1>c, <1>i DEF WatermarkTick, Goto, Finish, ResetLocals, ReplyError,
       ReplyIP, SetLend, Skip, ReqLocal, MgrLocal, MgrType, PodType, PodIdle, mgrVars, job
  <2> QED
    BY <1>3, <2>1, <2>2, LocalUnchanged DEF LocalInv, WatermarkTick, mgrVars, job, history,
       Skip
<1>4. ASSUME NEW n \in Node, CooldownTick(n) PROVE LocalInv'
  <2>1. MgrLocal'
    BY <1>4, <1>a, <1>b, <1>c, <1>i DEF CooldownTick, Goto, Finish, ResetLocals, ReplyError,
       ReplyIP, SetLend, Skip, MgrLocal, MgrType, PodNetwork, NoNetwork, mgrVars, job, borrow,
       PoolType, CoolType, toRelease
  <2> QED
    BY <1>4, <2>1, LocalUnchanged DEF LocalInv, CooldownTick, mgrVars, job, history, Skip
<1>5. ASSUME NEW n \in Node, MgrPopView(n) PROVE LocalInv'
  <2>1. MgrLocal'
    BY <1>5, <1>a, <1>b, <1>c, <1>i, SMTT(30) DEF MgrPopView, Goto, Finish, ResetLocals, ReplyError,
       ReplyIP, SetLend, Skip, MgrLocal, MgrType, PodNetwork, NoNetwork, mgrVars, job, borrow,
       PoolType, CoolType, toRelease
  <2>2. ReqLocal'
    BY <1>5, <1>a, <1>b, <1>c, <1>i DEF MgrPopView, Goto, Finish, ResetLocals, ReplyError,
       ReplyIP, SetLend, Skip, ReqLocal, MgrLocal, MgrType, PodType, PodIdle, mgrVars, job
  <2> QED
    BY <1>5, <2>1, <2>2, LocalUnchanged DEF LocalInv, MgrPopView, mgrVars, job, history, Skip
<1>6. ASSUME NEW n \in Node, MgrPopDelete(n) PROVE LocalInv'
  <2>1. ASSUME req[n] = NoPod PROVE MgrLocal'
    BY <1>6, <2>1, <1>a, <1>b DEF MgrPopDelete, MgrLocal, MgrType, Goto, job, borrow
  <2>2. ASSUME req[n] # NoPod PROVE MgrLocal'
    BY <1>6, <2>2, <1>a, <1>b DEF MgrPopDelete, MgrLocal, MgrType, Goto, job, borrow
  <2> QED
    BY <1>6, <2>1, <2>2, LocalUnchanged DEF MgrPopDelete, LocalInv, job
<1>7. ASSUME NEW n \in Node, MgrPopError(n) PROVE LocalInv'
  <2>1. CASE req[n] = NoPod
    BY <1>7, <2>1, FinishLocal, FinishReq, LocalUnchanged, TypeOK, LocalInv DEF MgrPopError, LocalInv
  <2>2. CASE req[n] # NoPod
    BY <1>7, <2>2, ReplyLocal, LocalUnchanged, TypeOK, LocalInv DEF MgrPopError, LocalInv
  <2> QED
    BY <2>1, <2>2
<1>8. ASSUME NEW n \in Node, uapiAllocateSecondaryIP(n) PROVE LocalInv'
  <2>1. MgrLocal'
    BY <1>8, <1>a, <1>b, <1>c, <1>i DEF uapiAllocateSecondaryIP, Goto, Finish, ResetLocals,
       ReplyError, ReplyIP, SetLend, Skip, MgrLocal, MgrType, PodNetwork, NoNetwork, mgrVars,
       job, borrow, PoolType, CoolType, toRelease
  <2>2. ReqLocal'
    BY <1>8, <1>a, <1>b, <1>c, <1>i DEF uapiAllocateSecondaryIP, Goto, Finish, ResetLocals,
       ReplyError, ReplyIP, SetLend, Skip, ReqLocal, MgrLocal, MgrType, PodType, PodIdle,
       mgrVars, job
  <2>3. PodLocal'
    BY <1>8, <1>a, <1>b, <1>c, <1>i DEF uapiAllocateSecondaryIP, Goto, Finish, ResetLocals,
       ReplyError, ReplyIP, SetLend, Skip, PodLocal, MgrLocal, ReqLocal, PodType, MgrType,
       PodNetwork, PodIdle
  <2> QED
    BY <1>8, <2>1, <2>2, <2>3, LocalUnchanged DEF LocalInv, uapiAllocateSecondaryIP, mgrVars,
       job, history, Skip
<1>9. ASSUME NEW n \in Node, checkSecondaryIpExist(n) PROVE LocalInv'
  <2>1. MgrLocal'
    BY <1>9, <1>a, <1>b, <1>c, <1>i DEF checkSecondaryIpExist, Goto, Finish, ResetLocals,
       ReplyError, ReplyIP, SetLend, Skip, MgrLocal, MgrType, PodNetwork, NoNetwork, mgrVars,
       job, borrow, PoolType, CoolType, toRelease
  <2>2. ReqLocal'
    BY <1>9, <1>a, <1>b, <1>c, <1>i DEF checkSecondaryIpExist, Goto, Finish, ResetLocals,
       ReplyError, ReplyIP, SetLend, Skip, ReqLocal, MgrLocal, MgrType, PodType, PodIdle,
       mgrVars, job
  <2>3. PodLocal'
    BY <1>9, <1>a, <1>b, <1>c, <1>i DEF checkSecondaryIpExist, Goto, Finish, ResetLocals,
       ReplyError, ReplyIP, SetLend, Skip, PodLocal, MgrLocal, ReqLocal, PodType, MgrType,
       PodNetwork, PodIdle
  <2> QED
    BY <1>9, <2>1, <2>2, <2>3, LocalUnchanged DEF LocalInv, checkSecondaryIpExist, mgrVars,
       job, history, Skip
<1>10. ASSUME NEW n \in Node, checkIPConflict(n) PROVE LocalInv'
  <2>1. req[n] # NoPod /\ hand[n].ip # NoIP
    BY <1>10, MgrFacts DEF checkIPConflict
  <2>2. ReplyError(n) \/ ReplyIP(n)
    BY <1>10 DEF checkIPConflict
  <2> QED
    BY <1>10, <2>1, <2>2, ReplyLocal, LocalUnchanged DEF checkIPConflict, LocalInv
<1>11. ASSUME NEW n \in Node, releasePool(n) PROVE LocalInv'
  <2>1. MgrLocal'
    BY <1>11, <1>a, <1>b, <1>c, <1>i DEF releasePool, Goto, Finish, ResetLocals, ReplyError,
       ReplyIP, SetLend, Skip, MgrLocal, MgrType, PodNetwork, NoNetwork, mgrVars, job, borrow,
       PoolType, CoolType, toRelease
  <2>2. ReqLocal'
    BY <1>11, <1>a, <1>b, <1>c, <1>i DEF releasePool, Goto, Finish, ResetLocals, ReplyError,
       ReplyIP, SetLend, Skip, ReqLocal, MgrLocal, MgrType, PodType, PodIdle, mgrVars, job
  <2> QED
    BY <1>11, <2>1, <2>2, LocalUnchanged DEF LocalInv, releasePool, mgrVars, job, history, Skip
<1>12. ASSUME NEW n \in Node, RecycleDelete(n) PROVE LocalInv'
  <2>1. MgrLocal'
    BY <1>12, <1>a, <1>b, <1>c, <1>i DEF RecycleDelete, Goto, Finish, ResetLocals, ReplyError,
       ReplyIP, SetLend, Skip, MgrLocal, MgrType, PodNetwork, NoNetwork, mgrVars, job, borrow,
       PoolType, CoolType, toRelease
  <2>2. ReqLocal'
    BY <1>12, <1>a, <1>b, <1>c, <1>i DEF RecycleDelete, Goto, Finish, ResetLocals, ReplyError,
       ReplyIP, SetLend, Skip, ReqLocal, MgrLocal, MgrType, PodType, PodIdle, mgrVars, job
  <2> QED
    BY <1>12, <2>1, <2>2, LocalUnchanged DEF LocalInv, RecycleDelete, mgrVars, job, history,
       Skip
<1>13. ASSUME NEW n \in Node, RecyclePut(n) PROVE LocalInv'
  <2>1. MgrLocal'
    BY <1>13, <1>a, <1>b, <1>c, <1>i DEF RecyclePut, Goto, Finish, ResetLocals, ReplyError,
       ReplyIP, SetLend, Skip, MgrLocal, MgrType, PodNetwork, NoNetwork, mgrVars, job, borrow,
       PoolType, CoolType, toRelease
  <2> QED
    BY <1>13, <2>1, LocalUnchanged DEF LocalInv, RecyclePut, mgrVars, job, history, Skip
<1>14. ASSUME NEW n \in Node, updateStatus(n) PROVE LocalInv'
  <2>1. MgrLocal'
    BY <1>14, <1>a, <1>b, <1>c, <1>i DEF updateStatus, Goto, Finish, ResetLocals, ReplyError,
       ReplyIP, SetLend, Skip, MgrLocal, MgrType, PodNetwork, NoNetwork, mgrVars, job, borrow,
       PoolType, CoolType, toRelease
  <2> QED
    BY <1>14, <2>1, LocalUnchanged DEF LocalInv, updateStatus, mgrVars, job, history, Skip
<1>15. ASSUME NEW n \in Node, ListIpamds(n) PROVE LocalInv'
  <2>1. CASE ReplyError(n)
    BY <1>15, <2>1, MgrFacts, ReplyLocal, LocalUnchanged, TypeOK, LocalInv DEF ListIpamds, LocalInv
  <2>2. CASE ~ReplyError(n)
    <3>1. Goto(n, "try") /\ UNCHANGED <<hand, job, peer, pod, lend>> /\ pc[n] = "borrow"
      BY <1>15, <2>2 DEF ListIpamds
    <3>2. MgrLocal'
      BY <3>1, <1>a, <1>b DEF MgrLocal, MgrType, Goto, job
    <3> QED
      BY <3>1, <3>2, LocalUnchanged DEF LocalInv, job
  <2> QED
    BY <2>1, <2>2
<1>16. ASSUME NEW n \in Node, BorrowCall(n) PROVE LocalInv'
  <2>1. CASE ReplyError(n) /\ UNCHANGED lend
    BY <1>16, <2>1, MgrFacts, ReplyLocal, LocalUnchanged, TypeOK, LocalInv DEF BorrowCall, LocalInv
  <2>2. CASE \E c \in Node : Skip(n, c) /\ UNCHANGED <<lend, pod>>
    <3>1. MgrLocal'
      BY <1>16, <2>2, <1>a, <1>b DEF BorrowCall, MgrLocal, MgrType, Goto, job, Skip
    <3> QED
      BY <2>2, <3>1, LocalUnchanged DEF LocalInv, Skip, job
  <2>3. ASSUME NEW c \in Node, Goto(n, "rpc"), peer' = [peer EXCEPT ![n] = c],
               SetLend(c, n, [LendIdle EXCEPT !.pc = "view"]), UNCHANGED <<hand, job, cands, pod>>
        PROVE  LocalInv'
    <3>1. MgrLocal'
      BY <1>16, <2>3, <1>a, <1>b DEF BorrowCall, MgrLocal, MgrType, Goto, job
    <3>2. LendLocal'
      BY <2>3, <1>a, <1>b, SetLendLocal, LendStateFacts
    <3> QED
      BY <2>3, <3>1, <3>2, LocalUnchanged DEF LocalInv, job
  <2> QED
    BY <1>16, <2>1, <2>2, <2>3 DEF BorrowCall
<1>17. ASSUME NEW n \in Node, BorrowReturn(n) PROVE LocalInv'
  <2>p. peer[n] \in Node /\ pc[n] = "rpc"
    BY <1>17, MgrFacts DEF BorrowReturn
  <2>1. LendLocal'
    BY <1>17, <2>p, <1>a, <1>b, SetLendLocal, LendStateFacts DEF BorrowReturn
  <2>2. ASSUME lend[peer[n]][n].pc = "ok" PROVE MgrLocal'
    <3>1. lend[peer[n]][n].ip # NoIP
      BY <2>p, <2>2, LendFacts
    <3>2. /\ pc' = [pc EXCEPT ![n] = "check"] /\ hand' = [hand EXCEPT ![n] = Borrowed(lend[peer[n]][n])]
          /\ req' = req /\ left' = left /\ peer' = [peer EXCEPT ![n] = NoNode]
      BY <1>17, <2>2 DEF BorrowReturn, Goto, job
    <3>3. Borrowed(lend[peer[n]][n]).ip # NoIP
      BY <3>1 DEF Borrowed
    <3> QED
      BY <2>p, <3>2, <3>3, <1>a, <1>b DEF MgrLocal, MgrType
  <2>3. ASSUME lend[peer[n]][n].pc # "ok" PROVE MgrLocal'
    <3>1. Skip(n, peer[n])
      BY <1>17, <2>3 DEF BorrowReturn
    <3> QED
      BY <2>p, <3>1, <1>a, <1>b DEF MgrLocal, MgrType, Skip, Goto, job
  <2>4. UNCHANGED <<req, pod>>
    BY <1>17 DEF BorrowReturn, Skip, job
  <2> QED
    BY <2>1, <2>2, <2>3, <2>4, LocalUnchanged DEF LocalInv
<1>18. ASSUME NEW n \in Node, BorrowTimeout(n) PROVE LocalInv'
  <2>1. MgrLocal'
    BY <1>18, <1>a, <1>b, <1>c, <1>i DEF BorrowTimeout, Goto, Finish, ResetLocals, ReplyError,
       ReplyIP, SetLend, Skip, MgrLocal, MgrType, PodNetwork, NoNetwork, mgrVars, job, borrow,
       PoolType, CoolType, toRelease
  <2> QED
    BY <1>18, <2>1, LocalUnchanged DEF LocalInv, BorrowTimeout, mgrVars, job, history, Skip
<1>19. ASSUME NEW n \in Node, Crash(n) PROVE LocalInv'
  <2>1. MgrLocal'
    BY <1>19, <1>a, <1>b, <1>c, <1>i DEF Crash, Goto, Finish, ResetLocals, ReplyError, ReplyIP,
       SetLend, Skip, MgrLocal, MgrType, PodNetwork, NoNetwork, mgrVars, job, borrow, PoolType,
       CoolType, toRelease
  <2>2. ReqLocal'
    BY <1>19, <1>a, <1>b, <1>c, <1>i DEF Crash, Goto, Finish, ResetLocals, ReplyError, ReplyIP,
       SetLend, Skip, ReqLocal, MgrLocal, MgrType, PodType, PodIdle, mgrVars, job
  <2>3. LendLocal'
    BY <1>19, <1>a, <1>b, <1>c, <1>i DEF Crash, Goto, Finish, ResetLocals, ReplyError, ReplyIP,
       SetLend, Skip, LendLocal, LendType, LendState, LendIdle, PoolType
  <2>4. PodLocal'
    BY <1>19, <1>a, <1>b, <1>c, <1>i DEF Crash, Goto, Finish, ResetLocals, ReplyError, ReplyIP,
       SetLend, Skip, PodLocal, MgrLocal, ReqLocal, PodType, MgrType, PodNetwork, PodIdle
  <2> QED
    BY <1>19, <2>1, <2>2, <2>3, <2>4, LocalUnchanged DEF LocalInv, Crash, mgrVars, job,
       history, Skip
<1>20. ASSUME NEW n \in Node, Restart(n) PROVE LocalInv'
  <2>1. MgrLocal'
    BY <1>20, <1>a, <1>b, <1>c, <1>i DEF Restart, Goto, Finish, ResetLocals, ReplyError,
       ReplyIP, SetLend, Skip, MgrLocal, MgrType, PodNetwork, NoNetwork, mgrVars, job, borrow,
       PoolType, CoolType, toRelease
  <2> QED
    BY <1>20, <2>1, LocalUnchanged DEF LocalInv, Restart, mgrVars, job, history, Skip
<1>21. ASSUME NEW n \in Node, NEW i \in IP, CooldownOver(n, i) PROVE LocalInv'
  <2> QED
    BY <1>21, LocalUnchanged DEF LocalInv, CooldownOver, mgrVars, job, history, Skip
<1>22. ASSUME NEW l \in Node, NEW b \in Node, LendPopView(l, b) PROVE LocalInv'
  <2>1. LendLocal'
    <3>1. CASE \E i \in pool[l] : SetLend(l, b, [pc |-> "del", ip |-> i, tag |-> TagOf(l, i)])
      BY <1>22, <3>1, <1>a, <1>b, <1>i, SetLendLocal DEF PoolType
    <3>2. CASE SetLend(l, b, [LendIdle EXCEPT !.pc = "err"])
      BY <1>22, <3>2, <1>a, <1>b, SetLendLocal, LendStateFacts
    <3> QED
      BY <1>22, <3>1, <3>2 DEF LendPopView
  <2> QED
    BY <1>22, <2>1, LocalUnchanged DEF LendPopView, LocalInv, mgrVars, job
<1>23. ASSUME NEW l \in Node, NEW b \in Node, LendPopDelete(l, b) PROVE LocalInv'
  <2>1. LendLocal'
    BY <1>23, <1>a, <1>b, <1>c, <1>i DEF LendPopDelete, Goto, Finish, ResetLocals, ReplyError,
       ReplyIP, SetLend, Skip, LendLocal, LendType, LendState, LendIdle, PoolType
  <2> QED
    BY <1>23, <2>1, LocalUnchanged DEF LocalInv, LendPopDelete, mgrVars, job, history, Skip
<1>24. ASSUME NEW l \in Node, NEW b \in Node, LendPopError(l, b) PROVE LocalInv'
  <2>1. LendLocal'
    BY <1>24, <1>a, <1>b, <1>c, <1>i DEF LendPopError, Goto, Finish, ResetLocals, ReplyError,
       ReplyIP, SetLend, Skip, LendLocal, LendType, LendState, LendIdle, PoolType
  <2> QED
    BY <1>24, <2>1, LocalUnchanged DEF LocalInv, LendPopError, mgrVars, job, history, Skip
<1>25. ASSUME NEW l \in Node, NEW b \in Node, uapiMoveSecondaryIPMac(l, b) PROVE LocalInv'
  <2>1. lend[l][b] \in LendState /\ lend[l][b].ip # NoIP
    BY <1>25, LendFacts DEF uapiMoveSecondaryIPMac
  <2>2. \/ SetLend(l, b, [LendIdle EXCEPT !.pc = "err"])
        \/ SetLend(l, b, [lend[l][b] EXCEPT !.pc = "ok"])
    BY <1>25 DEF uapiMoveSecondaryIPMac
  <2>3. LendLocal'
    BY <2>1, <2>2, <1>a, <1>b, SetLendLocal, LendStateFacts, ZenonT(60)
  <2> QED
    BY <1>25, <2>3, LocalUnchanged DEF uapiMoveSecondaryIPMac, LocalInv, mgrVars, job
<1>26. ASSUME NEW l \in Node, NEW b \in Node, LendDropped(l, b) PROVE LocalInv'
  <2>1. LendLocal'
    BY <1>26, <1>a, <1>b, <1>c, <1>i DEF LendDropped, Goto, Finish, ResetLocals, ReplyError,
       ReplyIP, SetLend, Skip, LendLocal, LendType, LendState, LendIdle, PoolType
  <2> QED
    BY <1>26, <2>1, LocalUnchanged DEF LocalInv, LendDropped, mgrVars, job, history, Skip
<1>27. ASSUME NEW p \in Pod, AddPodNetwork(p) PROVE LocalInv'
  <2>1. ReqLocal'
    BY <1>27, <1>a, <1>b, <1>c, <1>i DEF AddPodNetwork, Goto, Finish, ResetLocals, ReplyError,
       ReplyIP, SetLend, Skip, ReqLocal, MgrLocal, MgrType, PodType, PodIdle, mgrVars, job
  <2>2. PodLocal'
    BY <1>27, <1>a, <1>b, <1>c, <1>i DEF AddPodNetwork, Goto, Finish, ResetLocals, ReplyError,
       ReplyIP, SetLend, Skip, PodLocal, MgrLocal, ReqLocal, PodType, MgrType, PodNetwork,
       PodIdle
  <2> QED
    BY <1>27, <2>1, <2>2, LocalUnchanged DEF LocalInv, AddPodNetwork, mgrVars, job, history,
       Skip
<1>28. ASSUME NEW p \in Pod, AnswerAdd(p) PROVE LocalInv'
  <2>1. ReqLocal'
    BY <1>28, <1>a, <1>b, <1>c, <1>i DEF AnswerAdd, Goto, Finish, ResetLocals, ReplyError,
       ReplyIP, SetLend, Skip, ReqLocal, MgrLocal, MgrType, PodType, PodIdle, mgrVars, job
  <2>2. PodLocal'
    BY <1>28, <1>a, <1>b, <1>c, <1>i DEF AnswerAdd, Goto, Finish, ResetLocals, ReplyError,
       ReplyIP, SetLend, Skip, PodLocal, MgrLocal, ReqLocal, PodType, MgrType, PodNetwork,
       PodIdle
  <2> QED
    BY <1>28, <2>1, <2>2, LocalUnchanged DEF LocalInv, AnswerAdd, mgrVars, job, history, Skip
<1>29. ASSUME NEW p \in Pod, DelPodNetwork(p) PROVE LocalInv'
  <2>1. ReqLocal'
    BY <1>29, <1>a, <1>b, <1>c, <1>i DEF DelPodNetwork, Goto, Finish, ResetLocals, ReplyError,
       ReplyIP, SetLend, Skip, ReqLocal, MgrLocal, MgrType, PodType, PodIdle, mgrVars, job
  <2>2. PodLocal'
    BY <1>29, <1>a, <1>b, <1>c, <1>i DEF DelPodNetwork, Goto, Finish, ResetLocals, ReplyError,
       ReplyIP, SetLend, Skip, PodLocal, MgrLocal, ReqLocal, PodType, MgrType, PodNetwork,
       PodIdle
  <2> QED
    BY <1>29, <2>1, <2>2, LocalUnchanged DEF LocalInv, DelPodNetwork, mgrVars, job, history,
       Skip
<1> QED
  BY <1>1, <1>2, <1>3, <1>4, <1>5, <1>6, <1>7, <1>8, <1>9, <1>10, <1>11, <1>12, <1>13, <1>14,
     <1>15, <1>16, <1>17, <1>18, <1>19, <1>20, <1>21, <1>22, <1>23, <1>24, <1>25, <1>26, <1>27,
     <1>28, <1>29 DEF Next, Select, MgrStep, LendStep, PodStep

(* Type correctness, for every cluster and every fault budget: whatever    *)
(* order the goroutines of the daemons run in, pools, cooldown sets and    *)
(* pods only ever hold addresses of the subnet, CRs publish pool sizes,    *)
(* and a goroutine holds an address exactly at the steps that use one.     *)
THEOREM TypeCorrect == Spec => [](TypeOK /\ LocalInv)
<1>1. Init => TypeOK /\ LocalInv
  BY TypeInit, LocalInit
<1>2. TypeOK /\ LocalInv /\ [Next]_vars => (TypeOK /\ LocalInv)'
  <2>1. CASE Next
    BY <2>1, TypeStep, LocalStep
  <2>2. ASSUME TypeOK, LocalInv, UNCHANGED vars PROVE (TypeOK /\ LocalInv)'
    BY <2>2, TypeUnchanged, LocalUnchanged DEF vars, history, TypeOK, LocalInv, mgrVars, job
  <2> QED
    BY <2>1, <2>2
<1> QED
  BY <1>1, <1>2, PTL DEF Spec

----------------------------------------------------------------------------
(* Holders.                                                                *)

LEMMA HolderMember ==
  ASSUME NEW i
  PROVE  /\ \A n \in Node : i \in pool[n] => <<"pool", n>> \in Holders(i)
         /\ \A n \in Node : i \in cool[n] => <<"cool", n>> \in Holders(i)
         /\ \A n \in Node : InHand(n, i) => <<"hand", n>> \in Holders(i)
         /\ \A l, b \in Node : Lending(l, b, i) => <<"lend", <<l, b>>>> \in Holders(i)
         /\ \A p \in Pod : pod[p].ip = i => <<"pod", p>> \in Holders(i)
BY DEF Holders, PoolHolders, CoolHolders, HandHolders, LendHolders, PodHolders

(* A holder is alone. *)
LEMMA PoolAlone ==
  ASSUME Exclusive, FreeUnheld, NEW i \in IP, NEW n \in Node, i \in pool[n]
  PROVE  /\ Holders(i) = {<<"pool", n>>}
         /\ vpc[i] # NoNode
         /\ \A m \in Node : i \notin cool[m] /\ ~InHand(m, i) /\ (i \in pool[m] => m = n)
         /\ \A l, b \in Node : ~Lending(l, b, i)
         /\ \A p \in Pod : pod[p].ip # i
<1>1. <<"pool", n>> \in Holders(i)
  BY HolderMember
<1>2. \A x \in Holders(i) : x = <<"pool", n>>
  BY <1>1 DEF Exclusive
<1>3. \A z : <<"cool", z>> # <<"pool", n>> /\ <<"hand", z>> # <<"pool", n>> /\ <<"lend", z>> # <<"pool", n>> /\ <<"pod", z>> # <<"pool", n>>
  OBVIOUS
<1>4. \A m \in Node : <<"pool", m>> = <<"pool", n>> => m = n
  OBVIOUS
<1>5. vpc[i] # NoNode
  BY <1>1 DEF FreeUnheld
<1> QED
  BY <1>5, <1>1, <1>2, <1>3, <1>4, HolderMember

LEMMA CoolAlone ==
  ASSUME Exclusive, FreeUnheld, NEW i \in IP, NEW n \in Node, i \in cool[n]
  PROVE  /\ Holders(i) = {<<"cool", n>>}
         /\ vpc[i] # NoNode
         /\ \A m \in Node : i \notin pool[m] /\ ~InHand(m, i) /\ (i \in cool[m] => m = n)
         /\ \A l, b \in Node : ~Lending(l, b, i)
         /\ \A p \in Pod : pod[p].ip # i
<1>1. <<"cool", n>> \in Holders(i)
  BY HolderMember
<1>2. \A x \in Holders(i) : x = <<"cool", n>>
  BY <1>1 DEF Exclusive
<1>3. \A z : <<"pool", z>> # <<"cool", n>> /\ <<"hand", z>> # <<"cool", n>> /\ <<"lend", z>> # <<"cool", n>> /\ <<"pod", z>> # <<"cool", n>>
  OBVIOUS
<1>4. \A m \in Node : <<"cool", m>> = <<"cool", n>> => m = n
  OBVIOUS
<1>5. vpc[i] # NoNode
  BY <1>1 DEF FreeUnheld
<1> QED
  BY <1>5, <1>1, <1>2, <1>3, <1>4, HolderMember

LEMMA HandAlone ==
  ASSUME Exclusive, FreeUnheld, NEW i \in IP, NEW n \in Node, InHand(n, i)
  PROVE  /\ Holders(i) = {<<"hand", n>>}
         /\ vpc[i] # NoNode
         /\ \A m \in Node : i \notin pool[m] /\ i \notin cool[m] /\ (InHand(m, i) => m = n)
         /\ \A l, b \in Node : ~Lending(l, b, i)
         /\ \A p \in Pod : pod[p].ip # i
<1>1. <<"hand", n>> \in Holders(i)
  BY HolderMember
<1>2. \A x \in Holders(i) : x = <<"hand", n>>
  BY <1>1 DEF Exclusive
<1>3. \A z : <<"pool", z>> # <<"hand", n>> /\ <<"cool", z>> # <<"hand", n>> /\ <<"lend", z>> # <<"hand", n>> /\ <<"pod", z>> # <<"hand", n>>
  OBVIOUS
<1>4. \A m \in Node : <<"hand", m>> = <<"hand", n>> => m = n
  OBVIOUS
<1>5. vpc[i] # NoNode
  BY <1>1 DEF FreeUnheld
<1> QED
  BY <1>5, <1>1, <1>2, <1>3, <1>4, HolderMember

LEMMA LendAlone ==
  ASSUME Exclusive, FreeUnheld, NEW i \in IP, NEW l \in Node, NEW b \in Node, Lending(l, b, i)
  PROVE  /\ Holders(i) = {<<"lend", <<l, b>>>>}
         /\ vpc[i] # NoNode
         /\ \A m \in Node : i \notin pool[m] /\ i \notin cool[m] /\ ~InHand(m, i)
         /\ \A k, c \in Node : Lending(k, c, i) => k = l /\ c = b
         /\ \A p \in Pod : pod[p].ip # i
<1>1. <<"lend", <<l, b>>>> \in Holders(i)
  BY HolderMember
<1>2. \A x \in Holders(i) : x = <<"lend", <<l, b>>>>
  BY <1>1 DEF Exclusive
<1>3. \A z : <<"pool", z>> # <<"lend", <<l, b>>>> /\ <<"cool", z>> # <<"lend", <<l, b>>>> /\ <<"hand", z>> # <<"lend", <<l, b>>>> /\ <<"pod", z>> # <<"lend", <<l, b>>>>
  OBVIOUS
<1>4. \A k, c \in Node : <<"lend", <<k, c>>>> = <<"lend", <<l, b>>>> => k = l /\ c = b
  OBVIOUS
<1>5. vpc[i] # NoNode
  BY <1>1 DEF FreeUnheld
<1> QED
  BY <1>5, <1>1, <1>2, <1>3, <1>4, HolderMember

LEMMA PodAlone ==
  ASSUME Exclusive, FreeUnheld, NEW i \in IP, NEW p \in Pod, pod[p].ip = i
  PROVE  /\ Holders(i) = {<<"pod", p>>}
         /\ vpc[i] # NoNode
         /\ \A m \in Node : i \notin pool[m] /\ i \notin cool[m] /\ ~InHand(m, i)
         /\ \A l, b \in Node : ~Lending(l, b, i)
         /\ \A q \in Pod : pod[q].ip = i => q = p
<1>1. <<"pod", p>> \in Holders(i)
  BY HolderMember
<1>2. \A x \in Holders(i) : x = <<"pod", p>>
  BY <1>1 DEF Exclusive
<1>3. \A z : <<"pool", z>> # <<"pod", p>> /\ <<"cool", z>> # <<"pod", p>> /\ <<"hand", z>> # <<"pod", p>> /\ <<"lend", z>> # <<"pod", p>>
  OBVIOUS
<1>4. \A q \in Pod : <<"pod", q>> = <<"pod", p>> => q = p
  OBVIOUS
<1>5. vpc[i] # NoNode
  BY <1>1 DEF FreeUnheld
<1> QED
  BY <1>5, <1>1, <1>2, <1>3, <1>4, HolderMember

LEMMA FreeAlone ==
  ASSUME FreeUnheld, NEW i \in IP, vpc[i] = NoNode
  PROVE  /\ Holders(i) = {}
         /\ \A m \in Node : i \notin pool[m] /\ i \notin cool[m] /\ ~InHand(m, i)
         /\ \A l, b \in Node : ~Lending(l, b, i)
         /\ \A p \in Pod : pod[p].ip # i
BY HolderMember DEF FreeUnheld

(* How the updates of the actions move addresses between holders. *)
LEMMA HoldersUnchanged ==
  ASSUME NEW i
  PROVE  /\ UNCHANGED pool => PoolHolders(i)' = PoolHolders(i)
         /\ UNCHANGED cool => CoolHolders(i)' = CoolHolders(i)
         /\ UNCHANGED <<pc, hand>> => HandHolders(i)' = HandHolders(i)
         /\ UNCHANGED lend => LendHolders(i)' = LendHolders(i)
         /\ UNCHANGED pod => PodHolders(i)' = PodHolders(i)
BY DEF PoolHolders, CoolHolders, HandHolders, LendHolders, PodHolders, InHand, Lending

LEMMA PoolAdd ==
  ASSUME PoolType, NEW i, NEW j, NEW n \in Node, pool' = [pool EXCEPT ![n] = @ \cup {j}]
  PROVE  PoolHolders(i)' \subseteq PoolHolders(i) \cup {x \in {<<"pool", n>>} : i = j}
BY DEF PoolType, PoolHolders

LEMMA PoolRemove ==
  ASSUME PoolType, NEW i, NEW j, NEW n \in Node, pool' = [pool EXCEPT ![n] = @ \ {j}]
  PROVE  PoolHolders(i)' \subseteq PoolHolders(i) \ {x \in {<<"pool", n>>} : i = j}
BY DEF PoolType, PoolHolders

LEMMA CoolAdd ==
  ASSUME CoolType, NEW i, NEW j, NEW n \in Node, cool' = [cool EXCEPT ![n] = @ \cup {j}]
  PROVE  CoolHolders(i)' \subseteq CoolHolders(i) \cup {x \in {<<"cool", n>>} : i = j}
BY DEF CoolType, CoolHolders

LEMMA CoolRemove ==
  ASSUME CoolType, NEW i, NEW j, NEW n \in Node, cool' = [cool EXCEPT ![n] = @ \ {j}]
  PROVE  CoolHolders(i)' \subseteq CoolHolders(i) \ {x \in {<<"cool", n>>} : i = j}
BY DEF CoolType, CoolHolders

LEMMA HandSet ==
  ASSUME MgrType, NEW i, NEW n \in Node, \A m \in Node \ {n} : pc'[m] = pc[m] /\ hand'[m] = hand[m]
  PROVE  HandHolders(i)' \subseteq (HandHolders(i) \ {<<"hand", n>>})
                                   \cup {x \in {<<"hand", n>>} : InHand(n, i)'}
BY DEF MgrType, HandHolders, InHand

LEMMA LendSet ==
  ASSUME LendType, NEW i, NEW l \in Node, NEW b \in Node, NEW s, SetLend(l, b, s)
  PROVE  LendHolders(i)' \subseteq (LendHolders(i) \ {<<"lend", <<l, b>>>>})
                                   \cup {x \in {<<"lend", <<l, b>>>>} : s.ip = i /\ s.pc # "del"}
BY DEF LendType, LendHolders, Lending, SetLend

LEMMA PodSet ==
  ASSUME PodType, NEW i, NEW p \in Pod, \A q \in Pod \ {p} : pod'[q] = pod[q]
  PROVE  PodHolders(i)' \subseteq (PodHolders(i) \ {<<"pod", p>>})
                                  \cup {x \in {<<"pod", p>>} : pod'[p].ip = i}
BY DEF PodType, PodHolders

(* An address keeps its holder, loses it, or is moved to another one.      *)
LEMMA HoldersStep ==
  ASSUME Exclusive, FreeUnheld,
         \A i \in IP : \/ Holders(i)' \subseteq Holders(i)
                       \/ vpc'[i] # NoNode /\ \E y : Holders(i)' \subseteq {y},
         \A i \in IP : vpc'[i] = NoNode => vpc[i] = NoNode \/ Holders(i)' = {}
  PROVE  Exclusive' /\ FreeUnheld'
<1>1. Exclusive'
  BY DEF Exclusive
<1>2. FreeUnheld'
  BY DEF FreeUnheld
<1> QED
  BY <1>1, <1>2

LEMMA HandDrop ==
  ASSUME MgrType, NEW n \in Node, NEW h, NEW s, NEW i \in IP,
         hand' = [hand EXCEPT ![n] = h], pc' = [pc EXCEPT ![n] = s], h.ip = NoIP \/ s = "del"
  PROVE  HandHolders(i)' \subseteq HandHolders(i) \ {<<"hand", n>>}
<1>1. ~InHand(n, i)'
  BY ConstAssumption DEF InHand, MgrType
<1>2. \A m \in Node \ {n} : pc'[m] = pc[m] /\ hand'[m] = hand[m]
  BY DEF MgrType
<1> QED
  BY <1>1, <1>2, HandSet

LEMMA HandTake ==
  ASSUME MgrType, NEW n \in Node, NEW h, NEW s, NEW i \in IP,
         hand' = [hand EXCEPT ![n] = h], pc' = [pc EXCEPT ![n] = s]
  PROVE  HandHolders(i)' \subseteq (HandHolders(i) \ {<<"hand", n>>}) \cup {x \in {<<"hand", n>>} : i = h.ip}
<1>1. InHand(n, i)' => i = h.ip
  BY DEF InHand, MgrType
<1>2. \A m \in Node \ {n} : pc'[m] = pc[m] /\ hand'[m] = hand[m]
  BY DEF MgrType
<1> QED
  BY <1>1, <1>2, HandSet

LEMMA HandGoto ==
  ASSUME MgrType, NEW n \in Node, NEW s, NEW i \in IP, Goto(n, s), UNCHANGED hand, pc[n] # "del"
  PROVE  HandHolders(i)' \subseteq HandHolders(i)
BY DEF HandHolders, InHand, Goto, MgrType

LEMMA FinishHand ==
  ASSUME MgrType, NEW n \in Node, NEW i \in IP, Finish(n)
  PROVE  HandHolders(i)' \subseteq HandHolders(i) \ {<<"hand", n>>}
BY HandDrop DEF Finish, Goto, ResetLocals, NoNetwork

LEMMA LendDrop ==
  ASSUME LendType, NEW i \in IP, NEW l \in Node, NEW b \in Node, NEW s, SetLend(l, b, s),
         s.ip = NoIP \/ s.pc = "del"
  PROVE  LendHolders(i)' \subseteq LendHolders(i) \ {<<"lend", <<l, b>>>>}
BY LendSet, ConstAssumption

LEMMA PodDrop ==
  ASSUME PodType, NEW i \in IP, NEW p \in Pod, NEW r, pod' = [pod EXCEPT ![p] = r], r.ip = NoIP
  PROVE  PodHolders(i)' \subseteq PodHolders(i) \ {<<"pod", p>>}
<1>1. pod'[p].ip # i
  BY ConstAssumption DEF PodType
<1>2. \A q \in Pod \ {p} : pod'[q] = pod[q]
  BY DEF PodType
<1> QED
  BY <1>1, <1>2, PodSet

LEMMA PodKeep ==
  ASSUME PodType, NEW i \in IP, NEW p \in Pod, NEW s, pod' = [pod EXCEPT ![p].st = s]
  PROVE  PodHolders(i)' \subseteq PodHolders(i)
BY DEF PodType, PodHolders

LEMMA ReplyErrorHolders ==
  ASSUME TypeOK, LocalInv, NEW n \in Node, NEW i \in IP, req[n] # NoPod, ReplyError(n)
  PROVE  /\ HandHolders(i)' \subseteq HandHolders(i) \ {<<"hand", n>>}
         /\ PodHolders(i)' \subseteq PodHolders(i)
<1>1. req[n] \in Pod /\ MgrType /\ PodType
  BY MgrFacts DEF TypeOK
<1>2. HandHolders(i)' \subseteq HandHolders(i) \ {<<"hand", n>>}
  BY <1>1, FinishHand DEF ReplyError
<1>3. PodHolders(i)' \subseteq PodHolders(i)
  <2>1. PodIdle.ip = NoIP /\ pod' = [pod EXCEPT ![req[n]] = PodIdle]
    BY DEF PodIdle, ReplyError
  <2> QED
    BY <1>1, <2>1, PodDrop
<1> QED
  BY <1>2, <1>3

LEMMA ReplyIPHolders ==
  ASSUME TypeOK, LocalInv, NEW n \in Node, NEW i \in IP, req[n] # NoPod, ReplyIP(n)
  PROVE  /\ HandHolders(i)' \subseteq HandHolders(i) \ {<<"hand", n>>}
         /\ PodHolders(i)' \subseteq PodHolders(i) \cup {x \in {<<"pod", req[n]>>} : i = hand[n].ip}
<1>1. req[n] \in Pod /\ MgrType /\ PodType
  BY MgrFacts DEF TypeOK
<1>2. HandHolders(i)' \subseteq HandHolders(i) \ {<<"hand", n>>}
  BY <1>1, FinishHand DEF ReplyIP
<1>3. /\ \A q \in Pod \ {req[n]} : pod'[q] = pod[q]
      /\ pod'[req[n]].ip = hand[n].ip
  BY <1>1 DEF ReplyIP, PodType
<1>4. PodHolders(i)' \subseteq PodHolders(i) \cup {x \in {<<"pod", req[n]>>} : i = hand[n].ip}
  BY <1>1, <1>3, PodSet
<1> QED
  BY <1>2, <1>4

(* A step in which no address gains a holder, and one in which only j may  *)
(* gain one, y.                                                            *)
NoneGains ==
  \A i \in IP : /\ PoolHolders(i)' \subseteq PoolHolders(i)
                /\ CoolHolders(i)' \subseteq CoolHolders(i)
                /\ HandHolders(i)' \subseteq HandHolders(i)
                /\ LendHolders(i)' \subseteq LendHolders(i)
                /\ PodHolders(i)' \subseteq PodHolders(i)
OnlyGains(j, y) ==
  \A i \in IP : /\ PoolHolders(i)' \subseteq PoolHolders(i) \cup {z \in {y} : i = j}
                /\ CoolHolders(i)' \subseteq CoolHolders(i) \cup {z \in {y} : i = j}
                /\ HandHolders(i)' \subseteq HandHolders(i) \cup {z \in {y} : i = j}
                /\ LendHolders(i)' \subseteq LendHolders(i) \cup {z \in {y} : i = j}
                /\ PodHolders(i)' \subseteq PodHolders(i) \cup {z \in {y} : i = j}

LEMMA HoldersShrink ==
  ASSUME Exclusive, FreeUnheld, UNCHANGED vpc, NoneGains
  PROVE  Exclusive' /\ FreeUnheld'
<1>1. \A i \in IP : Holders(i)' \subseteq Holders(i)
  BY DEF Holders, NoneGains
<1> QED
  BY <1>1, HoldersStep

LEMMA HoldersMove ==
  ASSUME Exclusive, FreeUnheld, NEW j \in IP, NEW y,
         \A i \in IP \ {j} : vpc'[i] = vpc[i] /\ Holders(i)' \subseteq Holders(i),
         Holders(j)' = {} \/ (vpc'[j] # NoNode /\ Holders(j)' \subseteq {y})
  PROVE  Exclusive' /\ FreeUnheld'
BY HoldersStep

LEMMA HolderOnly ==
  ASSUME NEW i
  PROVE  /\ \A n \in Node : i \notin pool'[n] => <<"pool", n>> \notin Holders(i)'
         /\ \A n \in Node : i \notin cool'[n] => <<"cool", n>> \notin Holders(i)'
         /\ \A n \in Node : ~InHand(n, i)' => <<"hand", n>> \notin Holders(i)'
         /\ \A l, b \in Node : ~Lending(l, b, i)' => <<"lend", <<l, b>>>> \notin Holders(i)'
         /\ \A p \in Pod : pod'[p].ip # i => <<"pod", p>> \notin Holders(i)'
BY DEF Holders, PoolHolders, CoolHolders, HandHolders, LendHolders, PodHolders

(* The one holder x of address j gives it to y, *)
LEMMA Moved ==
  ASSUME Exclusive, FreeUnheld, NEW j \in IP, NEW x, NEW y,
         Holders(j) \subseteq {x}, x \notin Holders(j)' \/ x = y,
         \A i \in IP \ {j} : vpc'[i] = vpc[i],
         vpc'[j] # NoNode, OnlyGains(j, y)
  PROVE  Exclusive' /\ FreeUnheld'
<1>1. \A i \in IP : Holders(i)' \subseteq Holders(i) \cup {z \in {y} : i = j}
  BY DEF Holders, OnlyGains
<1>2. Holders(j)' \subseteq {y}
  BY <1>1
<1>3. \A i \in IP \ {j} : Holders(i)' \subseteq Holders(i)
  BY <1>1
<1> QED
  BY <1>2, <1>3, HoldersMove

(* or forgets it. *)
LEMMA Dropped ==
  ASSUME Exclusive, FreeUnheld, NEW j \in IP, NEW x,
         Holders(j) \subseteq {x}, x \notin Holders(j)',
         \A i \in IP \ {j} : vpc'[i] = vpc[i], NoneGains
  PROVE  Exclusive' /\ FreeUnheld'
<1>1. \A i \in IP : Holders(i)' \subseteq Holders(i)
  BY DEF Holders, NoneGains
<1>2. Holders(j)' = {}
  BY <1>1
<1> QED
  BY <1>1, <1>2, HoldersMove

(* A release touches no other address, and detaches or keeps its own. *)
LEMMA DeleteEffect ==
  ASSUME VpcType, NEW n \in Node, NEW j \in IP, NEW o, uapiDeleteSecondaryIp(n, j, o)
  PROVE  /\ \A i \in IP \ {j} : vpc'[i] = vpc[i] /\ (i \in checked' <=> i \in checked)
         /\ UNCHANGED <<vpc, checked>> \/ (vpc[j] = n /\ vpc'[j] = NoNode)
BY DEF uapiDeleteSecondaryIp, Attach, VpcType, vpcVars

LEMMA BackupEffect ==
  ASSUME VpcType, NEW n \in Node, NEW j \in IP, backupReleaseSecondaryIP(n, j)
  PROVE  /\ \A i \in IP \ {j} : vpc'[i] = vpc[i] /\ (i \in checked' <=> i \in checked)
         /\ UNCHANGED <<vpc, checked>> \/ (vpc[j] = n /\ vpc'[j] = NoNode)
BY DeleteEffect DEF backupReleaseSecondaryIP

LEMMA AttachEffect ==
  ASSUME VpcType, NEW m, NEW j \in IP, Attach(j, m)
  PROVE  /\ \A i \in IP \ {j} : vpc'[i] = vpc[i] /\ (i \in checked' <=> i \in checked)
         /\ vpc'[j] = m
BY DEF Attach, VpcType

----------------------------------------------------------------------------
(* Every address has at most one holder, and none when it is free.         *)

LEMMA HoldersSafe ==
  TypeOK /\ LocalInv /\ OverInv /\ SafeInv /\ Next /\ hazards' = {} => Exclusive' /\ FreeUnheld'
<1> SUFFICES ASSUME TypeOK, LocalInv, OverInv, SafeInv, Next, hazards' = {}
             PROVE  Exclusive' /\ FreeUnheld'
  OBVIOUS
<1>a. VpcType /\ PoolType /\ CoolType /\ LendType /\ PodType /\ MgrType
  BY DEF TypeOK
<1>e. Exclusive /\ FreeUnheld
  BY DEF SafeInv
<1>o. \A n \in Node : over[n] \subseteq cool[n]
  BY DEF OverInv
<1>i. NoIP \notin IP
  BY ConstAssumption
<1>1. ASSUME NEW n \in Node, NEW p \in Pod, RecvAdd(n, p) PROVE Exclusive' /\ FreeUnheld'
  <2>0. PodIdle.ip = NoIP
    BY DEF PodIdle
  <2>1. UNCHANGED <<vpc, pool, cool>>
    BY <1>1 DEF RecvAdd, vpcVars, poolVars, coolVars
  <2>2. \A i \in IP : HandHolders(i)' \subseteq HandHolders(i)
    BY <1>1, <1>a, FinishHand, HandGoto DEF RecvAdd
  <2>4. \A i \in IP : PodHolders(i)' \subseteq PodHolders(i)
    BY <1>1, <1>a, <2>0, PodDrop, PodKeep DEF RecvAdd
  <2>u. UNCHANGED <<lend>>
    BY <1>1 DEF RecvAdd, mgrVars
  <2> QED
    BY <2>1, <2>2, <2>4, <2>u, <1>e, HoldersUnchanged, HoldersShrink DEF NoneGains
<1>2. ASSUME NEW n \in Node, NEW p \in Pod, RecvDel(n, p) PROVE Exclusive' /\ FreeUnheld'
  <2>j. PICK j : j = pod[p].ip
    OBVIOUS
  <2>1. j \in IP /\ PodIdle.ip = NoIP /\ j # NoIP
    BY <1>2, <2>j, <1>i, PodFacts DEF RecvDel, PodIdle
  <2>2. Holders(j) = {<<"pod", p>>} /\ vpc[j] # NoNode
    BY <2>j, <2>1, <1>e, PodAlone
  <2>3. pod' = [pod EXCEPT ![p] = PodIdle] /\ UNCHANGED <<pool, lend>>
    BY <1>2, <2>j DEF RecvDel, poolVars
  <2>4. <<"pod", p>> \notin Holders(j)'
    BY <2>j, <2>1, <2>3, <1>a, HolderOnly DEF PodType
  <2>5. \A i \in IP : PodHolders(i)' \subseteq PodHolders(i) /\ HandHolders(i)' \subseteq HandHolders(i)
    BY <1>2, <2>j, <2>1, <2>3, <1>a, PodDrop, FinishHand DEF RecvDel
  <2>6. CASE cool' = [cool EXCEPT ![n] = @ \cup {j}] /\ UNCHANGED vpcVars
    <3>1. \A i \in IP : CoolHolders(i)' \subseteq CoolHolders(i) \cup {z \in {<<"cool", n>>} : i = j}
      BY <2>6, <1>a, CoolAdd
    <3>2. UNCHANGED vpc
      BY <2>6 DEF vpcVars
    <3>q. OnlyGains(j, <<"cool", n>>)
      BY <2>j, <2>1, <2>2, <2>3, <2>4, <2>5, <3>1, <3>2, HoldersUnchanged DEF OnlyGains
    <3> QED
      BY <2>1, <2>2, <2>4, <3>2, <3>q, <1>e, Moved
  <2>7. CASE backupReleaseSecondaryIP(n, j) /\ UNCHANGED coolVars
    <3>1. UNCHANGED cool /\ \A i \in IP \ {j} : vpc'[i] = vpc[i]
      BY <2>j, <2>1, <2>7, <1>a, BackupEffect DEF coolVars
    <3>q. NoneGains
      BY <2>j, <2>1, <2>2, <2>3, <2>4, <2>5, <3>1, HoldersUnchanged DEF NoneGains
    <3> QED
      BY <2>1, <2>2, <2>4, <3>1, <3>q, <1>e, Dropped
  <2> QED
    BY <1>2, <2>j, <2>6, <2>7 DEF RecvDel
<1>3. ASSUME NEW n \in Node, WatermarkTick(n) PROVE Exclusive' /\ FreeUnheld'
  <2>1. UNCHANGED <<vpc, pool, cool>>
    BY <1>3 DEF WatermarkTick, vpcVars, poolVars, coolVars
  <2>2. \A i \in IP : HandHolders(i)' \subseteq HandHolders(i)
    BY <1>3, <1>a, FinishHand, HandGoto DEF WatermarkTick
  <2>u. UNCHANGED <<lend, pod>>
    BY <1>3 DEF WatermarkTick, mgrVars
  <2> QED
    BY <2>1, <2>2, <2>u, <1>e, HoldersUnchanged, HoldersShrink DEF NoneGains
<1>4. ASSUME NEW n \in Node, CooldownTick(n) PROVE Exclusive' /\ FreeUnheld'
  <2>1. UNCHANGED <<vpc, pool, cool>>
    BY <1>4 DEF CooldownTick, vpcVars, poolVars, coolVars
  <2>2. \A i \in IP : HandHolders(i)' \subseteq HandHolders(i)
    BY <1>4, <1>a, FinishHand, HandGoto DEF CooldownTick
  <2>u. UNCHANGED <<lend, pod>>
    BY <1>4 DEF CooldownTick, mgrVars
  <2> QED
    BY <2>1, <2>2, <2>u, <1>e, HoldersUnchanged, HoldersShrink DEF NoneGains
<1>5. ASSUME NEW n \in Node, MgrPopView(n) PROVE Exclusive' /\ FreeUnheld'
  <2>1. UNCHANGED <<vpc, pool, cool>>
    BY <1>5 DEF MgrPopView, vpcVars, poolVars, coolVars
  <2>2. \A i \in IP : HandHolders(i)' \subseteq HandHolders(i)
    BY <1>5, <1>a, FinishHand, HandGoto, HandDrop DEF MgrPopView, Goto
  <2>u. UNCHANGED <<lend, pod>>
    BY <1>5 DEF MgrPopView, mgrVars
  <2> QED
    BY <2>1, <2>2, <2>u, <1>e, HoldersUnchanged, HoldersShrink DEF NoneGains
<1>6. ASSUME NEW n \in Node, MgrPopDelete(n) PROVE Exclusive' /\ FreeUnheld'
  <2>j. PICK j : j = hand[n].ip
    OBVIOUS
  <2>1. j \in IP /\ j \in pool[n]
    BY <1>6, <2>j, MgrFacts DEF MgrPopDelete, PopDelete
  <2>2. Holders(j) = {<<"pool", n>>} /\ vpc[j] # NoNode
    BY <2>j, <2>1, <1>e, PoolAlone
  <2>3. /\ pool' = [pool EXCEPT ![n] = @ \ {j}]
        /\ UNCHANGED <<vpc, cool, lend, pod>>
    BY <1>6, <2>j DEF MgrPopDelete, PopDelete, vpcVars, coolVars
  <2>4. <<"pool", n>> \notin Holders(j)'
    BY <2>1, <2>3, <1>a, HolderOnly DEF PoolType
  <2>5. \A i \in IP : PoolHolders(i)' \subseteq PoolHolders(i)
    BY <2>3, <1>a, PoolRemove
  <2>6. \A m \in Node \ {n} : pc'[m] = pc[m] /\ hand'[m] = hand[m]
    BY <1>6, <2>j, <1>a DEF MgrPopDelete, Goto, MgrType
  <2>7. \A i : InHand(n, i)' => i = j
    BY <1>6, <2>j DEF MgrPopDelete, InHand
  <2>8. \A i \in IP : HandHolders(i)' \subseteq HandHolders(i) \cup {z \in {<<"hand", n>>} : i = j}
    BY <2>6, <2>7, <1>a, HandSet
  <2>q. OnlyGains(j, <<"hand", n>>)
    BY <2>j, <2>1, <2>2, <2>3, <2>4, <2>5, <2>8, HoldersUnchanged DEF OnlyGains
  <2> QED
    BY <2>1, <2>2, <2>3, <2>4, <2>q, <1>e, Moved
<1>7. ASSUME NEW n \in Node, MgrPopError(n) PROVE Exclusive' /\ FreeUnheld'
  <2>1. UNCHANGED <<vpc, pool, cool, lend>>
    BY <1>7 DEF MgrPopError, vpcVars, poolVars, coolVars
  <2>2. CASE req[n] = NoPod
    <3>1. Finish(n) /\ UNCHANGED pod
      BY <1>7, <2>2 DEF MgrPopError
    <3>2. \A i \in IP : HandHolders(i)' \subseteq HandHolders(i)
      BY <3>1, <1>a, FinishHand
    <3> QED
      BY <2>1, <3>1, <3>2, <1>e, HoldersUnchanged, HoldersShrink DEF NoneGains
  <2>3. CASE req[n] # NoPod
    <3>1. \A i \in IP : HandHolders(i)' \subseteq HandHolders(i) /\ PodHolders(i)' \subseteq PodHolders(i)
      BY <1>7, <2>3, ReplyErrorHolders, TypeOK, LocalInv DEF MgrPopError
    <3> QED
      BY <2>1, <3>1, <1>e, HoldersUnchanged, HoldersShrink DEF NoneGains
  <2> QED
    BY <2>2, <2>3
<1>8. ASSUME NEW n \in Node, uapiAllocateSecondaryIP(n) PROVE Exclusive' /\ FreeUnheld'
  <2>1. UNCHANGED <<pool, cool, lend>> /\ req[n] # NoPod /\ pc[n] = "alloc"
    BY <1>8, MgrFacts DEF uapiAllocateSecondaryIP, poolVars, coolVars
  <2>2. CASE Goto(n, "borrow") /\ UNCHANGED <<vpcVars, hand, pod>>
    <3>1. UNCHANGED vpc /\ \A i \in IP : HandHolders(i)' \subseteq HandHolders(i)
      BY <2>1, <2>2, <1>a, HandGoto DEF vpcVars
    <3> QED
      BY <2>1, <2>2, <3>1, <1>e, HoldersUnchanged, HoldersShrink DEF NoneGains
  <2>3. CASE ReplyError(n) /\ UNCHANGED vpcVars
    <3>1. UNCHANGED vpc /\ \A i \in IP : HandHolders(i)' \subseteq HandHolders(i) /\ PodHolders(i)' \subseteq PodHolders(i)
      BY <2>1, <2>3, ReplyErrorHolders, TypeOK, LocalInv DEF vpcVars
    <3> QED
      BY <2>1, <3>1, <1>e, HoldersUnchanged, HoldersShrink DEF NoneGains
  <2>4. ASSUME NEW j \in IP, vpc[j] = NoNode, Attach(j, n), ReplyError(n)
        PROVE  Exclusive' /\ FreeUnheld'
    <3>1. Holders(j) = {}
      BY <2>4, <1>e, FreeAlone
    <3>2. (\A i \in IP \ {j} : vpc'[i] = vpc[i]) /\ vpc'[j] = n
      BY <2>4, <1>a, AttachEffect
    <3>3. \A i \in IP : HandHolders(i)' \subseteq HandHolders(i) /\ PodHolders(i)' \subseteq PodHolders(i)
      BY <2>1, <2>4, ReplyErrorHolders, TypeOK, LocalInv
    <3>4. \A i \in IP : Holders(i)' \subseteq Holders(i)
      BY <2>1, <3>3, HoldersUnchanged DEF Holders
    <3> QED
      BY <3>1, <3>2, <3>4, <1>e, HoldersMove
  <2>5. ASSUME NEW j \in IP, vpc[j] = NoNode, Attach(j, n), Goto(n, "check"),
               hand' = [hand EXCEPT ![n] = [ip |-> j, tag |-> "new"]], UNCHANGED pod
        PROVE  Exclusive' /\ FreeUnheld'
    <3>1. Holders(j) \subseteq {<<"hand", n>>}
      BY <2>5, <1>e, FreeAlone
    <3>2. (\A i \in IP \ {j} : vpc'[i] = vpc[i]) /\ vpc'[j] # NoNode
      BY <2>5, <1>a, AttachEffect, ConstAssumption
    <3>3. \A i \in IP : HandHolders(i)' \subseteq HandHolders(i) \cup {z \in {<<"hand", n>>} : i = j}
      BY <2>5, <1>a, HandTake DEF Goto
    <3>q. OnlyGains(j, <<"hand", n>>)
      BY <2>1, <2>5, <3>1, <3>2, <3>3, HoldersUnchanged DEF OnlyGains
    <3> QED
      BY <2>1, <2>5, <3>1, <3>2, <3>q, <1>e, Moved
  <2> QED
    BY <1>8, <2>2, <2>3, <2>4, <2>5 DEF uapiAllocateSecondaryIP
<1>9. ASSUME NEW n \in Node, checkSecondaryIpExist(n) PROVE Exclusive' /\ FreeUnheld'
  <2>j. PICK j : j = hand[n].ip
    OBVIOUS
  <2>1. j \in IP /\ j # NoIP /\ InHand(n, j) /\ req[n] # NoPod /\ pc[n] = "check"
    BY <1>9, <2>j, <1>i, MgrFacts DEF checkSecondaryIpExist, InHand
  <2>2. Holders(j) = {<<"hand", n>>} /\ vpc[j] # NoNode
    BY <2>j, <2>1, <1>e, HandAlone
  <2>3. UNCHANGED <<cool, lend>>
    BY <1>9, <2>j DEF checkSecondaryIpExist, coolVars
  <2>4. CASE Goto(n, "garp") /\ UNCHANGED <<vpcVars, poolVars, hand, pod>>
    <3>1. UNCHANGED <<vpc, pool>> /\ \A i \in IP : HandHolders(i)' \subseteq HandHolders(i)
      BY <2>j, <2>1, <2>4, <1>a, HandGoto DEF vpcVars, poolVars
    <3> QED
      BY <2>3, <2>4, <3>1, <1>e, HoldersUnchanged, HoldersShrink DEF NoneGains
  <2>5. CASE ReplyIP(n) /\ UNCHANGED <<vpcVars, poolVars>>
    <3>1. \A i \in IP : /\ HandHolders(i)' \subseteq HandHolders(i)
                        /\ PodHolders(i)' \subseteq PodHolders(i) \cup {x \in {<<"pod", req[n]>>} : i = j}
      BY <2>j, <2>1, <2>5, ReplyIPHolders, TypeOK, LocalInv
    <3>2. <<"hand", n>> \notin Holders(j)'
      BY <2>j, <2>1, <2>5, <1>a, HolderOnly DEF ReplyIP, Finish, ResetLocals, NoNetwork, InHand, MgrType
    <3>3. UNCHANGED <<vpc, pool>>
      BY <2>5 DEF vpcVars, poolVars
    <3>q. OnlyGains(j, <<"pod", req[n]>>)
      BY <2>j, <2>1, <2>2, <2>3, <3>1, <3>2, <3>3, HoldersUnchanged DEF OnlyGains
    <3> QED
      BY <2>1, <2>2, <3>2, <3>3, <3>q, <1>e, Moved
  <2>6. ASSUME ReplyError(n) PROVE Exclusive' /\ FreeUnheld'
    <3>1. \A i \in IP : HandHolders(i)' \subseteq HandHolders(i) /\ PodHolders(i)' \subseteq PodHolders(i)
      BY <2>j, <2>1, <2>6, ReplyErrorHolders, TypeOK, LocalInv
    <3>2. <<"hand", n>> \notin Holders(j)'
      BY <2>j, <2>1, <2>6, <1>a, HolderOnly DEF ReplyError, Finish, ResetLocals, NoNetwork, InHand, MgrType
    <3>3. CASE PoolPut(n, j, hand[n].tag) /\ UNCHANGED vpcVars
      <4>1. UNCHANGED vpc /\ \A i \in IP : PoolHolders(i)' \subseteq PoolHolders(i) \cup {z \in {<<"pool", n>>} : i = j}
        BY <3>3, <1>a, PoolAdd DEF PoolPut, vpcVars
      <4>q. OnlyGains(j, <<"pool", n>>)
        BY <2>j, <2>1, <2>2, <2>3, <3>1, <3>2, <4>1, HoldersUnchanged DEF OnlyGains
      <4> QED
        BY <2>1, <2>2, <3>2, <4>1, <4>q, <1>e, Moved
    <3>4. CASE (UNCHANGED vpcVars \/ backupReleaseSecondaryIP(n, j)) /\ UNCHANGED poolVars
      <4>1. UNCHANGED pool /\ \A i \in IP \ {j} : vpc'[i] = vpc[i]
        BY <2>j, <2>1, <3>4, <1>a, BackupEffect DEF vpcVars, poolVars
      <4>q. NoneGains
        BY <2>j, <2>1, <2>2, <2>3, <3>1, <3>2, <4>1, HoldersUnchanged DEF NoneGains
      <4> QED
        BY <2>1, <2>2, <3>2, <4>1, <4>q, <1>e, Dropped
    <3>5. \/ PoolPut(n, j, hand[n].tag) /\ UNCHANGED vpcVars
          \/ (UNCHANGED vpcVars \/ backupReleaseSecondaryIP(n, j)) /\ UNCHANGED poolVars
      BY <1>9, <2>j DEF checkSecondaryIpExist, putIpToPool
    <3> QED
      BY <3>3, <3>4, <3>5
  <2> QED
    BY <1>9, <2>j, <2>4, <2>5, <2>6 DEF checkSecondaryIpExist
<1>10. ASSUME NEW n \in Node, checkIPConflict(n) PROVE Exclusive' /\ FreeUnheld'
  <2>j. PICK j : j = hand[n].ip
    OBVIOUS
  <2>1. j \in IP /\ j # NoIP /\ InHand(n, j) /\ req[n] # NoPod
    BY <1>10, <2>j, <1>i, MgrFacts DEF checkIPConflict, InHand
  <2>2. Holders(j) = {<<"hand", n>>} /\ vpc[j] # NoNode
    BY <2>j, <2>1, <1>e, HandAlone
  <2>3. UNCHANGED <<pool, cool, lend>>
    BY <1>10, <2>j DEF checkIPConflict, poolVars, coolVars
  <2>4. CASE ReplyIP(n) /\ UNCHANGED vpc
    <3>1. \A i \in IP : /\ HandHolders(i)' \subseteq HandHolders(i)
                        /\ PodHolders(i)' \subseteq PodHolders(i) \cup {x \in {<<"pod", req[n]>>} : i = j}
      BY <2>j, <2>1, <2>4, ReplyIPHolders, TypeOK, LocalInv
    <3>2. <<"hand", n>> \notin Holders(j)'
      BY <2>j, <2>1, <2>4, <1>a, HolderOnly DEF ReplyIP, Finish, ResetLocals, NoNetwork, InHand, MgrType
    <3>3. UNCHANGED vpc
      BY <2>4
    <3>q. OnlyGains(j, <<"pod", req[n]>>)
      BY <2>j, <2>1, <2>2, <2>3, <3>1, <3>2, <3>3, HoldersUnchanged DEF OnlyGains
    <3> QED
      BY <2>1, <2>2, <3>2, <3>3, <3>q, <1>e, Moved
  <2>5. CASE ReplyError(n) /\ \E o \in Outcome : uapiDeleteSecondaryIp(n, j, o)
    <3>1. \A i \in IP : HandHolders(i)' \subseteq HandHolders(i) /\ PodHolders(i)' \subseteq PodHolders(i)
      BY <2>j, <2>1, <2>5, ReplyErrorHolders, TypeOK, LocalInv
    <3>2. <<"hand", n>> \notin Holders(j)'
      BY <2>j, <2>1, <2>5, <1>a, HolderOnly DEF ReplyError, Finish, ResetLocals, NoNetwork, InHand, MgrType
    <3>3. \A i \in IP \ {j} : vpc'[i] = vpc[i]
      BY <2>j, <2>1, <2>5, <1>a, DeleteEffect
    <3>q. NoneGains
      BY <2>j, <2>1, <2>2, <2>3, <3>1, <3>2, <3>3, HoldersUnchanged DEF NoneGains
    <3> QED
      BY <2>1, <2>2, <3>2, <3>3, <3>q, <1>e, Dropped
  <2> QED
    BY <1>10, <2>j, <2>4, <2>5 DEF checkIPConflict
<1>11. ASSUME NEW n \in Node, releasePool(n) PROVE Exclusive' /\ FreeUnheld'
  <2>j. PICK j : j = hand[n].ip
    OBVIOUS
  <2>1. j \in IP /\ j # NoIP /\ InHand(n, j)
    BY <1>11, <2>j, <1>i, MgrFacts DEF releasePool, InHand
  <2>2. Holders(j) = {<<"hand", n>>} /\ vpc[j] # NoNode
    BY <2>j, <2>1, <1>e, HandAlone
  <2>3. UNCHANGED <<cool, lend, pod>>
    BY <1>11, <2>j DEF releasePool, coolVars
  <2>4. hand' = [hand EXCEPT ![n] = NoNetwork] /\ NoNetwork.ip = NoIP
    BY <1>11, <2>j DEF releasePool, Finish, ResetLocals, NoNetwork
  <2>5. \E s : pc' = [pc EXCEPT ![n] = s]
    BY <1>11, <2>j DEF releasePool, Finish, Goto
  <2>6. \A i \in IP : HandHolders(i)' \subseteq HandHolders(i)
    BY <2>4, <2>5, <1>a, HandDrop
  <2>7. <<"hand", n>> \notin Holders(j)'
    BY <2>j, <2>1, <2>4, <1>a, HolderOnly DEF InHand, MgrType
  <2>8. CASE UNCHANGED poolVars /\ \E o \in Outcome : uapiDeleteSecondaryIp(n, j, o)
    <3>1. UNCHANGED pool /\ \A i \in IP \ {j} : vpc'[i] = vpc[i]
      BY <2>j, <2>1, <2>8, <1>a, DeleteEffect DEF poolVars
    <3>q. NoneGains
      BY <2>j, <2>1, <2>2, <2>3, <2>6, <2>7, <3>1, HoldersUnchanged DEF NoneGains
    <3> QED
      BY <2>1, <2>2, <2>7, <3>1, <3>q, <1>e, Dropped
  <2>9. CASE PoolPut(n, j, hand[n].tag) /\ uapiDeleteSecondaryIp(n, j, "fail")
    <3>1. UNCHANGED vpc
      BY <2>9 DEF uapiDeleteSecondaryIp, vpcVars
    <3>2. \A i \in IP : PoolHolders(i)' \subseteq PoolHolders(i) \cup {z \in {<<"pool", n>>} : i = j}
      BY <2>9, <1>a, PoolAdd DEF PoolPut
    <3>q. OnlyGains(j, <<"pool", n>>)
      BY <2>j, <2>1, <2>2, <2>3, <2>6, <2>7, <3>1, <3>2, HoldersUnchanged DEF OnlyGains
    <3> QED
      BY <2>1, <2>2, <2>7, <3>1, <3>q, <1>e, Moved
  <2> QED
    BY <1>11, <2>j, <2>8, <2>9 DEF releasePool, backupPushSecondaryIP, Outcome
<1>12. ASSUME NEW n \in Node, RecycleDelete(n) PROVE Exclusive' /\ FreeUnheld'
  <2>1. UNCHANGED <<vpc, pool, lend, pod>> /\ pc[n] = "recycle"
    BY <1>12 DEF RecycleDelete, vpcVars, poolVars
  <2>2. CASE Finish(n) /\ UNCHANGED coolVars
    <3>1. UNCHANGED cool /\ \A i \in IP : HandHolders(i)' \subseteq HandHolders(i)
      BY <2>2, <1>a, FinishHand DEF coolVars
    <3> QED
      BY <2>1, <3>1, <1>e, HoldersUnchanged, HoldersShrink DEF NoneGains
  <2>3. ASSUME NEW j \in over[n], cool' = [cool EXCEPT ![n] = @ \ {j}], Goto(n, "put"),
               hand' = [hand EXCEPT ![n] = [ip |-> j, tag |-> "recycled"]]
        PROVE  Exclusive' /\ FreeUnheld'
    <3>1. j \in IP /\ j \in cool[n]
      BY <1>o, <1>a DEF CoolType
    <3>2. Holders(j) = {<<"cool", n>>} /\ vpc[j] # NoNode
      BY <3>1, <1>e, CoolAlone
    <3>3. <<"cool", n>> \notin Holders(j)'
      BY <2>1, <2>3, <1>a, HolderOnly DEF CoolType
    <3>4. \A i \in IP : CoolHolders(i)' \subseteq CoolHolders(i)
      BY <2>3, <1>a, CoolRemove
    <3>5. \A i \in IP : HandHolders(i)' \subseteq HandHolders(i) \cup {z \in {<<"hand", n>>} : i = j}
      BY <2>3, <1>a, HandTake DEF Goto
    <3>q. OnlyGains(j, <<"hand", n>>)
      BY <2>1, <3>1, <3>2, <3>3, <3>4, <3>5, HoldersUnchanged DEF OnlyGains
    <3> QED
      BY <2>1, <3>1, <3>2, <3>3, <3>q, <1>e, Moved
  <2> QED
    BY <1>12, <2>2, <2>3 DEF RecycleDelete
<1>13. ASSUME NEW n \in Node, RecyclePut(n) PROVE Exclusive' /\ FreeUnheld'
  <2>j. PICK j : j = hand[n].ip
    OBVIOUS
  <2>1. j \in IP /\ j # NoIP /\ InHand(n, j)
    BY <1>13, <2>j, <1>i, MgrFacts DEF RecyclePut, InHand
  <2>2. Holders(j) = {<<"hand", n>>} /\ vpc[j] # NoNode
    BY <2>j, <2>1, <1>e, HandAlone
  <2>3. UNCHANGED <<cool, lend, pod>>
    BY <1>13, <2>j DEF RecyclePut, coolVars
  <2>4. hand' = [hand EXCEPT ![n] = NoNetwork] /\ NoNetwork.ip = NoIP
    BY <1>13, <2>j DEF RecyclePut, NoNetwork
  <2>6. \A i \in IP : HandHolders(i)' \subseteq HandHolders(i)
    BY <1>13, <2>j, <2>4, <1>a, HandDrop DEF RecyclePut, Goto
  <2>7. <<"hand", n>> \notin Holders(j)'
    BY <2>j, <2>1, <2>4, <1>a, HolderOnly DEF InHand, MgrType
  <2>8. CASE UNCHANGED poolVars /\ backupReleaseSecondaryIP(n, j)
    <3>1. UNCHANGED pool /\ \A i \in IP \ {j} : vpc'[i] = vpc[i]
      BY <2>j, <2>1, <2>8, <1>a, BackupEffect DEF poolVars
    <3>q. NoneGains
      BY <2>j, <2>1, <2>2, <2>3, <2>6, <2>7, <3>1, HoldersUnchanged DEF NoneGains
    <3> QED
      BY <2>1, <2>2, <2>7, <3>1, <3>q, <1>e, Dropped
  <2>9. CASE PoolPut(n, j, hand[n].tag) /\ UNCHANGED vpcVars
    <3>1. UNCHANGED vpc /\ \A i \in IP : PoolHolders(i)' \subseteq PoolHolders(i) \cup {z \in {<<"pool", n>>} : i = j}
      BY <2>9, <1>a, PoolAdd DEF PoolPut, vpcVars
    <3>q. OnlyGains(j, <<"pool", n>>)
      BY <2>j, <2>1, <2>2, <2>3, <2>6, <2>7, <3>1, HoldersUnchanged DEF OnlyGains
    <3> QED
      BY <2>1, <2>2, <2>7, <3>1, <3>q, <1>e, Moved
  <2> QED
    BY <1>13, <2>j, <2>8, <2>9 DEF RecyclePut, putIpToPool
<1>14. ASSUME NEW n \in Node, updateStatus(n) PROVE Exclusive' /\ FreeUnheld'
  <2>1. UNCHANGED <<vpc, pool, cool>>
    BY <1>14 DEF updateStatus, vpcVars, poolVars, coolVars
  <2>2. \A i \in IP : HandHolders(i)' \subseteq HandHolders(i)
    BY <1>14, <1>a, FinishHand, HandGoto DEF updateStatus
  <2>u. UNCHANGED <<lend, pod>>
    BY <1>14 DEF updateStatus, mgrVars
  <2> QED
    BY <2>1, <2>2, <2>u, <1>e, HoldersUnchanged, HoldersShrink DEF NoneGains
<1>15. ASSUME NEW n \in Node, ListIpamds(n) PROVE Exclusive' /\ FreeUnheld'
  <2>1. UNCHANGED <<vpc, pool, cool>>
    BY <1>15 DEF ListIpamds, vpcVars, poolVars, coolVars
  <2>2. \A i \in IP : HandHolders(i)' \subseteq HandHolders(i)
    BY <1>15, <1>a, ReplyErrorHolders, HandGoto, MgrFacts, TypeOK, LocalInv DEF ListIpamds
  <2>4. \A i \in IP : PodHolders(i)' \subseteq PodHolders(i)
    BY <1>15, ReplyErrorHolders, MgrFacts, HoldersUnchanged, TypeOK, LocalInv DEF ListIpamds
  <2>u. UNCHANGED <<lend>>
    BY <1>15 DEF ListIpamds, mgrVars
  <2> QED
    BY <2>1, <2>2, <2>4, <2>u, <1>e, HoldersUnchanged, HoldersShrink DEF NoneGains
<1>16. ASSUME NEW n \in Node, BorrowCall(n) PROVE Exclusive' /\ FreeUnheld'
  <2>1. UNCHANGED <<vpc, pool, cool>>
    BY <1>16 DEF BorrowCall, vpcVars, poolVars, coolVars
  <2>2. \A i \in IP : HandHolders(i)' \subseteq HandHolders(i)
    BY <1>16, <1>a, ReplyErrorHolders, HandGoto, MgrFacts, TypeOK, LocalInv DEF BorrowCall, Skip
  <2>3. \A i \in IP : LendHolders(i)' \subseteq LendHolders(i)
    BY <1>16, <1>a, LendDrop, LendStateFacts, HoldersUnchanged DEF BorrowCall
  <2>4. \A i \in IP : PodHolders(i)' \subseteq PodHolders(i)
    BY <1>16, ReplyErrorHolders, MgrFacts, HoldersUnchanged, TypeOK, LocalInv DEF BorrowCall
  <2> QED
    BY <2>1, <2>2, <2>3, <2>4, <1>e, HoldersUnchanged, HoldersShrink DEF NoneGains
<1>17. ASSUME NEW n \in Node, BorrowReturn(n) PROVE Exclusive' /\ FreeUnheld'
  <2>c. PICK c : c = peer[n]
    OBVIOUS
  <2>1. c \in Node /\ pc[n] = "rpc" /\ LendIdle.ip = NoIP
    BY <1>17, <2>c, MgrFacts, LendStateFacts DEF BorrowReturn
  <2>2. UNCHANGED <<vpc, pool, cool, pod>> /\ SetLend(c, n, LendIdle)
    BY <1>17, <2>c DEF BorrowReturn, vpcVars, poolVars, coolVars
  <2>3. \A i \in IP : LendHolders(i)' \subseteq LendHolders(i)
    BY <2>1, <2>2, <1>a, LendDrop
  <2>4. CASE Skip(n, c)
    <3>1. \A i \in IP : HandHolders(i)' \subseteq HandHolders(i)
      BY <2>1, <2>4, <1>a, HandGoto DEF Skip
    <3> QED
      BY <2>2, <2>3, <3>1, <1>e, HoldersUnchanged, HoldersShrink DEF NoneGains
  <2>5. CASE lend[c][n].pc = "ok" /\ Goto(n, "check") /\ hand' = [hand EXCEPT ![n] = Borrowed(lend[c][n])]
    <3>j. PICK j : j = lend[c][n].ip
      OBVIOUS
    <3>1. j \in IP /\ Lending(c, n, j) /\ Borrowed(lend[c][n]).ip = j
      BY <3>j, <2>1, <2>5, LendFacts DEF Lending, Borrowed
    <3>2. Holders(j) = {<<"lend", <<c, n>>>>} /\ vpc[j] # NoNode
      BY <3>j, <2>1, <3>1, <1>e, LendAlone
    <3>3. <<"lend", <<c, n>>>> \notin Holders(j)'
      BY <3>j, <2>1, <2>2, <3>1, <1>a, <1>i, HolderOnly DEF SetLend, Lending, LendType
    <3>4. \A i \in IP : HandHolders(i)' \subseteq HandHolders(i) \cup {z \in {<<"hand", n>>} : i = j}
      BY <3>j, <2>5, <3>1, <1>a, HandTake, ZenonT(60) DEF Goto
    <3>q. OnlyGains(j, <<"hand", n>>)
      BY <2>2, <2>3, <3>1, <3>2, <3>3, <3>4, HoldersUnchanged DEF OnlyGains
    <3> QED
      BY <2>2, <3>1, <3>2, <3>3, <3>q, <1>e, Moved
  <2> QED
    BY <1>17, <2>c, <2>4, <2>5 DEF BorrowReturn
<1>18. ASSUME NEW n \in Node, BorrowTimeout(n) PROVE Exclusive' /\ FreeUnheld'
  <2>1. UNCHANGED <<vpc, pool, cool>>
    BY <1>18 DEF BorrowTimeout, vpcVars, poolVars, coolVars
  <2>2. \A i \in IP : HandHolders(i)' \subseteq HandHolders(i)
    BY <1>18, <1>a, HandGoto DEF BorrowTimeout, Skip
  <2>u. UNCHANGED <<lend, pod>>
    BY <1>18 DEF BorrowTimeout, mgrVars
  <2> QED
    BY <2>1, <2>2, <2>u, <1>e, HoldersUnchanged, HoldersShrink DEF NoneGains
<1>19. ASSUME NEW n \in Node, Crash(n) PROVE Exclusive' /\ FreeUnheld'
  <2>1. UNCHANGED <<vpc, pool, cool>>
    BY <1>19 DEF Crash, vpcVars, poolVars, coolVars
  <2>2. \A i \in IP : HandHolders(i)' \subseteq HandHolders(i)
    BY <1>19, <1>a, HandDrop DEF Crash, Goto, ResetLocals, NoNetwork
  <2>3. \A i \in IP : LendHolders(i)' \subseteq LendHolders(i)
    BY <1>19, <1>a, <1>i DEF Crash, LendHolders, Lending, LendType, LendIdle
  <2>4. \A i \in IP : PodHolders(i)' \subseteq PodHolders(i)
    BY <1>19, <1>a, <1>i DEF Crash, PodHolders, PodType, PodIdle
  <2> QED
    BY <2>1, <2>2, <2>3, <2>4, <1>e, HoldersUnchanged, HoldersShrink DEF NoneGains
<1>20. ASSUME NEW n \in Node, Restart(n) PROVE Exclusive' /\ FreeUnheld'
  <2>1. UNCHANGED <<vpc, pool, cool>>
    BY <1>20 DEF Restart, vpcVars, poolVars, coolVars
  <2>2. \A i \in IP : HandHolders(i)' \subseteq HandHolders(i)
    BY <1>20, <1>a, FinishHand, HandGoto DEF Restart
  <2>u. UNCHANGED <<lend, pod>>
    BY <1>20 DEF Restart, mgrVars
  <2> QED
    BY <2>1, <2>2, <2>u, <1>e, HoldersUnchanged, HoldersShrink DEF NoneGains
<1>21. ASSUME NEW n \in Node, NEW i \in IP, CooldownOver(n, i) PROVE Exclusive' /\ FreeUnheld'
  <2>1. UNCHANGED <<vpc, pool, cool, pc, hand, lend, pod>>
    BY <1>21 DEF CooldownOver, vpcVars, poolVars, mgrVars
  <2> QED
    BY <2>1, <1>e, HoldersUnchanged, HoldersShrink DEF NoneGains
<1>22. ASSUME NEW l \in Node, NEW b \in Node, LendPopView(l, b) PROVE Exclusive' /\ FreeUnheld'
  <2>1. UNCHANGED <<vpc, pool, cool>>
    BY <1>22 DEF LendPopView, vpcVars, poolVars, coolVars
  <2>3. \A i \in IP : LendHolders(i)' \subseteq LendHolders(i)
    BY <1>22, <1>a, LendDrop, LendStateFacts DEF LendPopView
  <2>u. UNCHANGED <<pc, hand, pod>>
    BY <1>22 DEF LendPopView, mgrVars
  <2> QED
    BY <2>1, <2>3, <2>u, <1>e, HoldersUnchanged, HoldersShrink DEF NoneGains
<1>23. ASSUME NEW l \in Node, NEW b \in Node, LendPopDelete(l, b) PROVE Exclusive' /\ FreeUnheld'
  <2>j. PICK j : j = lend[l][b].ip
    OBVIOUS
  <2>1. j \in IP /\ j \in pool[l] /\ lend[l][b] \in LendState
    BY <1>23, <2>j, LendFacts DEF LendPopDelete, PopDelete
  <2>2. Holders(j) = {<<"pool", l>>} /\ vpc[j] # NoNode
    BY <2>j, <2>1, <1>e, PoolAlone
  <2>3. /\ pool' = [pool EXCEPT ![l] = @ \ {j}]
        /\ UNCHANGED <<vpc, cool, pc, hand, pod>>
    BY <1>23, <2>j DEF LendPopDelete, PopDelete, vpcVars, coolVars, mgrVars
  <2>4. <<"pool", l>> \notin Holders(j)'
    BY <2>1, <2>3, <1>a, HolderOnly DEF PoolType
  <2>5. \A i \in IP : PoolHolders(i)' \subseteq PoolHolders(i)
    BY <2>3, <1>a, PoolRemove
  <2>6. PICK s : SetLend(l, b, s) /\ s.ip = j
    BY <1>23, <2>j, <2>1, LendStateFacts DEF LendPopDelete
  <2>7. \A i \in IP : LendHolders(i)' \subseteq LendHolders(i) \cup {z \in {<<"lend", <<l, b>>>>} : i = j}
    BY <2>6, <1>a, LendSet
  <2>q. OnlyGains(j, <<"lend", <<l, b>>>>)
    BY <2>j, <2>1, <2>2, <2>3, <2>4, <2>5, <2>7, HoldersUnchanged DEF OnlyGains
  <2> QED
    BY <2>1, <2>2, <2>3, <2>4, <2>q, <1>e, Moved
<1>24. ASSUME NEW l \in Node, NEW b \in Node, LendPopError(l, b) PROVE Exclusive' /\ FreeUnheld'
  <2>1. UNCHANGED <<vpc, pool, cool>>
    BY <1>24 DEF LendPopError, vpcVars, poolVars, coolVars
  <2>3. \A i \in IP : LendHolders(i)' \subseteq LendHolders(i)
    BY <1>24, <1>a, LendDrop, LendStateFacts DEF LendPopError
  <2>u. UNCHANGED <<pc, hand, pod>>
    BY <1>24 DEF LendPopError, mgrVars
  <2> QED
    BY <2>1, <2>3, <2>u, <1>e, HoldersUnchanged, HoldersShrink DEF NoneGains
<1>25. ASSUME NEW l \in Node, NEW b \in Node, uapiMoveSecondaryIPMac(l, b) PROVE Exclusive' /\ FreeUnheld'
  <2>j. PICK j : j = lend[l][b].ip
    OBVIOUS
  <2>1. j \in IP /\ j # NoIP /\ Lending(l, b, j) /\ lend[l][b] \in LendState
    BY <1>25, <2>j, <1>i, LendFacts DEF uapiMoveSecondaryIPMac, Lending
  <2>2. Holders(j) = {<<"lend", <<l, b>>>>} /\ vpc[j] # NoNode
    BY <2>j, <2>1, <1>e, LendAlone
  <2>3. UNCHANGED <<cool, pc, hand, pod>>
    BY <1>25, <2>j DEF uapiMoveSecondaryIPMac, coolVars, mgrVars
  <2>4. CASE Attach(j, b) /\ SetLend(l, b, [lend[l][b] EXCEPT !.pc = "ok"]) /\ UNCHANGED poolVars
    <3>1. PICK s : SetLend(l, b, s) /\ s.ip = j
      BY <2>j, <2>1, <2>4, LendStateFacts, ZenonT(60)
    <3>2. \A i \in IP : LendHolders(i)' \subseteq LendHolders(i) \cup {z \in {<<"lend", <<l, b>>>>} : i = j}
      BY <3>1, <1>a, LendSet
    <3>3. UNCHANGED pool /\ vpc'[j] # NoNode /\ \A i \in IP \ {j} : vpc'[i] = vpc[i]
      BY <2>j, <2>1, <2>4, <1>a, AttachEffect, ConstAssumption DEF poolVars
    <3>q. OnlyGains(j, <<"lend", <<l, b>>>>)
      BY <2>j, <2>1, <2>2, <2>3, <3>2, <3>3, HoldersUnchanged DEF OnlyGains
    <3> QED
      BY <2>1, <2>2, <3>3, <3>q, <1>e, Moved
  <2>5. ASSUME SetLend(l, b, [LendIdle EXCEPT !.pc = "err"]) PROVE Exclusive' /\ FreeUnheld'
    <3>1. [LendIdle EXCEPT !.pc = "err"].ip = NoIP
      BY LendStateFacts
    <3>2. \A i \in IP : LendHolders(i)' \subseteq LendHolders(i)
      BY <2>5, <3>1, <1>a, LendDrop
    <3>3. <<"lend", <<l, b>>>> \notin Holders(j)'
      BY <2>j, <2>1, <2>5, <3>1, <1>a, HolderOnly DEF SetLend, Lending, LendType
    <3>4. CASE PoolPut(l, j, lend[l][b].tag) /\ (UNCHANGED vpcVars \/ Attach(j, b))
      <4>1. \A i \in IP : PoolHolders(i)' \subseteq PoolHolders(i) \cup {z \in {<<"pool", l>>} : i = j}
        BY <3>4, <1>a, PoolAdd DEF PoolPut
      <4>2. vpc'[j] # NoNode /\ \A i \in IP \ {j} : vpc'[i] = vpc[i]
        BY <2>j, <2>1, <2>2, <3>4, <1>a, AttachEffect, ConstAssumption DEF vpcVars
      <4>q. OnlyGains(j, <<"pool", l>>)
        BY <2>j, <2>1, <2>2, <2>3, <3>2, <3>3, <4>1, <4>2, HoldersUnchanged DEF OnlyGains
      <4> QED
        BY <2>1, <2>2, <3>3, <4>2, <4>q, <1>e, Moved
    <3>5. CASE UNCHANGED poolVars /\ (backupReleaseSecondaryIP(l, j) \/ Attach(j, b))
      <4>1. UNCHANGED pool /\ \A i \in IP \ {j} : vpc'[i] = vpc[i]
        BY <2>j, <2>1, <3>5, <1>a, BackupEffect, AttachEffect DEF poolVars
      <4>q. NoneGains
        BY <2>j, <2>1, <2>2, <2>3, <3>2, <3>3, <4>1, HoldersUnchanged DEF NoneGains
      <4> QED
        BY <2>1, <2>2, <3>3, <4>1, <4>q, <1>e, Dropped
    <3>6. CASE UNCHANGED <<vpcVars, poolVars>>
      <4>1. UNCHANGED <<vpc, pool>>
        BY <3>6 DEF vpcVars, poolVars
      <4>q. NoneGains
        BY <2>j, <2>1, <2>2, <2>3, <3>2, <3>3, <4>1, HoldersUnchanged DEF NoneGains
      <4> QED
        BY <2>1, <2>2, <3>3, <4>1, <4>q, <1>e, Dropped
    <3> QED
      BY <1>25, <2>j, <3>4, <3>5, <3>6 DEF uapiMoveSecondaryIPMac, putIpToPool, backupPushSecondaryIP, SetLend
  <2> QED
    BY <1>25, <2>j, <2>4, <2>5 DEF uapiMoveSecondaryIPMac
<1>26. ASSUME NEW l \in Node, NEW b \in Node, LendDropped(l, b) PROVE Exclusive' /\ FreeUnheld'
  <2>1. UNCHANGED <<vpc, pool, cool>>
    BY <1>26 DEF LendDropped, vpcVars, poolVars, coolVars
  <2>3. \A i \in IP : LendHolders(i)' \subseteq LendHolders(i)
    BY <1>26, <1>a, LendDrop, LendStateFacts DEF LendDropped
  <2>u. UNCHANGED <<pc, hand, pod>>
    BY <1>26 DEF LendDropped, mgrVars
  <2> QED
    BY <2>1, <2>3, <2>u, <1>e, HoldersUnchanged, HoldersShrink DEF NoneGains
<1>27. ASSUME NEW p \in Pod, AddPodNetwork(p) PROVE Exclusive' /\ FreeUnheld'
  <2>1. UNCHANGED <<vpc, pool, cool>>
    BY <1>27 DEF AddPodNetwork, vpcVars, poolVars, coolVars
  <2>4. \A i \in IP : PodHolders(i)' \subseteq PodHolders(i)
    BY <1>27, <1>a, PodKeep DEF AddPodNetwork
  <2>u. UNCHANGED <<pc, hand, lend>>
    BY <1>27 DEF AddPodNetwork, mgrVars
  <2> QED
    BY <2>1, <2>4, <2>u, <1>e, HoldersUnchanged, HoldersShrink DEF NoneGains
<1>28. ASSUME NEW p \in Pod, AnswerAdd(p) PROVE Exclusive' /\ FreeUnheld'
  <2>j. PICK j : j = pod[p].ip
    OBVIOUS
  <2>1. j \in IP /\ j # NoIP /\ PodIdle.ip = NoIP /\ PodNode[p] \in Node
    BY <1>28, <2>j, <1>i, PodFacts DEF AnswerAdd, PodIdle
  <2>2. Holders(j) = {<<"pod", p>>}
    BY <2>j, <2>1, <1>e, PodAlone
  <2>3. UNCHANGED <<pool, cool, pc, hand, lend>>
    BY <1>28, <2>j DEF AnswerAdd, poolVars, coolVars, mgrVars
  <2>4. CASE pod' = [pod EXCEPT ![p].st = "up"] /\ UNCHANGED vpcVars
    <3>1. UNCHANGED vpc /\ \A i \in IP : PodHolders(i)' \subseteq PodHolders(i)
      BY <2>4, <1>a, PodKeep DEF vpcVars
    <3> QED
      BY <2>3, <3>1, <1>e, HoldersUnchanged, HoldersShrink DEF NoneGains
  <2>5. CASE /\ pod' = [pod EXCEPT ![p] = PodIdle]
             /\ backupReleaseSecondaryIP(PodNode[p], j) \/ UNCHANGED vpcVars
    <3>1. \A i \in IP : PodHolders(i)' \subseteq PodHolders(i)
      BY <2>j, <2>1, <2>5, <1>a, PodDrop
    <3>2. <<"pod", p>> \notin Holders(j)'
      BY <2>j, <2>1, <2>5, <1>a, HolderOnly DEF PodType
    <3>3. \A i \in IP \ {j} : vpc'[i] = vpc[i]
      BY <2>j, <2>1, <2>5, <1>a, BackupEffect DEF vpcVars
    <3>q. NoneGains
      BY <2>j, <2>1, <2>2, <2>3, <3>1, <3>2, <3>3, HoldersUnchanged DEF NoneGains
    <3> QED
      BY <2>1, <2>2, <3>2, <3>3, <3>q, <1>e, Dropped
  <2> QED
    BY <1>28, <2>j, <2>4, <2>5 DEF AnswerAdd
<1>29. ASSUME NEW p \in Pod, DelPodNetwork(p) PROVE Exclusive' /\ FreeUnheld'
  <2>1. UNCHANGED <<vpc, pool, cool>>
    BY <1>29 DEF DelPodNetwork, vpcVars, poolVars, coolVars
  <2>4. \A i \in IP : PodHolders(i)' \subseteq PodHolders(i)
    BY <1>29, <1>a, PodKeep DEF DelPodNetwork
  <2>u. UNCHANGED <<pc, hand, lend>>
    BY <1>29 DEF DelPodNetwork, mgrVars
  <2> QED
    BY <2>1, <2>4, <2>u, <1>e, HoldersUnchanged, HoldersShrink DEF NoneGains
<1> QED
  BY <1>1, <1>2, <1>3, <1>4, <1>5, <1>6, <1>7, <1>8, <1>9, <1>10, <1>11, <1>12, <1>13, <1>14,
     <1>15, <1>16, <1>17, <1>18, <1>19, <1>20, <1>21, <1>22, <1>23, <1>24, <1>25, <1>26, <1>27,
     <1>28, <1>29 DEF Next, Select, MgrStep, LendStep, PodStep

----------------------------------------------------------------------------
(* The smaller parts of the invariant.                                     *)

LEMMA AuxInit == Init => OverInv /\ NoSelf
BY DEF Init, OverInv, NoSelf, NoCands, LendIdle

LEMMA AuxUnchanged ==
  ASSUME TypeOK
  PROVE  /\ OverInv /\ UNCHANGED coolVars => OverInv'
         /\ NoSelf /\ UNCHANGED <<cands, lend>> => NoSelf'
BY DEF OverInv, NoSelf, coolVars

LEMMA LendOther ==
  ASSUME LendType, NoSelf, NEW l \in Node, NEW b \in Node, NEW s, SetLend(l, b, s), l # b
  PROVE  \A n \in Node : lend'[n][n].pc = "idle"
BY DEF LendType, NoSelf, SetLend

LEMMA CandsFinish ==
  ASSUME MgrType, NoSelf, NEW n \in Node, Finish(n) \/ cands' = [cands EXCEPT ![n] = NoCands]
  PROVE  \A m \in Node : cands'[m][m] = NoCR
BY DEF MgrType, NoSelf, Finish, ResetLocals, NoCands

LEMMA CandsSkip ==
  ASSUME MgrType, NoSelf, NEW n \in Node, NEW c, Skip(n, c)
  PROVE  \A m \in Node : cands'[m][m] = NoCR
BY DEF MgrType, Candidates, NoSelf, Skip

LEMMA AuxStep == TypeOK /\ LocalInv /\ OverInv /\ NoSelf /\ Next => OverInv' /\ NoSelf' /\ hazards \subseteq hazards'
<1> SUFFICES ASSUME TypeOK, LocalInv, OverInv, NoSelf, Next
             PROVE  OverInv' /\ NoSelf' /\ hazards \subseteq hazards'
  OBVIOUS
<1>a. CoolType /\ MgrType /\ LendType
  BY DEF TypeOK
<1>1. ASSUME NEW n \in Node, NEW p \in Pod, RecvAdd(n, p)
      PROVE  OverInv' /\ NoSelf' /\ hazards \subseteq hazards'
  <2>1. \A m \in Node : cands'[m][m] = NoCR
    BY <1>1, <1>a, CandsFinish, CandsSkip DEF RecvAdd, ReplyError, ReplyIP, mgrVars, borrow,
       NoSelf
  <2>2. UNCHANGED lend
    BY <1>1 DEF RecvAdd
  <2>3. UNCHANGED <<coolVars, hazards>>
    BY <1>1 DEF RecvAdd, history
  <2> QED
    BY <2>1, <2>2, <2>3, AuxUnchanged DEF NoSelf
<1>2. ASSUME NEW n \in Node, NEW p \in Pod, RecvDel(n, p)
      PROVE  OverInv' /\ NoSelf' /\ hazards \subseteq hazards'
  <2>1. OverInv'
    BY <1>2, <1>a DEF RecvDel, OverInv, CoolType, coolVars
  <2>2. \A m \in Node : cands'[m][m] = NoCR
    BY <1>2, <1>a, CandsFinish, CandsSkip DEF RecvDel, ReplyError, ReplyIP, mgrVars, borrow,
       NoSelf
  <2>3. UNCHANGED lend
    BY <1>2 DEF RecvDel
  <2>4. hazards \subseteq hazards'
    BY <1>2 DEF RecvDel, PopDelete, history
  <2> QED
    BY <2>1, <2>2, <2>3, <2>4, AuxUnchanged DEF NoSelf
<1>3. ASSUME NEW n \in Node, WatermarkTick(n)
      PROVE  OverInv' /\ NoSelf' /\ hazards \subseteq hazards'
  <2>1. \A m \in Node : cands'[m][m] = NoCR
    BY <1>3, <1>a, CandsFinish, CandsSkip DEF WatermarkTick, ReplyError, ReplyIP, mgrVars,
       borrow, NoSelf
  <2>2. UNCHANGED lend
    BY <1>3 DEF WatermarkTick
  <2>3. UNCHANGED <<coolVars, hazards>>
    BY <1>3 DEF WatermarkTick, history
  <2> QED
    BY <2>1, <2>2, <2>3, AuxUnchanged DEF NoSelf
<1>4. ASSUME NEW n \in Node, CooldownTick(n)
      PROVE  OverInv' /\ NoSelf' /\ hazards \subseteq hazards'
  <2>1. UNCHANGED cands
    BY <1>4 DEF CooldownTick, mgrVars, borrow
  <2>2. UNCHANGED lend
    BY <1>4 DEF CooldownTick
  <2>3. UNCHANGED <<coolVars, hazards>>
    BY <1>4 DEF CooldownTick, history
  <2> QED
    BY <2>1, <2>2, <2>3, AuxUnchanged DEF NoSelf
<1>5. ASSUME NEW n \in Node, MgrPopView(n)
      PROVE  OverInv' /\ NoSelf' /\ hazards \subseteq hazards'
  <2>1. \A m \in Node : cands'[m][m] = NoCR
    BY <1>5, <1>a, CandsFinish, CandsSkip DEF MgrPopView, ReplyError, ReplyIP, mgrVars, borrow,
       NoSelf
  <2>2. UNCHANGED lend
    BY <1>5 DEF MgrPopView
  <2>3. UNCHANGED <<coolVars, hazards>>
    BY <1>5 DEF MgrPopView, history
  <2> QED
    BY <2>1, <2>2, <2>3, AuxUnchanged DEF NoSelf
<1>6. ASSUME NEW n \in Node, MgrPopDelete(n)
      PROVE  OverInv' /\ NoSelf' /\ hazards \subseteq hazards'
  <2>1. UNCHANGED cands
    BY <1>6 DEF MgrPopDelete, mgrVars, borrow
  <2>2. UNCHANGED lend
    BY <1>6 DEF MgrPopDelete
  <2>3. hazards \subseteq hazards'
    BY <1>6 DEF MgrPopDelete, PopDelete, history
  <2>4. UNCHANGED <<coolVars>>
    BY <1>6 DEF MgrPopDelete, history
  <2> QED
    BY <2>1, <2>2, <2>3, <2>4, AuxUnchanged DEF NoSelf
<1>7. ASSUME NEW n \in Node, MgrPopError(n)
      PROVE  OverInv' /\ NoSelf' /\ hazards \subseteq hazards'
  <2>1. \A m \in Node : cands'[m][m] = NoCR
    BY <1>7, <1>a, CandsFinish, CandsSkip DEF MgrPopError, ReplyError, ReplyIP, mgrVars,
       borrow, NoSelf
  <2>2. UNCHANGED lend
    BY <1>7 DEF MgrPopError
  <2>3. UNCHANGED <<coolVars, hazards>>
    BY <1>7 DEF MgrPopError, history
  <2> QED
    BY <2>1, <2>2, <2>3, AuxUnchanged DEF NoSelf
<1>8. ASSUME NEW n \in Node, uapiAllocateSecondaryIP(n)
      PROVE  OverInv' /\ NoSelf' /\ hazards \subseteq hazards'
  <2>1. \A m \in Node : cands'[m][m] = NoCR
    BY <1>8, <1>a, CandsFinish, CandsSkip DEF uapiAllocateSecondaryIP, ReplyError, ReplyIP,
       mgrVars, borrow, NoSelf
  <2>2. UNCHANGED lend
    BY <1>8 DEF uapiAllocateSecondaryIP
  <2>3. UNCHANGED <<coolVars, hazards>>
    BY <1>8 DEF uapiAllocateSecondaryIP, history
  <2> QED
    BY <2>1, <2>2, <2>3, AuxUnchanged DEF NoSelf
<1>9. ASSUME NEW n \in Node, checkSecondaryIpExist(n)
      PROVE  OverInv' /\ NoSelf' /\ hazards \subseteq hazards'
  <2>1. \A m \in Node : cands'[m][m] = NoCR
    BY <1>9, <1>a, CandsFinish, CandsSkip DEF checkSecondaryIpExist, ReplyError, ReplyIP,
       mgrVars, borrow, NoSelf
  <2>2. UNCHANGED lend
    BY <1>9 DEF checkSecondaryIpExist
  <2>3. UNCHANGED <<coolVars, hazards>>
    BY <1>9 DEF checkSecondaryIpExist, history
  <2> QED
    BY <2>1, <2>2, <2>3, AuxUnchanged DEF NoSelf
<1>10. ASSUME NEW n \in Node, checkIPConflict(n)
      PROVE  OverInv' /\ NoSelf' /\ hazards \subseteq hazards'
  <2>1. \A m \in Node : cands'[m][m] = NoCR
    BY <1>10, <1>a, CandsFinish, CandsSkip DEF checkIPConflict, ReplyError, ReplyIP, mgrVars,
       borrow, NoSelf
  <2>2. UNCHANGED lend
    BY <1>10 DEF checkIPConflict
  <2>3. UNCHANGED <<coolVars, hazards>>
    BY <1>10 DEF checkIPConflict, history
  <2> QED
    BY <2>1, <2>2, <2>3, AuxUnchanged DEF NoSelf
<1>11. ASSUME NEW n \in Node, releasePool(n)
      PROVE  OverInv' /\ NoSelf' /\ hazards \subseteq hazards'
  <2>1. \A m \in Node : cands'[m][m] = NoCR
    BY <1>11, <1>a, CandsFinish, CandsSkip DEF releasePool, ReplyError, ReplyIP, mgrVars,
       borrow, NoSelf
  <2>2. UNCHANGED lend
    BY <1>11 DEF releasePool
  <2>3. hazards \subseteq hazards'
    BY <1>11 DEF releasePool, PopDelete, history
  <2>4. UNCHANGED <<coolVars>>
    BY <1>11 DEF releasePool, history
  <2> QED
    BY <2>1, <2>2, <2>3, <2>4, AuxUnchanged DEF NoSelf
<1>12. ASSUME NEW n \in Node, RecycleDelete(n)
      PROVE  OverInv' /\ NoSelf' /\ hazards \subseteq hazards'
  <2>1. OverInv'
    BY <1>12, <1>a DEF RecycleDelete, OverInv, CoolType, coolVars
  <2>2. \A m \in Node : cands'[m][m] = NoCR
    BY <1>12, <1>a, CandsFinish, CandsSkip DEF RecycleDelete, ReplyError, ReplyIP, mgrVars,
       borrow, NoSelf
  <2>3. UNCHANGED lend
    BY <1>12 DEF RecycleDelete
  <2>4. UNCHANGED <<hazards>>
    BY <1>12 DEF RecycleDelete, history
  <2> QED
    BY <2>1, <2>2, <2>3, <2>4, AuxUnchanged DEF NoSelf
<1>13. ASSUME NEW n \in Node, RecyclePut(n)
      PROVE  OverInv' /\ NoSelf' /\ hazards \subseteq hazards'
  <2>1. UNCHANGED cands
    BY <1>13 DEF RecyclePut, mgrVars, borrow
  <2>2. UNCHANGED lend
    BY <1>13 DEF RecyclePut
  <2>3. UNCHANGED <<coolVars, hazards>>
    BY <1>13 DEF RecyclePut, history
  <2> QED
    BY <2>1, <2>2, <2>3, AuxUnchanged DEF NoSelf
<1>14. ASSUME NEW n \in Node, updateStatus(n)
      PROVE  OverInv' /\ NoSelf' /\ hazards \subseteq hazards'
  <2>1. UNCHANGED cands
    BY <1>14 DEF updateStatus, mgrVars, borrow
  <2>2. UNCHANGED lend
    BY <1>14 DEF updateStatus
  <2>3. UNCHANGED <<coolVars, hazards>>
    BY <1>14 DEF updateStatus, history
  <2> QED
    BY <2>1, <2>2, <2>3, AuxUnchanged DEF NoSelf
<1>15. ASSUME NEW n \in Node, ListIpamds(n)
      PROVE  OverInv' /\ NoSelf' /\ hazards \subseteq hazards'
  <2>1. \A m \in Node : cands'[m][m] = NoCR
    BY <1>15, <1>a, CandsFinish, CandsSkip DEF ListIpamds, ReplyError, ReplyIP, mgrVars, borrow,
       borrowCandidates, MgrType, NoSelf
  <2>2. UNCHANGED lend
    BY <1>15 DEF ListIpamds
  <2>3. UNCHANGED <<coolVars, hazards>>
    BY <1>15 DEF ListIpamds, history
  <2> QED
    BY <2>1, <2>2, <2>3, AuxUnchanged DEF NoSelf
<1>16. ASSUME NEW n \in Node, BorrowCall(n)
      PROVE  OverInv' /\ NoSelf' /\ hazards \subseteq hazards'
  <2>1. \A m \in Node : cands'[m][m] = NoCR
    BY <1>16, <1>a, CandsFinish, CandsSkip DEF BorrowCall, ReplyError, ReplyIP, mgrVars, borrow,
       NoSelf
  <2>2. \A m \in Node : lend'[m][m].pc = "idle"
    BY <1>16, <1>a, LendOther, NoSelf DEF BorrowCall, NextLender, NoSelf
  <2>3. UNCHANGED <<coolVars, hazards>>
    BY <1>16 DEF BorrowCall, history
  <2> QED
    BY <2>1, <2>2, <2>3, AuxUnchanged DEF NoSelf
<1>17. ASSUME NEW n \in Node, BorrowReturn(n)
      PROVE  OverInv' /\ NoSelf' /\ hazards \subseteq hazards'
  <2>1. \A m \in Node : cands'[m][m] = NoCR
    BY <1>17, <1>a, CandsFinish, CandsSkip DEF BorrowReturn, ReplyError, ReplyIP, mgrVars,
       borrow, NoSelf
  <2>2. \A m \in Node : lend'[m][m].pc = "idle"
    BY <1>17, <1>a, MgrFacts, LendStateFacts, TypeOK, LocalInv DEF BorrowReturn, NoSelf,
       SetLend, LendType
  <2>3. UNCHANGED <<coolVars, hazards>>
    BY <1>17 DEF BorrowReturn, history
  <2> QED
    BY <2>1, <2>2, <2>3, AuxUnchanged DEF NoSelf
<1>18. ASSUME NEW n \in Node, BorrowTimeout(n)
      PROVE  OverInv' /\ NoSelf' /\ hazards \subseteq hazards'
  <2>1. \A m \in Node : cands'[m][m] = NoCR
    BY <1>18, <1>a, CandsFinish, CandsSkip DEF BorrowTimeout, ReplyError, ReplyIP, mgrVars,
       borrow, NoSelf
  <2>2. UNCHANGED lend
    BY <1>18 DEF BorrowTimeout
  <2>3. UNCHANGED <<coolVars, hazards>>
    BY <1>18 DEF BorrowTimeout, history
  <2> QED
    BY <2>1, <2>2, <2>3, AuxUnchanged DEF NoSelf
<1>19. ASSUME NEW n \in Node, Crash(n)
      PROVE  OverInv' /\ NoSelf' /\ hazards \subseteq hazards'
  <2>1. \A m \in Node : cands'[m][m] = NoCR
    BY <1>19, <1>a, CandsFinish, CandsSkip DEF Crash, ReplyError, ReplyIP, mgrVars, borrow,
       ResetLocals, NoSelf
  <2>2. \A m \in Node : lend'[m][m].pc = "idle"
    BY <1>19, <1>a, LendStateFacts DEF Crash, NoSelf, LendType
  <2>3. UNCHANGED <<coolVars, hazards>>
    BY <1>19 DEF Crash, history
  <2> QED
    BY <2>1, <2>2, <2>3, AuxUnchanged DEF NoSelf
<1>20. ASSUME NEW n \in Node, Restart(n)
      PROVE  OverInv' /\ NoSelf' /\ hazards \subseteq hazards'
  <2>1. UNCHANGED cands
    BY <1>20 DEF Restart, mgrVars, borrow
  <2>2. UNCHANGED lend
    BY <1>20 DEF Restart
  <2>3. UNCHANGED <<coolVars, hazards>>
    BY <1>20 DEF Restart, history
  <2> QED
    BY <2>1, <2>2, <2>3, AuxUnchanged DEF NoSelf
<1>21. ASSUME NEW n \in Node, NEW i \in IP, CooldownOver(n, i)
      PROVE  OverInv' /\ NoSelf' /\ hazards \subseteq hazards'
  <2>1. OverInv'
    BY <1>21, <1>a DEF CooldownOver, OverInv, CoolType, coolVars
  <2>2. UNCHANGED cands
    BY <1>21 DEF CooldownOver, mgrVars, borrow
  <2>3. UNCHANGED lend
    BY <1>21 DEF CooldownOver
  <2>4. UNCHANGED <<hazards>>
    BY <1>21 DEF CooldownOver, history
  <2> QED
    BY <2>1, <2>2, <2>3, <2>4, AuxUnchanged DEF NoSelf
<1>22. ASSUME NEW l \in Node, NEW b \in Node, LendPopView(l, b)
      PROVE  OverInv' /\ NoSelf' /\ hazards \subseteq hazards'
  <2>1. UNCHANGED cands
    BY <1>22 DEF LendPopView, mgrVars, borrow
  <2>2. \A m \in Node : lend'[m][m].pc = "idle"
    BY <1>22, <1>a, LendOther, NoSelf DEF LendPopView, NoSelf
  <2>3. UNCHANGED <<coolVars, hazards>>
    BY <1>22 DEF LendPopView, history
  <2> QED
    BY <2>1, <2>2, <2>3, AuxUnchanged DEF NoSelf
<1>23. ASSUME NEW l \in Node, NEW b \in Node, LendPopDelete(l, b)
      PROVE  OverInv' /\ NoSelf' /\ hazards \subseteq hazards'
  <2>1. UNCHANGED cands
    BY <1>23 DEF LendPopDelete, mgrVars, borrow
  <2>2. \A m \in Node : lend'[m][m].pc = "idle"
    BY <1>23, <1>a, LendOther, NoSelf DEF LendPopDelete, NoSelf
  <2>3. hazards \subseteq hazards'
    BY <1>23 DEF LendPopDelete, PopDelete, history
  <2>4. UNCHANGED <<coolVars>>
    BY <1>23 DEF LendPopDelete, history
  <2> QED
    BY <2>1, <2>2, <2>3, <2>4, AuxUnchanged DEF NoSelf
<1>24. ASSUME NEW l \in Node, NEW b \in Node, LendPopError(l, b)
      PROVE  OverInv' /\ NoSelf' /\ hazards \subseteq hazards'
  <2>1. UNCHANGED cands
    BY <1>24 DEF LendPopError, mgrVars, borrow
  <2>2. \A m \in Node : lend'[m][m].pc = "idle"
    BY <1>24, <1>a, LendOther, NoSelf DEF LendPopError, NoSelf
  <2>3. UNCHANGED <<coolVars, hazards>>
    BY <1>24 DEF LendPopError, history
  <2> QED
    BY <2>1, <2>2, <2>3, AuxUnchanged DEF NoSelf
<1>25. ASSUME NEW l \in Node, NEW b \in Node, uapiMoveSecondaryIPMac(l, b)
      PROVE  OverInv' /\ NoSelf' /\ hazards \subseteq hazards'
  <2>1. UNCHANGED cands
    BY <1>25 DEF uapiMoveSecondaryIPMac, mgrVars, borrow
  <2>2. \A m \in Node : lend'[m][m].pc = "idle"
    BY <1>25, <1>a, LendOther, NoSelf DEF uapiMoveSecondaryIPMac, NoSelf
  <2>3. UNCHANGED <<coolVars, hazards>>
    BY <1>25 DEF uapiMoveSecondaryIPMac, history
  <2> QED
    BY <2>1, <2>2, <2>3, AuxUnchanged DEF NoSelf
<1>26. ASSUME NEW l \in Node, NEW b \in Node, LendDropped(l, b)
      PROVE  OverInv' /\ NoSelf' /\ hazards \subseteq hazards'
  <2>1. UNCHANGED cands
    BY <1>26 DEF LendDropped, mgrVars, borrow
  <2>2. \A m \in Node : lend'[m][m].pc = "idle"
    BY <1>26, <1>a, LendOther, NoSelf DEF LendDropped, NoSelf
  <2>3. UNCHANGED <<coolVars, hazards>>
    BY <1>26 DEF LendDropped, history
  <2> QED
    BY <2>1, <2>2, <2>3, AuxUnchanged DEF NoSelf
<1>27. ASSUME NEW p \in Pod, AddPodNetwork(p)
      PROVE  OverInv' /\ NoSelf' /\ hazards \subseteq hazards'
  <2>1. UNCHANGED cands
    BY <1>27 DEF AddPodNetwork, mgrVars, borrow
  <2>2. UNCHANGED lend
    BY <1>27 DEF AddPodNetwork
  <2>3. UNCHANGED <<coolVars, hazards>>
    BY <1>27 DEF AddPodNetwork, history
  <2> QED
    BY <2>1, <2>2, <2>3, AuxUnchanged DEF NoSelf
<1>28. ASSUME NEW p \in Pod, AnswerAdd(p)
      PROVE  OverInv' /\ NoSelf' /\ hazards \subseteq hazards'
  <2>1. UNCHANGED cands
    BY <1>28 DEF AnswerAdd, mgrVars, borrow
  <2>2. UNCHANGED lend
    BY <1>28 DEF AnswerAdd
  <2>3. UNCHANGED <<coolVars, hazards>>
    BY <1>28 DEF AnswerAdd, history
  <2> QED
    BY <2>1, <2>2, <2>3, AuxUnchanged DEF NoSelf
<1>29. ASSUME NEW p \in Pod, DelPodNetwork(p)
      PROVE  OverInv' /\ NoSelf' /\ hazards \subseteq hazards'
  <2>1. UNCHANGED cands
    BY <1>29 DEF DelPodNetwork, mgrVars, borrow
  <2>2. UNCHANGED lend
    BY <1>29 DEF DelPodNetwork
  <2>3. UNCHANGED <<coolVars, hazards>>
    BY <1>29 DEF DelPodNetwork, history
  <2> QED
    BY <2>1, <2>2, <2>3, AuxUnchanged DEF NoSelf
<1> QED
  BY <1>1, <1>2, <1>3, <1>4, <1>5, <1>6, <1>7, <1>8, <1>9, <1>10, <1>11, <1>12, <1>13, <1>14,
     <1>15, <1>16, <1>17, <1>18, <1>19, <1>20, <1>21, <1>22, <1>23, <1>24, <1>25, <1>26, <1>27,
     <1>28, <1>29 DEF Next, Select, MgrStep, LendStep, PodStep

----------------------------------------------------------------------------
(* What is used without a new check has been checked.                      *)

(* Address i stays where it is, and a check of it still counts. *)
Steady(i) == vpc'[i] = vpc[i] /\ (i \in checked => i \in checked')

LEMMA SafeUnchanged ==
  ASSUME SafeInv, UNCHANGED vpcVars
  PROVE  /\ UNCHANGED pod => PodsUsed'
         /\ UNCHANGED cool => CoolUsed'
         /\ UNCHANGED <<pc, hand>> => HandUsed' /\ HandMarked'
         /\ UNCHANGED <<pool, recycled>> => PoolMarked'
         /\ UNCHANGED lend => LendMarked'
BY DEF SafeInv, UsedInv, RecycledInv, PodsUsed, CoolUsed, HandUsed, PoolMarked, HandMarked, LendMarked, vpcVars

LEMMA PodsKept ==
  ASSUME PodsUsed,
         \A p \in Pod : pod'[p].ip # NoIP => pod'[p].ip = pod[p].ip /\ Steady(pod[p].ip)
  PROVE  PodsUsed'
BY DEF PodsUsed, Steady

LEMMA CoolKept ==
  ASSUME CoolUsed, \A n \in Node : \A i \in cool'[n] : i \in cool[n] /\ Steady(i)
  PROVE  CoolUsed'
BY DEF CoolUsed, Steady

LEMMA HandKept ==
  ASSUME HandUsed, HandMarked,
         \A n \in Node : pc'[n] \in {"check", "garp", "release", "put"} =>
                           pc'[n] = pc[n] /\ hand'[n] = hand[n] /\ Steady(hand[n].ip)
  PROVE  HandUsed' /\ HandMarked'
BY DEF HandUsed, HandMarked, Steady

LEMMA PoolKept ==
  ASSUME PoolMarked,
         \A n \in Node : \A i \in recycled'[n] : i \in recycled[n] /\ i \in pool'[n] /\ Steady(i)
  PROVE  PoolMarked'
BY DEF PoolMarked, Steady

LEMMA LendKept ==
  ASSUME LendMarked,
         \A l, b \in Node : lend'[l][b].pc = "move" => lend'[l][b] = lend[l][b] /\ Steady(lend[l][b].ip)
  PROVE  LendMarked'
BY DEF LendMarked, Steady

(* The manager of n moves on, without an address to use. *)
LEMMA GotoUsed ==
  ASSUME MgrType, HandUsed, HandMarked, NEW n \in Node,
         \A m \in Node \ {n} : pc'[m] = pc[m] /\ hand'[m] = hand[m]
                               /\ (pc[m] \in {"check", "garp", "release", "put"} => Steady(hand[m].ip)),
         pc'[n] \notin {"check", "garp", "release", "put"}
  PROVE  HandUsed' /\ HandMarked'
BY HandKept

LEMMA FinishOthers ==
  ASSUME MgrType, NEW n \in Node, Finish(n)
  PROVE  pc'[n] = "status" /\ \A m \in Node \ {n} : pc'[m] = pc[m] /\ hand'[m] = hand[m]
BY DEF MgrType, Finish, Goto, ResetLocals

LEMMA GotoOthers ==
  ASSUME MgrType, NEW n \in Node, NEW s, Goto(n, s), UNCHANGED hand \/ \E h : hand' = [hand EXCEPT ![n] = h]
  PROVE  pc'[n] = s /\ \A m \in Node \ {n} : pc'[m] = pc[m] /\ hand'[m] = hand[m]
BY DEF MgrType, Goto

LEMMA IdlePod == PodIdle.ip = NoIP
BY DEF PodIdle

LEMMA PodDropped ==
  ASSUME PodType, PodsUsed, NEW p \in Pod, pod' = [pod EXCEPT ![p] = PodIdle],
         \A q \in Pod \ {p} : pod[q].ip # NoIP => Steady(pod[q].ip)
  PROVE  PodsUsed'
BY IdlePod, PodsKept DEF PodType

LEMMA LendEnds ==
  ASSUME LendType, LendMarked, NEW l \in Node, NEW b \in Node, NEW s, SetLend(l, b, s), s.pc # "move",
         \A k, c \in Node : (k # l \/ c # b) /\ lend[k][c].pc = "move" => Steady(lend[k][c].ip)
  PROVE  LendMarked'
BY LendKept DEF LendType, SetLend

LEMMA PoolPutMarked ==
  ASSUME PoolType, PoolMarked, NEW n \in Node, NEW j, NEW t \in Tag, PoolPut(n, j, t),
         \A m \in Node : \A i \in recycled[m] : i # j => Steady(i),
         \A m \in Node \ {n} : j \notin pool[m],
         t = "recycled" /\ vpc'[j] = n => j \in checked'
  PROVE  PoolMarked'
BY DEF PoolType, PoolMarked, PoolPut, Steady, Tag

(* Every address but j stays where it is. *)
OthersSteady(j) == \A i \in IP \ {j} : Steady(i)

LEMMA Untouched ==
  ASSUME TypeOK, LocalInv, PodsUsed, CoolUsed, HandUsed, PoolMarked, HandMarked, LendMarked,
         NEW j \in IP, OthersSteady(j)
  PROVE  /\ (\A p \in Pod : pod[p].ip # j) /\ UNCHANGED pod => PodsUsed'
         /\ (\A n \in Node : j \notin cool[n]) /\ UNCHANGED cool => CoolUsed'
         /\ (\A n \in Node : j \notin pool[n]) /\ UNCHANGED <<pool, recycled>> => PoolMarked'
         /\ (\A l, b \in Node : ~Lending(l, b, j)) /\ UNCHANGED lend => LendMarked'
         /\ (\A n \in Node : ~InHand(n, j)) /\ UNCHANGED <<pc, hand>> => HandUsed' /\ HandMarked'
<1>1. (\A p \in Pod : pod[p].ip # j) /\ UNCHANGED pod => PodsUsed'
  BY PodFacts, PodsKept DEF OthersSteady
<1>2. (\A n \in Node : j \notin cool[n]) /\ UNCHANGED cool => CoolUsed'
  BY CoolKept DEF OthersSteady, TypeOK, CoolType
<1>3. (\A n \in Node : j \notin pool[n]) /\ UNCHANGED <<pool, recycled>> => PoolMarked'
  BY PoolKept DEF OthersSteady, TypeOK, PoolType, PoolMarked
<1>4. (\A l, b \in Node : ~Lending(l, b, j)) /\ UNCHANGED lend => LendMarked'
  BY LendFacts, LendKept DEF OthersSteady, Lending
<1>5. (\A n \in Node : ~InHand(n, j)) /\ UNCHANGED <<pc, hand>> => HandUsed' /\ HandMarked'
  BY MgrFacts, HandKept DEF OthersSteady, InHand
<1> QED
  BY <1>1, <1>2, <1>3, <1>4, <1>5

LEMMA HandLeaves ==
  ASSUME TypeOK, LocalInv, HandUsed, HandMarked, NEW n \in Node, NEW j \in IP, OthersSteady(j),
         \A m \in Node \ {n} : ~InHand(m, j),
         \A m \in Node \ {n} : pc'[m] = pc[m] /\ hand'[m] = hand[m],
         pc'[n] \notin {"check", "garp", "release", "put"}
  PROVE  HandUsed' /\ HandMarked'
<1>1. \A m \in Node \ {n} : pc[m] \in {"check", "garp", "release", "put"} => Steady(hand[m].ip)
  BY MgrFacts DEF OthersSteady, InHand
<1> QED
  BY <1>1, GotoUsed DEF TypeOK

LEMMA ReplyErrorUsed ==
  ASSUME TypeOK, LocalInv, PodsUsed, HandUsed, HandMarked, NEW n \in Node, NEW j \in IP,
         OthersSteady(j), req[n] # NoPod, ReplyError(n),
         \A m \in Node \ {n} : ~InHand(m, j), \A q \in Pod : pod[q].ip # j
  PROVE  PodsUsed' /\ HandUsed' /\ HandMarked'
<1>1. req[n] \in Pod /\ \A q \in Pod : pod[q].ip # NoIP => Steady(pod[q].ip)
  BY MgrFacts, PodFacts DEF OthersSteady
<1>2. PodsUsed'
  BY <1>1, PodDropped DEF ReplyError, TypeOK
<1>3. pc'[n] = "status" /\ \A m \in Node \ {n} : pc'[m] = pc[m] /\ hand'[m] = hand[m]
  BY FinishOthers DEF ReplyError, TypeOK
<1>4. HandUsed' /\ HandMarked'
  BY <1>3, HandLeaves
<1> QED
  BY <1>2, <1>4

LEMMA ReplyIPUsed ==
  ASSUME TypeOK, LocalInv, PodsUsed, HandUsed, HandMarked, NEW n \in Node, NEW j \in IP,
         OthersSteady(j), req[n] # NoPod, ReplyIP(n), hand[n].ip = j, vpc'[j] = n, j \in checked',
         \A m \in Node \ {n} : ~InHand(m, j), \A q \in Pod : pod[q].ip # j
  PROVE  PodsUsed' /\ HandUsed' /\ HandMarked'
<1>1. req[n] \in Pod /\ PodNode[req[n]] = n
  BY MgrFacts
<1>2. pod'[req[n]].ip = j /\ \A q \in Pod \ {req[n]} : pod'[q] = pod[q]
  BY <1>1 DEF ReplyIP, TypeOK, PodType
<1>3. \A q \in Pod \ {req[n]} : pod[q].ip # NoIP => Steady(pod[q].ip)
  BY PodFacts DEF OthersSteady
<1>4. PodsUsed'
  BY <1>1, <1>2, <1>3 DEF PodsUsed, Steady
<1>5. pc'[n] = "status" /\ \A m \in Node \ {n} : pc'[m] = pc[m] /\ hand'[m] = hand[m]
  BY FinishOthers DEF ReplyIP, TypeOK
<1>6. HandUsed' /\ HandMarked'
  BY <1>5, HandLeaves
<1> QED
  BY <1>4, <1>6

LEMMA PoolPutBack ==
  ASSUME TypeOK, PoolMarked, NEW n \in Node, NEW j \in IP, NEW t \in Tag, PoolPut(n, j, t),
         OthersSteady(j), \A m \in Node : j \notin pool[m],
         t = "recycled" /\ vpc'[j] = n => j \in checked'
  PROVE  PoolMarked'
<1>1. \A m \in Node : \A i \in recycled[m] : i # j => Steady(i)
  BY DEF TypeOK, PoolType, OthersSteady
<1> QED
  BY <1>1, PoolPutMarked DEF TypeOK

(* The manager of n takes an address that is not marked Recycled. *)
LEMMA HandNew ==
  ASSUME HandUsed, HandMarked, NEW n \in Node, pc'[n] = "check", hand'[n].tag = "new",
         \A m \in Node \ {n} : pc'[m] = pc[m] /\ hand'[m] = hand[m],
         \A m \in Node \ {n} : pc[m] \in {"check", "garp", "release", "put"} => Steady(hand[m].ip)
  PROVE  HandUsed' /\ HandMarked'
<1>1. \A m \in Node : /\ pc'[m] \in {"garp", "put"} => vpc'[hand'[m].ip] = m
                      /\ pc'[m] = "put" => hand'[m].tag = "recycled" /\ hand'[m].ip \in checked'
  BY DEF HandUsed, Steady
<1>2. \A m \in Node : pc'[m] \in {"check", "release"} /\ hand'[m].tag = "recycled" /\ vpc'[hand'[m].ip] = m
                        => hand'[m].ip \in checked'
  BY DEF HandMarked, Steady
<1> QED
  BY <1>1, <1>2 DEF HandUsed, HandMarked

LEMMA UsedSafe ==
  TypeOK /\ LocalInv /\ OverInv /\ NoSelf /\ SafeInv /\ Next /\ hazards' = {} => UsedInv' /\ RecycledInv'
<1> SUFFICES ASSUME TypeOK, LocalInv, OverInv, NoSelf, SafeInv, Next, hazards' = {}
             PROVE  UsedInv' /\ RecycledInv'
  OBVIOUS
<1>a. VpcType /\ PoolType /\ CoolType /\ LendType /\ PodType /\ MgrType
  BY DEF TypeOK
<1>e. Exclusive /\ FreeUnheld
  BY DEF SafeInv
<1>s. PodsUsed /\ CoolUsed /\ HandUsed /\ PoolMarked /\ HandMarked /\ LendMarked
  BY DEF SafeInv, UsedInv, RecycledInv
<1>i. NoIP \notin IP
  BY ConstAssumption
<1>u. \A i : UNCHANGED vpcVars => Steady(i)
  BY DEF Steady, vpcVars
<1>1. ASSUME NEW n \in Node, NEW p \in Pod, RecvAdd(n, p) PROVE UsedInv' /\ RecycledInv'
  <2>1. UNCHANGED vpcVars
    BY <1>1 DEF RecvAdd
  <2>2. HandUsed' /\ HandMarked'
    BY <1>1, <2>1, <1>a, <1>s, <1>u, GotoUsed, FinishOthers, GotoOthers DEF RecvAdd
  <2>3. PodsUsed'
    BY <1>1, <2>1, <1>a, <1>s, <1>u, PodDropped, PodsKept DEF RecvAdd, PodType
  <2>u. UNCHANGED <<cool, pool, recycled, lend>>
    BY <1>1 DEF RecvAdd, mgrVars, poolVars, coolVars
  <2> QED
    BY <2>1, <2>2, <2>3, <2>u, SafeUnchanged, SafeInv DEF UsedInv, RecycledInv
<1>2. ASSUME NEW n \in Node, NEW p \in Pod, RecvDel(n, p) PROVE UsedInv' /\ RecycledInv'
  <2>1. PICK j \in IP : j = pod[p].ip
    BY <1>2, PodFacts, TypeOK, LocalInv DEF RecvDel
  <2>2. /\ vpc[j] = n /\ j \in checked
        /\ \A m \in Node : j \notin pool[m] /\ j \notin cool[m] /\ ~InHand(m, j)
        /\ \A l, b \in Node : ~Lending(l, b, j)
        /\ \A q \in Pod : pod[q].ip = j => q = p
    BY <1>2, <2>1, <1>e, <1>s, <1>i, PodAlone DEF RecvDel, PodsUsed
  <2>3. /\ pod' = [pod EXCEPT ![p] = PodIdle]
        /\ UNCHANGED <<pool, recycled, lend>>
        /\ Finish(n)
    BY <1>2 DEF RecvDel, poolVars
  <2>4. \/ cool' = [cool EXCEPT ![n] = @ \cup {j}] /\ UNCHANGED <<vpc, checked>>
        \/ backupReleaseSecondaryIP(n, j) /\ UNCHANGED cool
    BY <1>2, <2>1 DEF RecvDel, vpcVars, coolVars
  <2>5. OthersSteady(j)
    BY <2>4, <1>a, BackupEffect DEF OthersSteady, Steady
  <2>6. PodsUsed'
    <3>1. \A q \in Pod \ {p} : pod[q].ip # NoIP => Steady(pod[q].ip)
      BY <2>2, <2>5, PodFacts, TypeOK, LocalInv DEF OthersSteady
    <3> QED
      BY <3>1, <2>3, <1>a, <1>s, PodDropped
  <2>7. pc'[n] = "status" /\ \A m \in Node \ {n} : pc'[m] = pc[m] /\ hand'[m] = hand[m]
    BY <2>3, <1>a, FinishOthers
  <2>8. HandUsed' /\ HandMarked'
    BY <2>2, <2>5, <2>7, <1>s, HandLeaves, TypeOK, LocalInv
  <2>9. PoolMarked' /\ LendMarked'
    BY <2>2, <2>3, <2>5, <1>s, Untouched, TypeOK, LocalInv
  <2>10. CoolUsed'
    <3>1. CASE cool' = [cool EXCEPT ![n] = @ \cup {j}] /\ UNCHANGED <<vpc, checked>>
      BY <3>1, <2>2, <1>a, <1>s DEF CoolUsed, CoolType
    <3>2. CASE UNCHANGED cool
      BY <3>2, <2>2, <2>5, <1>s, Untouched, TypeOK, LocalInv
    <3> QED
      BY <2>4, <3>1, <3>2
  <2> QED
    BY <2>6, <2>8, <2>9, <2>10 DEF UsedInv, RecycledInv
<1>3. ASSUME NEW n \in Node, WatermarkTick(n) PROVE UsedInv' /\ RecycledInv'
  <2>1. UNCHANGED vpcVars
    BY <1>3 DEF WatermarkTick
  <2>2. HandUsed' /\ HandMarked'
    BY <1>3, <2>1, <1>a, <1>s, <1>u, GotoUsed, FinishOthers, GotoOthers DEF WatermarkTick
  <2>u. UNCHANGED <<pod, cool, pool, recycled, lend>>
    BY <1>3 DEF WatermarkTick, mgrVars, poolVars, coolVars
  <2> QED
    BY <2>1, <2>2, <2>u, SafeUnchanged, SafeInv DEF UsedInv, RecycledInv
<1>4. ASSUME NEW n \in Node, CooldownTick(n) PROVE UsedInv' /\ RecycledInv'
  <2>1. UNCHANGED vpcVars
    BY <1>4 DEF CooldownTick
  <2>2. HandUsed' /\ HandMarked'
    BY <1>4, <2>1, <1>a, <1>s, <1>u, GotoUsed, FinishOthers, GotoOthers DEF CooldownTick
  <2>u. UNCHANGED <<pod, cool, pool, recycled, lend>>
    BY <1>4 DEF CooldownTick, mgrVars, poolVars, coolVars
  <2> QED
    BY <2>1, <2>2, <2>u, SafeUnchanged, SafeInv DEF UsedInv, RecycledInv
<1>5. ASSUME NEW n \in Node, MgrPopView(n) PROVE UsedInv' /\ RecycledInv'
  <2>1. UNCHANGED vpcVars
    BY <1>5 DEF MgrPopView
  <2>2. HandUsed' /\ HandMarked'
    BY <1>5, <2>1, <1>a, <1>s, <1>u, GotoUsed, FinishOthers, GotoOthers DEF MgrPopView
  <2>u. UNCHANGED <<pod, cool, pool, recycled, lend>>
    BY <1>5 DEF MgrPopView, mgrVars, poolVars, coolVars
  <2> QED
    BY <2>1, <2>2, <2>u, SafeUnchanged, SafeInv DEF UsedInv, RecycledInv
<1>6. ASSUME NEW n \in Node, MgrPopDelete(n) PROVE UsedInv' /\ RecycledInv'
  <2>1. UNCHANGED vpcVars
    BY <1>6 DEF MgrPopDelete
  <2>2. HandUsed' /\ HandMarked'
    <3>1. PICK j : j = hand[n].ip
      OBVIOUS
    <3>2. j \in pool[n] /\ (hand[n].tag = "recycled" => j \in recycled[n]) /\ UNCHANGED <<vpc, checked, hand>>
      BY <1>6, <3>1, <2>1 DEF MgrPopDelete, PopDelete, TagOf, vpcVars
    <3>3. pc'[n] \in {"check", "release"} /\ \A m \in Node \ {n} : pc'[m] = pc[m]
      BY <1>6, <1>a DEF MgrPopDelete, Goto, MgrType
    <3> QED
      BY <3>1, <3>2, <3>3, <1>s DEF HandUsed, HandMarked, PoolMarked
  <2>3. PoolMarked'
    BY <1>6, <2>1, <1>a, <1>s, <1>u, PoolKept DEF MgrPopDelete, PopDelete, PoolType, PoolMarked
  <2>u. UNCHANGED <<pod, cool, lend>>
    BY <1>6 DEF MgrPopDelete, mgrVars, poolVars, coolVars
  <2> QED
    BY <2>1, <2>2, <2>3, <2>u, SafeUnchanged, SafeInv DEF UsedInv, RecycledInv
<1>7. ASSUME NEW n \in Node, MgrPopError(n) PROVE UsedInv' /\ RecycledInv'
  <2>1. UNCHANGED vpcVars
    BY <1>7 DEF MgrPopError
  <2>2. HandUsed' /\ HandMarked'
    BY <1>7, <2>1, <1>a, <1>s, <1>u, GotoUsed, FinishOthers, GotoOthers DEF MgrPopError,
       ReplyError
  <2>3. PodsUsed'
    BY <1>7, <2>1, <1>a, <1>s, <1>u, MgrFacts, PodDropped, SafeUnchanged, SafeInv, TypeOK,
       LocalInv DEF MgrPopError, ReplyError
  <2>u. UNCHANGED <<cool, pool, recycled, lend>>
    BY <1>7 DEF MgrPopError, mgrVars, poolVars, coolVars
  <2> QED
    BY <2>1, <2>2, <2>3, <2>u, SafeUnchanged, SafeInv DEF UsedInv, RecycledInv
<1>8. ASSUME NEW n \in Node, uapiAllocateSecondaryIP(n) PROVE UsedInv' /\ RecycledInv'
  <2>1. req[n] # NoPod /\ UNCHANGED <<pool, recycled, cool, lend>>
    BY <1>8, MgrFacts, TypeOK, LocalInv DEF uapiAllocateSecondaryIP, poolVars, coolVars
  <2>2. ASSUME UNCHANGED vpcVars,
               \/ Goto(n, "borrow") /\ UNCHANGED <<hand, pod>>
               \/ ReplyError(n)
        PROVE  UsedInv' /\ RecycledInv'
    <3>1. pc'[n] \in {"borrow", "status"} /\ \A m \in Node \ {n} : pc'[m] = pc[m] /\ hand'[m] = hand[m]
      BY <2>2, <1>a, GotoOthers, FinishOthers DEF ReplyError
    <3>2. HandUsed' /\ HandMarked'
      BY <3>1, <2>2, <1>a, <1>s, <1>u, GotoUsed
    <3>3. PodsUsed'
      BY <2>1, <2>2, <1>a, <1>s, <1>u, MgrFacts, PodDropped, SafeUnchanged, SafeInv, TypeOK, LocalInv
         DEF ReplyError
    <3> QED
      BY <2>1, <2>2, <3>2, <3>3, SafeUnchanged, SafeInv DEF UsedInv, RecycledInv
  <2>3. ASSUME NEW j \in IP, vpc[j] = NoNode, Attach(j, n),
               \/ ReplyError(n)
               \/ /\ Goto(n, "check") /\ UNCHANGED pod
                  /\ hand' = [hand EXCEPT ![n] = [ip |-> j, tag |-> "new"]]
        PROVE  UsedInv' /\ RecycledInv'
    <3>1. /\ \A m \in Node : j \notin pool[m] /\ j \notin cool[m] /\ ~InHand(m, j)
          /\ \A l, b \in Node : ~Lending(l, b, j)
          /\ \A q \in Pod : pod[q].ip # j
      BY <2>3, <1>e, FreeAlone
    <3>2. OthersSteady(j)
      BY <2>3, <1>a, AttachEffect DEF OthersSteady, Steady
    <3>3. CoolUsed' /\ PoolMarked' /\ LendMarked'
      BY <2>1, <3>1, <3>2, <1>s, Untouched, TypeOK, LocalInv
    <3>4. CASE ReplyError(n)
      <4>1. PodsUsed' /\ HandUsed' /\ HandMarked'
        BY <2>1, <3>1, <3>2, <3>4, <1>s, ReplyErrorUsed, TypeOK, LocalInv
      <4> QED
        BY <3>3, <4>1 DEF UsedInv, RecycledInv
    <3>5. CASE Goto(n, "check") /\ UNCHANGED pod /\ hand' = [hand EXCEPT ![n] = [ip |-> j, tag |-> "new"]]
      <4>1. PodsUsed'
        BY <3>1, <3>2, <3>5, <1>s, Untouched, TypeOK, LocalInv
      <4>2. pc'[n] = "check" /\ hand'[n].tag = "new"
        BY <3>5, <1>a DEF Goto, MgrType
      <4>3. \A m \in Node \ {n} : pc'[m] = pc[m] /\ hand'[m] = hand[m]
        BY <3>5, <1>a DEF Goto, MgrType
      <4>4. \A m \in Node \ {n} : pc[m] \in {"check", "garp", "release", "put"} => Steady(hand[m].ip)
        BY <3>1, <3>2, MgrFacts, TypeOK, LocalInv DEF OthersSteady, InHand
      <4>5. HandUsed' /\ HandMarked'
        BY <4>2, <4>3, <4>4, <1>s, HandNew
      <4> QED
        BY <3>3, <4>1, <4>5 DEF UsedInv, RecycledInv
    <3> QED
      BY <2>3, <3>4, <3>5
  <2> QED
    BY <1>8, <2>2, <2>3 DEF uapiAllocateSecondaryIP
<1>9. ASSUME NEW n \in Node, checkSecondaryIpExist(n) PROVE UsedInv' /\ RecycledInv'
  <2>1. PICK j \in IP : j = hand[n].ip
    BY <1>9, MgrFacts, TypeOK, LocalInv DEF checkSecondaryIpExist
  <2>2. /\ \A m \in Node : j \notin pool[m] /\ j \notin cool[m]
        /\ \A m \in Node \ {n} : ~InHand(m, j)
        /\ \A l, b \in Node : ~Lending(l, b, j)
        /\ \A q \in Pod : pod[q].ip # j
    <3>1. InHand(n, j)
      BY <1>9, <2>1 DEF checkSecondaryIpExist, InHand
    <3> QED
      BY <3>1, <1>e, HandAlone
  <2>3. req[n] # NoPod /\ hand[n].tag \in Tag /\ UNCHANGED <<cool, lend>>
    BY <1>9, MgrFacts, TypeOK, LocalInv DEF checkSecondaryIpExist, coolVars
  <2>4. \A i : vpc[i] = vpc'[i] /\ checked' = checked => Steady(i)
    BY DEF Steady
  <2>5. CASE ReplyError(n) /\ PoolPut(n, j, hand[n].tag) /\ UNCHANGED <<vpc, checked>>
    <3>1. OthersSteady(j)
      BY <2>5 DEF OthersSteady, Steady
    <3>2. hand[n].tag = "recycled" /\ vpc'[j] = n => j \in checked'
      BY <1>9, <2>1, <2>5, <1>s DEF checkSecondaryIpExist, HandMarked
    <3>3. PoolMarked'
      BY <2>2, <2>3, <2>5, <3>1, <3>2, <1>s, PoolPutBack, TypeOK
    <3>4. PodsUsed' /\ HandUsed' /\ HandMarked'
      BY <2>2, <2>3, <2>5, <3>1, <1>s, ReplyErrorUsed, TypeOK, LocalInv
    <3>5. CoolUsed' /\ LendMarked'
      BY <2>2, <2>3, <3>1, <1>s, Untouched, TypeOK, LocalInv
    <3> QED
      BY <3>3, <3>4, <3>5 DEF UsedInv, RecycledInv
  <2>6. CASE /\ ReplyError(n) /\ UNCHANGED <<pool, recycled>>
             /\ UNCHANGED <<vpc, checked>> \/ backupReleaseSecondaryIP(n, j)
    <3>1. OthersSteady(j)
      BY <2>6, <1>a, BackupEffect DEF OthersSteady, Steady
    <3>2. PodsUsed' /\ HandUsed' /\ HandMarked'
      BY <2>2, <2>3, <2>6, <3>1, <1>s, ReplyErrorUsed, TypeOK, LocalInv
    <3>3. CoolUsed' /\ LendMarked' /\ PoolMarked'
      BY <2>2, <2>3, <2>6, <3>1, <1>s, Untouched, TypeOK, LocalInv
    <3> QED
      BY <3>2, <3>3 DEF UsedInv, RecycledInv
  <2>7. CASE /\ vpc[j] = n /\ UNCHANGED <<vpc, checked, pool, recycled>>
             /\ hand[n].tag = "recycled" /\ ReplyIP(n)
    <3>1. OthersSteady(j)
      BY <2>7 DEF OthersSteady, Steady
    <3>2. vpc'[j] = n /\ j \in checked'
      BY <1>9, <2>1, <2>7, <1>s DEF checkSecondaryIpExist, HandMarked
    <3>3. PodsUsed' /\ HandUsed' /\ HandMarked'
      BY <2>1, <2>2, <2>3, <2>7, <3>1, <3>2, <1>s, ReplyIPUsed, TypeOK, LocalInv
    <3>4. CoolUsed' /\ LendMarked' /\ PoolMarked'
      BY <2>2, <2>3, <2>7, <3>1, <1>s, Untouched, TypeOK, LocalInv
    <3> QED
      BY <3>3, <3>4 DEF UsedInv, RecycledInv
  <2>8. CASE /\ vpc[j] = n /\ UNCHANGED <<vpc, checked, pool, recycled, hand, pod>>
             /\ Goto(n, "garp")
    <3>1. OthersSteady(j) /\ UNCHANGED vpcVars
      BY <2>8 DEF OthersSteady, Steady, vpcVars
    <3>2. pc'[n] = "garp" /\ \A m \in Node \ {n} : pc'[m] = pc[m]
      BY <2>8, <1>a DEF Goto, MgrType
    <3>3. HandUsed' /\ HandMarked'
      BY <2>1, <2>8, <3>2, <1>s DEF HandUsed, HandMarked
    <3>4. CoolUsed' /\ LendMarked' /\ PoolMarked' /\ PodsUsed'
      BY <2>2, <2>3, <2>8, <3>1, <1>s, Untouched, TypeOK, LocalInv
    <3> QED
      BY <3>3, <3>4 DEF UsedInv, RecycledInv
  <2> QED
    BY <1>9, <2>1, <2>5, <2>6, <2>7, <2>8 DEF checkSecondaryIpExist, putIpToPool, vpcVars, poolVars
<1>10. ASSUME NEW n \in Node, checkIPConflict(n) PROVE UsedInv' /\ RecycledInv'
  <2>1. PICK j \in IP : j = hand[n].ip
    BY <1>10, MgrFacts, TypeOK, LocalInv DEF checkIPConflict
  <2>2. /\ \A m \in Node : j \notin pool[m] /\ j \notin cool[m]
        /\ \A m \in Node \ {n} : ~InHand(m, j)
        /\ \A l, b \in Node : ~Lending(l, b, j)
        /\ \A q \in Pod : pod[q].ip # j
    <3>1. InHand(n, j)
      BY <1>10, <2>1 DEF checkIPConflict, InHand
    <3> QED
      BY <3>1, <1>e, HandAlone
  <2>3. req[n] # NoPod /\ vpc[j] = n /\ UNCHANGED <<pool, recycled, cool, lend>>
    BY <1>10, <2>1, <1>s, MgrFacts, TypeOK, LocalInv DEF checkIPConflict, coolVars, poolVars, HandUsed
  <2>4. CASE checked' = checked \cup {j} /\ ReplyIP(n) /\ UNCHANGED vpc
    <3>1. OthersSteady(j) /\ vpc'[j] = n /\ j \in checked'
      BY <2>3, <2>4 DEF OthersSteady, Steady
    <3>2. PodsUsed' /\ HandUsed' /\ HandMarked'
      BY <2>1, <2>2, <2>3, <2>4, <3>1, <1>s, ReplyIPUsed, TypeOK, LocalInv
    <3>3. CoolUsed' /\ LendMarked' /\ PoolMarked'
      BY <2>2, <2>3, <3>1, <1>s, Untouched, TypeOK, LocalInv
    <3> QED
      BY <3>2, <3>3 DEF UsedInv, RecycledInv
  <2>5. ASSUME NEW o, uapiDeleteSecondaryIp(n, j, o), ReplyError(n)
        PROVE  UsedInv' /\ RecycledInv'
    <3>1. OthersSteady(j)
      BY <2>5, <1>a, DeleteEffect DEF OthersSteady, Steady
    <3>2. PodsUsed' /\ HandUsed' /\ HandMarked'
      BY <2>2, <2>3, <2>5, <3>1, <1>s, ReplyErrorUsed, TypeOK, LocalInv
    <3>3. CoolUsed' /\ LendMarked' /\ PoolMarked'
      BY <2>2, <2>3, <3>1, <1>s, Untouched, TypeOK, LocalInv
    <3> QED
      BY <3>2, <3>3 DEF UsedInv, RecycledInv
  <2> QED
    BY <1>10, <2>1, <2>4, <2>5 DEF checkIPConflict
<1>11. ASSUME NEW n \in Node, releasePool(n) PROVE UsedInv' /\ RecycledInv'
  <2>1. PICK j \in IP : j = hand[n].ip
    BY <1>11, MgrFacts, TypeOK, LocalInv DEF releasePool
  <2>2. /\ \A m \in Node : j \notin pool[m] /\ j \notin cool[m]
        /\ \A m \in Node \ {n} : ~InHand(m, j)
        /\ \A l, b \in Node : ~Lending(l, b, j)
        /\ \A q \in Pod : pod[q].ip # j
    <3>1. InHand(n, j)
      BY <1>11, <2>1 DEF releasePool, InHand
    <3> QED
      BY <3>1, <1>e, HandAlone
  <2>3. hand[n].tag \in Tag /\ UNCHANGED <<cool, lend, pod>>
    BY <1>11, MgrFacts, TypeOK, LocalInv DEF releasePool, coolVars
  <2>4. OthersSteady(j)
    BY <1>11, <2>1, <1>a, DeleteEffect DEF releasePool, OthersSteady, Steady
  <2>5. PodsUsed' /\ CoolUsed' /\ LendMarked'
    BY <2>2, <2>3, <2>4, <1>s, Untouched, TypeOK, LocalInv
  <2>6. Finish(n) \/ (Goto(n, "view") /\ hand' = [hand EXCEPT ![n] = NoNetwork])
    BY <1>11 DEF releasePool
  <2>7. pc'[n] \in {"view", "status"} /\ \A m \in Node \ {n} : pc'[m] = pc[m] /\ hand'[m] = hand[m]
    BY <2>6, <1>a, FinishOthers, GotoOthers
  <2>8. HandUsed' /\ HandMarked'
    BY <2>2, <2>4, <2>7, <1>s, HandLeaves, TypeOK, LocalInv
  <2>9. \/ UNCHANGED <<pool, recycled>>
        \/ PoolPut(n, j, hand[n].tag) /\ UNCHANGED <<vpc, checked>>
    BY <1>11, <2>1 DEF releasePool, backupPushSecondaryIP, Outcome, uapiDeleteSecondaryIp, vpcVars, poolVars
  <2>10. PoolMarked'
    <3>1. CASE UNCHANGED <<pool, recycled>>
      BY <3>1, <2>2, <2>4, <1>s, Untouched, TypeOK, LocalInv
    <3>2. CASE PoolPut(n, j, hand[n].tag) /\ UNCHANGED <<vpc, checked>>
      <4>1. hand[n].tag = "recycled" /\ vpc'[j] = n => j \in checked'
        BY <1>11, <2>1, <3>2, <1>s DEF releasePool, HandMarked
      <4> QED
        BY <3>2, <4>1, <2>2, <2>3, <2>4, <1>s, PoolPutBack, TypeOK
    <3> QED
      BY <2>9, <3>1, <3>2
  <2> QED
    BY <2>5, <2>8, <2>10 DEF UsedInv, RecycledInv
<1>12. ASSUME NEW n \in Node, RecycleDelete(n) PROVE UsedInv' /\ RecycledInv'
  <2>1. UNCHANGED vpcVars
    BY <1>12 DEF RecycleDelete
  <2>2. HandUsed' /\ HandMarked'
    <3>1. CASE Finish(n)
      BY <3>1, <2>1, <1>a, <1>s, <1>u, GotoUsed, FinishOthers
    <3>2. ASSUME NEW j \in over[n], Goto(n, "put"), hand' = [hand EXCEPT ![n] = [ip |-> j, tag |-> "recycled"]]
          PROVE  HandUsed' /\ HandMarked'
      <4>1. vpc[j] = n /\ j \in checked /\ UNCHANGED <<vpc, checked>>
        BY <2>1, <1>s DEF CoolUsed, OverInv, vpcVars
      <4>2. pc'[n] = "put" /\ hand'[n].ip = j /\ hand'[n].tag = "recycled"
        BY <3>2, <1>a DEF Goto, MgrType
      <4>3. \A m \in Node \ {n} : pc'[m] = pc[m] /\ hand'[m] = hand[m]
        BY <3>2, <1>a DEF Goto, MgrType
      <4> QED
        BY <4>1, <4>2, <4>3, <1>s DEF HandUsed, HandMarked
    <3> QED
      BY <1>12, <3>1, <3>2 DEF RecycleDelete
  <2>3. CoolUsed'
    BY <1>12, <2>1, <1>a, <1>s, <1>u, CoolKept DEF RecycleDelete, CoolType, coolVars
  <2>u. UNCHANGED <<pod, pool, recycled, lend>>
    BY <1>12 DEF RecycleDelete, mgrVars, poolVars, coolVars
  <2> QED
    BY <2>1, <2>2, <2>3, <2>u, SafeUnchanged, SafeInv DEF UsedInv, RecycledInv
<1>13. ASSUME NEW n \in Node, RecyclePut(n) PROVE UsedInv' /\ RecycledInv'
  <2>1. PICK j \in IP : j = hand[n].ip
    BY <1>13, MgrFacts, TypeOK, LocalInv DEF RecyclePut
  <2>2. /\ \A m \in Node : j \notin pool[m] /\ j \notin cool[m]
        /\ \A m \in Node \ {n} : ~InHand(m, j)
        /\ \A l, b \in Node : ~Lending(l, b, j)
        /\ \A q \in Pod : pod[q].ip # j
    <3>1. InHand(n, j)
      BY <1>13, <2>1 DEF RecyclePut, InHand
    <3> QED
      BY <3>1, <1>e, HandAlone
  <2>3. hand[n].tag = "recycled" /\ j \in checked /\ UNCHANGED <<cool, lend, pod>>
    BY <1>13, <2>1, <1>s DEF RecyclePut, coolVars, HandUsed
  <2>4. \/ PoolPut(n, j, hand[n].tag) /\ UNCHANGED <<vpc, checked>>
        \/ backupReleaseSecondaryIP(n, j) /\ UNCHANGED <<pool, recycled>>
    BY <1>13, <2>1 DEF RecyclePut, putIpToPool, vpcVars, poolVars
  <2>5. OthersSteady(j)
    BY <2>4, <1>a, BackupEffect DEF OthersSteady, Steady
  <2>6. PodsUsed' /\ CoolUsed' /\ LendMarked'
    BY <2>2, <2>3, <2>5, <1>s, Untouched, TypeOK, LocalInv
  <2>7. pc'[n] = "recycle" /\ \A m \in Node \ {n} : pc'[m] = pc[m] /\ hand'[m] = hand[m]
    BY <1>13, <1>a, GotoOthers DEF RecyclePut
  <2>8. HandUsed' /\ HandMarked'
    BY <2>2, <2>5, <2>7, <1>s, HandLeaves, TypeOK, LocalInv
  <2>9. PoolMarked'
    <3>1. CASE UNCHANGED <<pool, recycled>>
      BY <3>1, <2>2, <2>5, <1>s, Untouched, TypeOK, LocalInv
    <3>2. CASE PoolPut(n, j, hand[n].tag) /\ UNCHANGED <<vpc, checked>>
      <4>1. hand[n].tag \in Tag /\ j \in checked'
        BY <2>3, <3>2 DEF Tag
      <4> QED
        BY <3>2, <4>1, <2>2, <2>5, <1>s, PoolPutBack, TypeOK
    <3> QED
      BY <2>4, <3>1, <3>2
  <2> QED
    BY <2>6, <2>8, <2>9 DEF UsedInv, RecycledInv
<1>14. ASSUME NEW n \in Node, updateStatus(n) PROVE UsedInv' /\ RecycledInv'
  <2>1. UNCHANGED vpcVars
    BY <1>14 DEF updateStatus
  <2>2. HandUsed' /\ HandMarked'
    BY <1>14, <2>1, <1>a, <1>s, <1>u, GotoUsed, FinishOthers, GotoOthers DEF updateStatus
  <2>u. UNCHANGED <<pod, cool, pool, recycled, lend>>
    BY <1>14 DEF updateStatus, mgrVars, poolVars, coolVars
  <2> QED
    BY <2>1, <2>2, <2>u, SafeUnchanged, SafeInv DEF UsedInv, RecycledInv
<1>15. ASSUME NEW n \in Node, ListIpamds(n) PROVE UsedInv' /\ RecycledInv'
  <2>1. UNCHANGED vpcVars
    BY <1>15 DEF ListIpamds
  <2>2. HandUsed' /\ HandMarked'
    BY <1>15, <2>1, <1>a, <1>s, <1>u, GotoUsed, FinishOthers, GotoOthers DEF ListIpamds,
       ReplyError
  <2>3. PodsUsed'
    BY <1>15, <2>1, <1>a, <1>s, <1>u, MgrFacts, PodDropped, SafeUnchanged, SafeInv, TypeOK,
       LocalInv DEF ListIpamds, ReplyError
  <2>u. UNCHANGED <<cool, pool, recycled, lend>>
    BY <1>15 DEF ListIpamds, mgrVars, poolVars, coolVars
  <2> QED
    BY <2>1, <2>2, <2>3, <2>u, SafeUnchanged, SafeInv DEF UsedInv, RecycledInv
<1>16. ASSUME NEW n \in Node, BorrowCall(n) PROVE UsedInv' /\ RecycledInv'
  <2>1. UNCHANGED vpcVars
    BY <1>16 DEF BorrowCall
  <2>2. HandUsed' /\ HandMarked'
    BY <1>16, <2>1, <1>a, <1>s, <1>u, GotoUsed, FinishOthers, GotoOthers DEF BorrowCall, Skip,
       ReplyError
  <2>3. PodsUsed'
    BY <1>16, <2>1, <1>a, <1>s, <1>u, MgrFacts, PodDropped, SafeUnchanged, SafeInv, TypeOK,
       LocalInv DEF BorrowCall, ReplyError
  <2>4. LendMarked'
    BY <1>16, <2>1, <1>a, <1>s, <1>u, LendEnds, LendStateFacts, SafeUnchanged, SafeInv DEF
       BorrowCall
  <2>u. UNCHANGED <<cool, pool, recycled>>
    BY <1>16 DEF BorrowCall, mgrVars, poolVars, coolVars
  <2> QED
    BY <2>1, <2>2, <2>3, <2>4, <2>u, SafeUnchanged, SafeInv DEF UsedInv, RecycledInv
<1>17. ASSUME NEW n \in Node, BorrowReturn(n) PROVE UsedInv' /\ RecycledInv'
  <2>1. UNCHANGED vpcVars
    BY <1>17 DEF BorrowReturn
  <2>2. HandUsed' /\ HandMarked'
    <3>1. CASE Skip(n, peer[n])
      BY <3>1, <2>1, <1>a, <1>s, <1>u, GotoUsed, GotoOthers DEF Skip
    <3>2. CASE Goto(n, "check") /\ hand' = [hand EXCEPT ![n] = Borrowed(lend[peer[n]][n])]
      <4>1. pc'[n] = "check" /\ hand'[n].tag = "new"
        BY <3>2, <1>a DEF Borrowed, Goto, MgrType
      <4>2. \A m \in Node \ {n} : pc'[m] = pc[m] /\ hand'[m] = hand[m]
        BY <3>2, <1>a DEF Goto, MgrType
      <4> QED
        BY <2>1, <4>1, <4>2, <1>s, <1>u, HandNew
    <3> QED
      BY <1>17, <3>1, <3>2 DEF BorrowReturn
  <2>3. LendMarked'
    BY <1>17, <2>1, <1>a, <1>s, <1>u, LendEnds, LendStateFacts, MgrFacts, TypeOK, LocalInv DEF
       BorrowReturn
  <2>u. UNCHANGED <<pod, cool, pool, recycled>>
    BY <1>17 DEF BorrowReturn, mgrVars, poolVars, coolVars
  <2> QED
    BY <2>1, <2>2, <2>3, <2>u, SafeUnchanged, SafeInv DEF UsedInv, RecycledInv
<1>18. ASSUME NEW n \in Node, BorrowTimeout(n) PROVE UsedInv' /\ RecycledInv'
  <2>1. UNCHANGED vpcVars
    BY <1>18 DEF BorrowTimeout
  <2>2. HandUsed' /\ HandMarked'
    BY <1>18, <2>1, <1>a, <1>s, <1>u, GotoUsed, FinishOthers, GotoOthers DEF BorrowTimeout, Skip
  <2>u. UNCHANGED <<pod, cool, pool, recycled, lend>>
    BY <1>18 DEF BorrowTimeout, mgrVars, poolVars, coolVars
  <2> QED
    BY <2>1, <2>2, <2>u, SafeUnchanged, SafeInv DEF UsedInv, RecycledInv
<1>19. ASSUME NEW n \in Node, Crash(n) PROVE UsedInv' /\ RecycledInv'
  <2>1. UNCHANGED vpcVars
    BY <1>19 DEF Crash
  <2>2. HandUsed' /\ HandMarked'
    <3>1. pc'[n] = "down" /\ \A m \in Node \ {n} : pc'[m] = pc[m] /\ hand'[m] = hand[m]
      BY <1>19, <1>a DEF Crash, Goto, ResetLocals, MgrType
    <3> QED
      BY <3>1, <2>1, <1>a, <1>s, <1>u, GotoUsed
  <2>3. PodsUsed'
    BY <1>19, <2>1, <1>a, <1>s, <1>u, PodsKept, IdlePod DEF Crash, PodType
  <2>4. LendMarked'
    BY <1>19, <2>1, <1>a, <1>s, <1>u, LendKept, LendStateFacts DEF Crash, LendType
  <2>u. UNCHANGED <<cool, pool, recycled>>
    BY <1>19 DEF Crash, mgrVars, poolVars, coolVars
  <2> QED
    BY <2>1, <2>2, <2>3, <2>4, <2>u, SafeUnchanged, SafeInv DEF UsedInv, RecycledInv
<1>20. ASSUME NEW n \in Node, Restart(n) PROVE UsedInv' /\ RecycledInv'
  <2>1. UNCHANGED vpcVars
    BY <1>20 DEF Restart
  <2>2. HandUsed' /\ HandMarked'
    BY <1>20, <2>1, <1>a, <1>s, <1>u, GotoUsed, FinishOthers, GotoOthers DEF Restart
  <2>u. UNCHANGED <<pod, cool, pool, recycled, lend>>
    BY <1>20 DEF Restart, mgrVars, poolVars, coolVars
  <2> QED
    BY <2>1, <2>2, <2>u, SafeUnchanged, SafeInv DEF UsedInv, RecycledInv
<1>21. ASSUME NEW n \in Node, NEW i \in IP, CooldownOver(n, i) PROVE UsedInv' /\ RecycledInv'
  <2>1. UNCHANGED <<vpcVars, pool, recycled, cool, pc, hand, lend, pod>>
    BY <1>21 DEF CooldownOver, poolVars, mgrVars
  <2> QED
    BY <2>1, SafeUnchanged, SafeInv DEF UsedInv, RecycledInv
<1>22. ASSUME NEW l \in Node, NEW b \in Node, LendPopView(l, b) PROVE UsedInv' /\ RecycledInv'
  <2>1. UNCHANGED vpcVars
    BY <1>22 DEF LendPopView
  <2>2. LendMarked'
    BY <1>22, <2>1, <1>a, <1>s, <1>u, LendEnds, LendStateFacts DEF LendPopView
  <2>u. UNCHANGED <<pc, hand, pod, cool, pool, recycled>>
    BY <1>22 DEF LendPopView, mgrVars, poolVars, coolVars
  <2> QED
    BY <2>1, <2>2, <2>u, SafeUnchanged, SafeInv DEF UsedInv, RecycledInv
<1>23. ASSUME NEW l \in Node, NEW b \in Node, LendPopDelete(l, b) PROVE UsedInv' /\ RecycledInv'
  <2>1. UNCHANGED vpcVars
    BY <1>23 DEF LendPopDelete
  <2>2. PoolMarked'
    BY <1>23, <2>1, <1>a, <1>s, <1>u, PoolKept DEF LendPopDelete, PopDelete, PoolType,
       PoolMarked
  <2>3. LendMarked'
    <3>1. PICK j : j = lend[l][b].ip
      OBVIOUS
    <3>2. j \in pool[l] /\ (lend[l][b].tag = "recycled" => j \in recycled[l]) /\ UNCHANGED <<vpc, checked>>
      BY <1>23, <3>1, <2>1 DEF LendPopDelete, PopDelete, TagOf, vpcVars
    <3>3. PICK s : SetLend(l, b, s) /\ s.ip = j /\ s.tag = lend[l][b].tag
      BY <1>23, <3>1, LendFacts, LendStateFacts, TypeOK, LocalInv, ZenonT(60) DEF LendPopDelete
    <3> QED
      BY <3>2, <3>3, <1>a, <1>s DEF LendMarked, PoolMarked, SetLend, LendType
  <2>u. UNCHANGED <<pc, hand, pod, cool>>
    BY <1>23 DEF LendPopDelete, mgrVars, poolVars, coolVars
  <2> QED
    BY <2>1, <2>2, <2>3, <2>u, SafeUnchanged, SafeInv DEF UsedInv, RecycledInv
<1>24. ASSUME NEW l \in Node, NEW b \in Node, LendPopError(l, b) PROVE UsedInv' /\ RecycledInv'
  <2>1. UNCHANGED vpcVars
    BY <1>24 DEF LendPopError
  <2>2. LendMarked'
    BY <1>24, <2>1, <1>a, <1>s, <1>u, LendEnds, LendStateFacts DEF LendPopError
  <2>u. UNCHANGED <<pc, hand, pod, cool, pool, recycled>>
    BY <1>24 DEF LendPopError, mgrVars, poolVars, coolVars
  <2> QED
    BY <2>1, <2>2, <2>u, SafeUnchanged, SafeInv DEF UsedInv, RecycledInv
<1>25. ASSUME NEW l \in Node, NEW b \in Node, uapiMoveSecondaryIPMac(l, b) PROVE UsedInv' /\ RecycledInv'
  <2>1. PICK j \in IP : j = lend[l][b].ip
    BY <1>25, LendFacts, TypeOK, LocalInv DEF uapiMoveSecondaryIPMac
  <2>2. /\ \A m \in Node : j \notin pool[m] /\ j \notin cool[m] /\ ~InHand(m, j)
        /\ \A k, c \in Node : Lending(k, c, j) => k = l /\ c = b
        /\ \A q \in Pod : pod[q].ip # j
    <3>1. Lending(l, b, j)
      BY <1>25, <2>1 DEF uapiMoveSecondaryIPMac, Lending
    <3> QED
      BY <3>1, <1>e, LendAlone
  <2>3. b # l /\ lend[l][b].tag \in Tag /\ lend[l][b] \in LendState /\ UNCHANGED <<cool, pod, pc, hand>>
    BY <1>25, LendFacts, TypeOK, LocalInv, NoSelf DEF uapiMoveSecondaryIPMac, coolVars, mgrVars, NoSelf
  <2>4. \/ Attach(j, b) /\ (UNCHANGED <<pool, recycled>> \/ PoolPut(l, j, lend[l][b].tag))
        \/ UNCHANGED <<vpc, checked>> /\ PoolPut(l, j, lend[l][b].tag)
        \/ backupReleaseSecondaryIP(l, j) /\ UNCHANGED <<pool, recycled>>
    BY <1>25, <2>1 DEF uapiMoveSecondaryIPMac, putIpToPool, backupPushSecondaryIP, vpcVars, poolVars
  <2>5. OthersSteady(j)
    BY <2>4, <1>a, BackupEffect, AttachEffect DEF OthersSteady, Steady
  <2>6. PodsUsed' /\ CoolUsed' /\ HandUsed' /\ HandMarked'
    BY <2>2, <2>3, <2>5, <1>s, Untouched, TypeOK, LocalInv
  <2>7. PICK s : SetLend(l, b, s) /\ s.pc # "move"
    BY <1>25, <2>3, LendStateFacts DEF uapiMoveSecondaryIPMac
  <2>8. \A k, c \in Node : (k # l \/ c # b) /\ lend[k][c].pc = "move" => Steady(lend[k][c].ip)
    BY <2>2, <2>5, LendFacts, TypeOK, LocalInv DEF OthersSteady, Lending
  <2>9. LendMarked'
    BY <2>7, <2>8, <1>a, <1>s, LendEnds
  <2>10. PoolMarked'
    <3>1. CASE UNCHANGED <<pool, recycled>>
      BY <3>1, <2>2, <2>5, <1>s, Untouched, TypeOK, LocalInv
    <3>2. CASE PoolPut(l, j, lend[l][b].tag)
      <4>1. (UNCHANGED <<vpc, checked>> \/ vpc'[j] # l) \/ UNCHANGED <<pool, recycled>>
        BY <2>3, <2>4, <1>a, AttachEffect
      <4>2. UNCHANGED <<vpc, checked>> \/ vpc'[j] # l => (lend[l][b].tag = "recycled" /\ vpc'[j] = l => j \in checked')
        BY <1>25, <2>1, <1>s DEF uapiMoveSecondaryIPMac, LendMarked
      <4> QED
        BY <3>1, <3>2, <4>1, <4>2, <2>2, <2>3, <2>5, <1>s, PoolPutBack, TypeOK
    <3> QED
      BY <2>4, <3>1, <3>2
  <2> QED
    BY <2>6, <2>9, <2>10 DEF UsedInv, RecycledInv
<1>26. ASSUME NEW l \in Node, NEW b \in Node, LendDropped(l, b) PROVE UsedInv' /\ RecycledInv'
  <2>1. UNCHANGED vpcVars
    BY <1>26 DEF LendDropped
  <2>2. LendMarked'
    BY <1>26, <2>1, <1>a, <1>s, <1>u, LendEnds, LendStateFacts DEF LendDropped
  <2>u. UNCHANGED <<pc, hand, pod, cool, pool, recycled>>
    BY <1>26 DEF LendDropped, mgrVars, poolVars, coolVars
  <2> QED
    BY <2>1, <2>2, <2>u, SafeUnchanged, SafeInv DEF UsedInv, RecycledInv
<1>27. ASSUME NEW p \in Pod, AddPodNetwork(p) PROVE UsedInv' /\ RecycledInv'
  <2>1. UNCHANGED vpcVars
    BY <1>27 DEF AddPodNetwork
  <2>2. PodsUsed'
    BY <1>27, <2>1, <1>a, <1>s, <1>u, PodsKept DEF AddPodNetwork, PodType
  <2>u. UNCHANGED <<pc, hand, cool, pool, recycled, lend>>
    BY <1>27 DEF AddPodNetwork, mgrVars, poolVars, coolVars
  <2> QED
    BY <2>1, <2>2, <2>u, SafeUnchanged, SafeInv DEF UsedInv, RecycledInv
<1>28. ASSUME NEW p \in Pod, AnswerAdd(p) PROVE UsedInv' /\ RecycledInv'
  <2>1. PICK j \in IP : j = pod[p].ip
    BY <1>28, PodFacts, TypeOK, LocalInv DEF AnswerAdd
  <2>2. /\ \A m \in Node : j \notin pool[m] /\ j \notin cool[m] /\ ~InHand(m, j)
        /\ \A l, b \in Node : ~Lending(l, b, j)
        /\ \A q \in Pod : pod[q].ip = j => q = p
    BY <2>1, <1>e, PodAlone
  <2>3. PodNode[p] \in Node /\ UNCHANGED <<pool, recycled, cool, lend, pc, hand>>
    BY <1>28, PodFacts, TypeOK, LocalInv DEF AnswerAdd, poolVars, coolVars, mgrVars
  <2>4. \/ pod' = [pod EXCEPT ![p].st = "up"] /\ UNCHANGED <<vpc, checked>>
        \/ /\ pod' = [pod EXCEPT ![p] = PodIdle]
           /\ UNCHANGED <<vpc, checked>> \/ backupReleaseSecondaryIP(PodNode[p], j)
    BY <1>28, <2>1 DEF AnswerAdd, vpcVars
  <2>5. OthersSteady(j)
    BY <2>3, <2>4, <1>a, BackupEffect DEF OthersSteady, Steady
  <2>6. CoolUsed' /\ HandUsed' /\ HandMarked' /\ PoolMarked' /\ LendMarked'
    BY <2>2, <2>3, <2>5, <1>s, Untouched, TypeOK, LocalInv
  <2>7. PodsUsed'
    <3>1. CASE pod' = [pod EXCEPT ![p].st = "up"] /\ UNCHANGED <<vpc, checked>>
      BY <3>1, <1>a, <1>s DEF PodsUsed, PodType
    <3>2. CASE pod' = [pod EXCEPT ![p] = PodIdle]
      <4>1. \A q \in Pod \ {p} : pod[q].ip # NoIP => Steady(pod[q].ip)
        BY <2>2, <2>5, PodFacts, TypeOK, LocalInv DEF OthersSteady
      <4> QED
        BY <3>2, <4>1, <1>a, <1>s, PodDropped
    <3> QED
      BY <2>4, <3>1, <3>2
  <2> QED
    BY <2>6, <2>7 DEF UsedInv, RecycledInv
<1>29. ASSUME NEW p \in Pod, DelPodNetwork(p) PROVE UsedInv' /\ RecycledInv'
  <2>1. UNCHANGED vpcVars
    BY <1>29 DEF DelPodNetwork
  <2>2. PodsUsed'
    BY <1>29, <2>1, <1>a, <1>s, <1>u, PodsKept DEF DelPodNetwork, PodType
  <2>u. UNCHANGED <<pc, hand, cool, pool, recycled, lend>>
    BY <1>29 DEF DelPodNetwork, mgrVars, poolVars, coolVars
  <2> QED
    BY <2>1, <2>2, <2>u, SafeUnchanged, SafeInv DEF UsedInv, RecycledInv
<1> QED
  BY <1>1, <1>2, <1>3, <1>4, <1>5, <1>6, <1>7, <1>8, <1>9, <1>10, <1>11, <1>12, <1>13, <1>14,
     <1>15, <1>16, <1>17, <1>18, <1>19, <1>20, <1>21, <1>22, <1>23, <1>24, <1>25, <1>26, <1>27,
     <1>28, <1>29 DEF Next, Select, MgrStep, LendStep, PodStep

----------------------------------------------------------------------------
(* The theorems.                                                           *)

LEMMA SafeInit == Init => SafeInv
<1> SUFFICES ASSUME Init PROVE SafeInv
  OBVIOUS
<1>i. NoIP \notin IP /\ NoNode \notin Node /\ InitPool \in [Node -> SUBSET IP]
      /\ \A m, n \in Node : m # n => InitPool[m] \cap InitPool[n] = {}
  BY ConstAssumption
<1>1. \A n \in Node : \A i \in InitPool[n] : i \in IP /\ vpc[i] = n /\ i \in checked
  <2>1. SUFFICES ASSUME NEW n \in Node, NEW i \in InitPool[n]
                 PROVE  i \in IP /\ vpc[i] = n /\ i \in checked
    OBVIOUS
  <2>2. i \in IP
    BY <1>i
  <2>3. (CHOOSE m \in Node : i \in InitPool[m]) = n
    <3>1. \A m \in Node : i \in InitPool[m] => m = n
      BY <1>i
    <3> QED
      BY <3>1
  <2>4. vpc[i] = n
    BY <2>2, <2>3 DEF Init
  <2>5. i \in checked
    BY DEF Init
  <2> QED
    BY <2>2, <2>4, <2>5
<1>2. /\ pool = InitPool /\ recycled = InitPool
      /\ \A n \in Node : cool[n] = {} /\ hand[n].ip = NoIP /\ pc[n] = "idle"
      /\ \A l, b \in Node : lend[l][b].ip = NoIP /\ lend[l][b].pc = "idle"
      /\ \A p \in Pod : pod[p].ip = NoIP
  BY DEF Init, NoNetwork, LendIdle, PodIdle
<1>3. \A i \in IP : Holders(i) = PoolHolders(i)
  BY <1>2, <1>i DEF Holders, CoolHolders, HandHolders, LendHolders, PodHolders, InHand, Lending
<1>4. Exclusive
  <2>1. SUFFICES ASSUME NEW i \in IP, NEW x \in PoolHolders(i), NEW y \in PoolHolders(i)
                 PROVE  x = y
    BY <1>3 DEF Exclusive
  <2>2. PICK m \in Node, n \in Node : x = <<"pool", m>> /\ i \in pool[m] /\ y = <<"pool", n>> /\ i \in pool[n]
    BY DEF PoolHolders
  <2> QED
    BY <2>2, <1>1, <1>2
<1>5. FreeUnheld
  BY <1>1, <1>2, <1>3, <1>i DEF FreeUnheld, PoolHolders
<1>6. UsedInv
  BY <1>2 DEF UsedInv, PodsUsed, CoolUsed, HandUsed
<1>7. RecycledInv
  BY <1>1, <1>2 DEF RecycledInv, PoolMarked, HandMarked, LendMarked
<1> QED
  BY <1>4, <1>5, <1>6, <1>7 DEF SafeInv

LEMMA IInvStep == IInv /\ Next => IInv'
<1> SUFFICES ASSUME IInv, Next PROVE IInv'
  OBVIOUS
<1>1. TypeOK /\ LocalInv /\ OverInv /\ NoSelf
  BY DEF IInv
<1>2. TypeOK' /\ LocalInv'
  BY <1>1, TypeStep, LocalStep
<1>3. OverInv' /\ NoSelf' /\ hazards \subseteq hazards'
  BY <1>1, AuxStep
<1>4. ASSUME hazards' = {} PROVE SafeInv'
  <2>1. SafeInv
    BY <1>3, <1>4 DEF IInv
  <2>2. Exclusive' /\ FreeUnheld'
    BY <1>1, <1>4, <2>1, HoldersSafe
  <2>3. UsedInv' /\ RecycledInv'
    BY <1>1, <1>4, <2>1, UsedSafe
  <2> QED
    BY <2>2, <2>3 DEF SafeInv
<1> QED
  BY <1>2, <1>3, <1>4 DEF IInv

LEMMA IInvUnchanged == IInv /\ UNCHANGED vars => IInv'
<1> SUFFICES ASSUME IInv, UNCHANGED vars PROVE IInv'
  OBVIOUS
<1>1. UNCHANGED <<vpcVars, poolVars, coolVars, cr, mgrVars, lend, pod, faults, hazards>>
  BY DEF vars, history
<1>2. UNCHANGED <<vpc, pool, recycled, cool, pc, hand, cands, lend, pod>>
  BY <1>1 DEF vpcVars, poolVars, coolVars, mgrVars, borrow
<1>3. TypeOK' /\ LocalInv'
  BY <1>1, TypeUnchanged, LocalUnchanged DEF IInv, TypeOK, LocalInv, mgrVars, job
<1>4. OverInv' /\ NoSelf'
  BY <1>1, <1>2, AuxUnchanged DEF IInv
<1>5. ASSUME hazards' = {} PROVE SafeInv'
  <2>1. SafeInv
    BY <1>1, <1>5 DEF IInv
  <2>2. \A i \in IP : Holders(i)' = Holders(i)
    BY <1>2, HoldersUnchanged DEF Holders
  <2>3. Exclusive' /\ FreeUnheld'
    BY <2>1, <2>2, <1>2 DEF SafeInv, Exclusive, FreeUnheld
  <2>4. UsedInv' /\ RecycledInv'
    BY <2>1, <1>1, <1>2, SafeUnchanged DEF UsedInv, RecycledInv
  <2> QED
    BY <2>3, <2>4 DEF SafeInv
<1> QED
  BY <1>3, <1>4, <1>5 DEF IInv

(* The inductive invariant, for every number of nodes, pods and addresses  *)
(* and every fault budget: until a hazardous event happens, each address   *)
(* is held by at most one pool, cooldown set, goroutine or pod, and what   *)
(* the pools record about it (attached here, Recycled) agrees with the VPC.*)
THEOREM Inductive == Spec => []IInv
<1>1. Init => IInv
  BY TypeInit, LocalInit, AuxInit, SafeInit DEF IInv
<1>2. IInv /\ [Next]_vars => IInv'
  BY IInvStep, IInvUnchanged
<1> QED
  BY <1>1, <1>2, PTL DEF Spec

(* No address is given to two pods, whatever the daemons, their borrowing  *)
(* and their crashes do, unless a Pop was overtaken (Bolt.Pop) or a DEL or *)
(* release call was repeated after its answer got lost.                    *)
THEOREM PodsExclusive == Spec => []PodExclusive
<1>1. IInv => PodExclusive
  <2> SUFFICES ASSUME IInv, hazards = {}, NEW p \in Pod, NEW q \in Pod,
                      pod[p].ip = pod[q].ip, pod[p].ip # NoIP
               PROVE  p = q
    BY DEF PodExclusive
  <2>1. Exclusive /\ FreeUnheld /\ pod[p].ip \in IP
    BY PodFacts DEF IInv, SafeInv
  <2> QED
    BY <2>1, PodAlone
<1> QED
  BY <1>1, Inductive, PTL

(* The address of a pod stays attached to the MAC of the pod's node, so    *)
(* neither lendIP nor releasePool takes it away, under the same proviso.   *)
THEOREM PodsRouted == Spec => []PodRouted
<1>1. IInv => PodRouted
  BY DEF IInv, SafeInv, UsedInv, PodsUsed, PodRouted
<1> QED
  BY <1>1, Inductive, PTL

(* Every pod's address passed the conflict check of checkIPConflict after  *)
(* it was last attached: the Recycled flag never vouches for another node. *)
THEOREM PodsChecked == Spec => []PodChecked
<1>1. IInv => PodChecked
  BY DEF IInv, SafeInv, UsedInv, PodsUsed, PodChecked
<1> QED
  BY <1>1, Inductive, PTL

----------------------------------------------------------------------------
(* The leak bound.  An address is astray when it is attached to a node     *)
(* that does not hold it: every leaked address is, and so is one that a    *)
(* lender still has in its pool after a lost answer of MoveSecondaryIPMac  *)
(* moved it to the borrower.  A goroutine of lendIP whose borrower gave up *)
(* is an orphan: the address it pops will be lost when it returns.  Each   *)
(* of the two has cost a fault already, and no later step charges another  *)
(* one for the same address.                                               *)

MovingFrom(n, i) == \E b \in Node : lend[n][b].pc = "move" /\ lend[n][b].ip = i
MovedTo(n, i) == \E l \in Node : lend[l][n].pc = "ok" /\ lend[l][n].ip = i
PodAt(n, i) == \E p \in Pod : PodNode[p] = n /\ pod[p].ip = i
HeldAt(n, i) ==
  \/ i \in pool[n] \/ i \in cool[n] \/ InHand(n, i)
  \/ MovingFrom(n, i) \/ MovedTo(n, i) \/ PodAt(n, i)

Astray == {i \in IP : vpc[i] # NoNode /\ \A n \in Node : vpc[i] = n => ~HeldAt(n, i)}

Waits(b, l) == pc[b] = "rpc" /\ peer[b] = l
Working == {"view", "del", "move", "ok"}
Orphans == {x \in Node \X Node : lend[x[1]][x[2]].pc \in Working /\ ~Waits(x[2], x[1])}

Budget == Cardinality(Astray) + Cardinality(Orphans) <= faults
BudgetInv == hazards = {} /\ "crash" \notin FaultKinds => Budget

LEMMA BudgetFinite ==
  /\ \A S \in SUBSET IP : IsFiniteSet(S) /\ Cardinality(S) \in Nat
  /\ \A S \in SUBSET (Node \X Node) : IsFiniteSet(S) /\ Cardinality(S) \in Nat
<1>1. IsFiniteSet(IP) /\ IsFiniteSet(Node)
  BY ConstAssumption
<1>2. IsFiniteSet(Node \X Node)
  BY <1>1, FS_Product
<1> QED
  BY <1>1, <1>2, FS_Subset, FS_CardinalityType

LEMMA BudgetSets == /\ Astray \in SUBSET IP /\ Astray' \in SUBSET IP
                    /\ Orphans \in SUBSET (Node \X Node) /\ Orphans' \in SUBSET (Node \X Node)
BY DEF Astray, Orphans

(* A step that strays no address and orphans no goroutine, *)
LEMMA FreeStep ==
  ASSUME TypeOK, Budget, Astray' \subseteq Astray, Orphans' \subseteq Orphans,
         faults' = faults \/ faults' = faults + 1
  PROVE  Budget'
<1>f. faults \in Nat
  BY ConstAssumption DEF TypeOK
<1>a. PICK A : A = Astray
  OBVIOUS
<1>b. PICK B : B = Astray'
  OBVIOUS
<1>c. PICK O : O = Orphans
  OBVIOUS
<1>d. PICK Q : Q = Orphans'
  OBVIOUS
<1>1. /\ IsFiniteSet(A) /\ IsFiniteSet(O) /\ Cardinality(A) \in Nat /\ Cardinality(O) \in Nat
      /\ Cardinality(B) \in Nat /\ Cardinality(Q) \in Nat
  BY <1>a, <1>b, <1>c, <1>d, BudgetFinite, BudgetSets
<1>2. B \subseteq A /\ Q \subseteq O
  BY <1>a, <1>b, <1>c, <1>d
<1>3. Cardinality(B) <= Cardinality(A) /\ Cardinality(Q) <= Cardinality(O)
  BY <1>1, <1>2, FS_Subset
<1>4. Cardinality(A) + Cardinality(O) <= faults
  BY <1>a, <1>c DEF Budget
<1>5. Cardinality(B) + Cardinality(Q) <= faults'
  BY <1>1, <1>3, <1>4, <1>f
<1> QED
  BY <1>5, <1>b, <1>d DEF Budget

(* one that pays a fault for the address it strays, *)
LEMMA PaidStray ==
  ASSUME TypeOK, Budget, NEW j \in IP, Astray' \subseteq Astray \cup {j}, Orphans' \subseteq Orphans,
         faults' = faults + 1
  PROVE  Budget'
<1>f. faults \in Nat
  BY ConstAssumption DEF TypeOK
<1>a. PICK A : A = Astray
  OBVIOUS
<1>b. PICK B : B = Astray'
  OBVIOUS
<1>c. PICK O : O = Orphans
  OBVIOUS
<1>d. PICK Q : Q = Orphans'
  OBVIOUS
<1>1. /\ IsFiniteSet(A) /\ IsFiniteSet(O) /\ Cardinality(A) \in Nat /\ Cardinality(O) \in Nat
      /\ Cardinality(B) \in Nat /\ Cardinality(Q) \in Nat
      /\ IsFiniteSet(A \cup {j}) /\ Cardinality(A \cup {j}) \in Nat
  BY <1>a, <1>b, <1>c, <1>d, BudgetFinite, BudgetSets
<1>2. B \subseteq A \cup {j} /\ Q \subseteq O
  BY <1>a, <1>b, <1>c, <1>d
<1>3. Cardinality(B) <= Cardinality(A \cup {j}) /\ Cardinality(Q) <= Cardinality(O)
  BY <1>1, <1>2, FS_Subset
<1>4. Cardinality(A \cup {j}) <= Cardinality(A) + 1
  BY <1>1, FS_AddElement
<1>5. Cardinality(A) + Cardinality(O) <= faults
  BY <1>a, <1>c DEF Budget
<1>6. Cardinality(B) + Cardinality(Q) <= faults'
  BY <1>1, <1>3, <1>4, <1>5, <1>f
<1> QED
  BY <1>6, <1>b, <1>d DEF Budget

(* or for the goroutine it orphans, *)
LEMMA PaidOrphan ==
  ASSUME TypeOK, Budget, NEW x \in Node \X Node, Astray' \subseteq Astray, Orphans' \subseteq Orphans \cup {x},
         faults' = faults + 1
  PROVE  Budget'
<1>f. faults \in Nat
  BY ConstAssumption DEF TypeOK
<1>a. PICK A : A = Astray
  OBVIOUS
<1>b. PICK B : B = Astray'
  OBVIOUS
<1>c. PICK O : O = Orphans
  OBVIOUS
<1>d. PICK Q : Q = Orphans'
  OBVIOUS
<1>1. /\ IsFiniteSet(A) /\ IsFiniteSet(O) /\ Cardinality(A) \in Nat /\ Cardinality(O) \in Nat
      /\ Cardinality(B) \in Nat /\ Cardinality(Q) \in Nat
      /\ IsFiniteSet(O \cup {x}) /\ Cardinality(O \cup {x}) \in Nat
  <2>1. O \cup {x} \in SUBSET (Node \X Node)
    BY <1>c, BudgetSets
  <2> QED
    BY <2>1, <1>a, <1>b, <1>c, <1>d, BudgetFinite, BudgetSets
<1>2. B \subseteq A /\ Q \subseteq O \cup {x}
  BY <1>a, <1>b, <1>c, <1>d
<1>3. Cardinality(B) <= Cardinality(A) /\ Cardinality(Q) <= Cardinality(O \cup {x})
  BY <1>1, <1>2, FS_Subset
<1>4. Cardinality(O \cup {x}) <= Cardinality(O) + 1
  BY <1>1, FS_AddElement
<1>5. Cardinality(A) + Cardinality(O) <= faults
  BY <1>a, <1>c DEF Budget
<1>6. Cardinality(B) + Cardinality(Q) <= faults'
  BY <1>1, <1>3, <1>4, <1>5, <1>f
<1> QED
  BY <1>6, <1>b, <1>d DEF Budget

(* and the end of an orphan, whose address goes astray in its place. *)
LEMMA OrphanEnds ==
  ASSUME TypeOK, Budget, NEW j \in IP, NEW x \in Orphans,
         Astray' \subseteq Astray \cup {j}, Orphans' \subseteq Orphans \ {x}, faults' = faults
  PROVE  Budget'
<1>f. faults \in Nat
  BY ConstAssumption DEF TypeOK
<1>a. PICK A : A = Astray
  OBVIOUS
<1>b. PICK B : B = Astray'
  OBVIOUS
<1>c. PICK O : O = Orphans
  OBVIOUS
<1>d. PICK Q : Q = Orphans'
  OBVIOUS
<1>1. /\ IsFiniteSet(A) /\ IsFiniteSet(O) /\ Cardinality(A) \in Nat /\ Cardinality(O) \in Nat
      /\ Cardinality(B) \in Nat /\ Cardinality(Q) \in Nat
      /\ IsFiniteSet(A \cup {j}) /\ Cardinality(A \cup {j}) \in Nat
      /\ IsFiniteSet(O \ {x}) /\ Cardinality(O \ {x}) \in Nat
  <2>1. O \ {x} \in SUBSET (Node \X Node)
    BY <1>c, BudgetSets
  <2> QED
    BY <2>1, <1>a, <1>b, <1>c, <1>d, BudgetFinite, BudgetSets
<1>2. B \subseteq A \cup {j} /\ Q \subseteq O \ {x} /\ x \in O
  BY <1>a, <1>b, <1>c, <1>d
<1>3. Cardinality(B) <= Cardinality(A \cup {j}) /\ Cardinality(Q) <= Cardinality(O \ {x})
  BY <1>1, <1>2, FS_Subset
<1>4. Cardinality(A \cup {j}) <= Cardinality(A) + 1 /\ Cardinality(O \ {x}) = Cardinality(O) - 1
  BY <1>1, <1>2, FS_AddElement, FS_RemoveElement, SMTT(30)
<1>5. Cardinality(A) + Cardinality(O) <= faults
  BY <1>a, <1>c DEF Budget
<1>6. Cardinality(B) + Cardinality(Q) <= faults'
  BY <1>1, <1>3, <1>4, <1>5, <1>f
<1> QED
  BY <1>6, <1>b, <1>d DEF Budget

(* Every address but j stays attached and held where it was. *)
OthersHeld(j) ==
  \A i \in IP \ {j} : vpc'[i] = vpc[i] /\ \A n \in Node : HeldAt(n, i) => HeldAt(n, i)'

LEMMA StrayOne ==
  ASSUME VpcType, NEW j, OthersHeld(j)
  PROVE  Astray' \subseteq Astray \cup {j}
BY DEF Astray, OthersHeld, VpcType

LEMMA StrayNone ==
  ASSUME VpcType, NEW j, OthersHeld(j),
         j \in IP => vpc'[j] = NoNode \/ (\E n \in Node : vpc'[j] = n /\ HeldAt(n, j)') \/ j \in Astray
  PROVE  Astray' \subseteq Astray
BY DEF Astray, OthersHeld, VpcType

(* What keeps an address held. *)
LEMMA PoolStays ==
  ASSUME PoolType, NEW j, NEW n \in Node,
         \/ UNCHANGED pool
         \/ pool' = [pool EXCEPT ![n] = @ \cup {j}]
         \/ pool' = [pool EXCEPT ![n] = @ \ {j}]
  PROVE  \A i \in IP \ {j} : \A m \in Node : i \in pool[m] => i \in pool'[m]
BY DEF PoolType

LEMMA CoolStays ==
  ASSUME CoolType, NEW j, NEW n \in Node,
         \/ UNCHANGED cool
         \/ cool' = [cool EXCEPT ![n] = @ \cup {j}]
         \/ cool' = [cool EXCEPT ![n] = @ \ {j}]
  PROVE  \A i \in IP \ {j} : \A m \in Node : i \in cool[m] => i \in cool'[m]
BY DEF CoolType

LEMMA HandStays ==
  ASSUME MgrType, NEW j, NEW n \in Node, \A m \in Node \ {n} : pc'[m] = pc[m] /\ hand'[m] = hand[m],
         \/ hand[n].ip \in {j, NoIP} \/ pc[n] = "del"
         \/ hand'[n] = hand[n] /\ pc'[n] # "del"
  PROVE  \A i \in IP \ {j} : \A m \in Node : InHand(m, i) => InHand(m, i)'
BY ConstAssumption DEF InHand, MgrType

LEMMA LendStays ==
  ASSUME LendType, NEW j, NEW l \in Node, NEW b \in Node, NEW s, SetLend(l, b, s),
         lend[l][b].ip \in {j, NoIP} \/ lend[l][b].pc \notin {"move", "ok"}
  PROVE  \A i \in IP \ {j} : \A m \in Node : /\ MovingFrom(m, i) => MovingFrom(m, i)'
                                             /\ MovedTo(m, i) => MovedTo(m, i)'
<1>0. NoIP \notin IP
  BY ConstAssumption
<1>1. \A k, c \in Node : <<k, c>> # <<l, b>> => lend'[k][c] = lend[k][c]
  BY DEF SetLend, LendType
<1> SUFFICES ASSUME NEW i \in IP \ {j}, NEW m \in Node
             PROVE  /\ MovingFrom(m, i) => MovingFrom(m, i)'
                    /\ MovedTo(m, i) => MovedTo(m, i)'
  OBVIOUS
<1>2. \A k, c \in Node : lend[k][c].pc \in {"move", "ok"} /\ lend[k][c].ip = i => lend'[k][c] = lend[k][c]
  BY <1>0, <1>1
<1> QED
  BY <1>2 DEF MovingFrom, MovedTo

LEMMA PodStays ==
  ASSUME PodType, NEW j, NEW p \in Pod, \A q \in Pod \ {p} : pod'[q] = pod[q],
         pod[p].ip \in {j, NoIP} \/ pod'[p].ip = pod[p].ip
  PROVE  \A i \in IP \ {j} : \A m \in Node : PodAt(m, i) => PodAt(m, i)'
BY ConstAssumption DEF PodAt, PodType

LEMMA LendSame ==
  ASSUME UNCHANGED lend
  PROVE  \A i, m : /\ MovingFrom(m, i) => MovingFrom(m, i)'
                   /\ MovedTo(m, i) => MovedTo(m, i)'
BY DEF MovingFrom, MovedTo

LEMMA PodSame ==
  ASSUME UNCHANGED pod
  PROVE  \A i, m : PodAt(m, i) => PodAt(m, i)'
BY DEF PodAt

LEMMA HandSame ==
  ASSUME UNCHANGED <<pc, hand>>
  PROVE  \A i, m : InHand(m, i) => InHand(m, i)'
BY DEF InHand

(* The parts of OthersHeld. *)
PoolHeld(j) == \A i \in IP \ {j} : \A m \in Node : i \in pool[m] => i \in pool'[m]
CoolHeld(j) == \A i \in IP \ {j} : \A m \in Node : i \in cool[m] => i \in cool'[m]
HandHeld(j) == \A i \in IP \ {j} : \A m \in Node : InHand(m, i) => InHand(m, i)'
LendHeld(j) == \A i \in IP \ {j} : \A m \in Node : /\ MovingFrom(m, i) => MovingFrom(m, i)'
                                                   /\ MovedTo(m, i) => MovedTo(m, i)'
PodHeld(j) == \A i \in IP \ {j} : \A m \in Node : PodAt(m, i) => PodAt(m, i)'

LEMMA AllHeld ==
  ASSUME NEW j, \A i \in IP \ {j} : vpc'[i] = vpc[i],
         PoolHeld(j), CoolHeld(j), HandHeld(j), LendHeld(j), PodHeld(j)
  PROVE  OthersHeld(j)
BY DEF OthersHeld, HeldAt, PoolHeld, CoolHeld, HandHeld, LendHeld, PodHeld

LEMMA SameHeld ==
  ASSUME NEW j
  PROVE  /\ UNCHANGED pool => PoolHeld(j)
         /\ UNCHANGED cool => CoolHeld(j)
         /\ UNCHANGED <<pc, hand>> => HandHeld(j)
         /\ UNCHANGED lend => LendHeld(j)
         /\ UNCHANGED pod => PodHeld(j)
BY LendSame, PodSame, HandSame DEF PoolHeld, CoolHeld, HandHeld, LendHeld, PodHeld

(* Goroutines that are waited for stay so while their borrower waits. *)
LEMMA NoNewOrphan ==
  ASSUME LendType, MgrType, NEW n \in Node, pc[n] # "rpc", UNCHANGED lend,
         \A m \in Node \ {n} : pc'[m] = pc[m] /\ peer'[m] = peer[m]
  PROVE  Orphans' \subseteq Orphans
BY DEF Orphans, Waits

LEMMA OrphanStep ==
  ASSUME LendType, NEW l \in Node, NEW b \in Node, NEW s, SetLend(l, b, s), UNCHANGED <<pc, peer>>
  PROVE  /\ lend[l][b].pc \in Working => Orphans' \subseteq Orphans
         /\ s.pc \notin Working => Orphans' \subseteq Orphans \ {<<l, b>>}
<1>1. \A k, c \in Node : <<k, c>> # <<l, b>> => lend'[k][c] = lend[k][c]
  BY DEF SetLend, LendType
<1>2. lend'[l][b] = s
  BY DEF SetLend, LendType
<1>3. \A k, c : Waits(k, c)' <=> Waits(k, c)
  BY DEF Waits
<1>4. \A x \in Node \X Node : x = <<x[1], x[2]>> /\ x[1] \in Node /\ x[2] \in Node
  OBVIOUS
<1>5. \A x \in Orphans' : x # <<l, b>> => x \in Orphans
  BY <1>1, <1>3, <1>4 DEF Orphans
<1>6. <<l, b>> \in Orphans' => ~Waits(b, l) /\ s.pc \in Working
  BY <1>2, <1>3 DEF Orphans
<1>7. lend[l][b].pc \in Working /\ ~Waits(b, l) => <<l, b>> \in Orphans
  BY DEF Orphans
<1> QED
  BY <1>5, <1>6, <1>7

(* A step of the manager of n. *)
OnlyAt(n) == \A m \in Node \ {n} : pc'[m] = pc[m] /\ hand'[m] = hand[m] /\ peer'[m] = peer[m]

LEMMA FinishOnly ==
  ASSUME MgrType, NEW n \in Node, Finish(n)
  PROVE  OnlyAt(n) /\ hand'[n].ip = NoIP
BY DEF OnlyAt, MgrType, Finish, Goto, ResetLocals, NoNetwork

LEMMA GotoOnly ==
  ASSUME MgrType, NEW n \in Node, NEW s, Goto(n, s), UNCHANGED <<hand, peer>>
  PROVE  OnlyAt(n) /\ hand'[n] = hand[n] /\ pc'[n] = s
BY DEF OnlyAt, MgrType, Goto

LEMMA TakeOnly ==
  ASSUME MgrType, NEW n \in Node, NEW s, NEW h, Goto(n, s), hand' = [hand EXCEPT ![n] = h], UNCHANGED peer
  PROVE  OnlyAt(n) /\ hand'[n] = h /\ pc'[n] = s
BY DEF OnlyAt, MgrType, Goto

LEMMA HandOnly ==
  ASSUME MgrType, NEW j, NEW n \in Node, OnlyAt(n),
         \/ hand[n].ip \in {j, NoIP} \/ pc[n] = "del"
         \/ hand'[n] = hand[n] /\ pc'[n] # "del"
  PROVE  HandHeld(j)
BY HandStays DEF OnlyAt, HandHeld

LEMMA OrphansOnly ==
  ASSUME LendType, MgrType, NEW n \in Node, OnlyAt(n), pc[n] # "rpc", UNCHANGED lend
  PROVE  Orphans' \subseteq Orphans
BY NoNewOrphan DEF OnlyAt

LEMMA ReplyErrorHeld ==
  ASSUME TypeOK, LocalInv, NEW n \in Node, req[n] # NoPod, ReplyError(n)
  PROVE  OnlyAt(n) /\ \A j : PodHeld(j)
<1>1. req[n] \in Pod /\ MgrType /\ PodType /\ pod[req[n]].st = "wait"
  BY MgrFacts DEF TypeOK
<1>2. pod[req[n]].ip = NoIP
  BY <1>1, PodFacts
<1>3. \A q \in Pod \ {req[n]} : pod'[q] = pod[q]
  BY <1>1 DEF ReplyError, PodType
<1>4. \A j : PodHeld(j)
  BY <1>1, <1>2, <1>3, PodStays DEF PodHeld
<1>5. OnlyAt(n)
  BY <1>1, FinishOnly DEF ReplyError
<1> QED
  BY <1>4, <1>5

LEMMA ReplyIPHeld ==
  ASSUME TypeOK, LocalInv, NEW n \in Node, req[n] # NoPod, ReplyIP(n), NEW i, hand[n].ip = i
  PROVE  OnlyAt(n) /\ (\A j : PodHeld(j)) /\ HeldAt(n, i)'
<1>1. req[n] \in Pod /\ MgrType /\ PodType /\ pod[req[n]].st = "wait" /\ PodNode[req[n]] = n
  BY MgrFacts DEF TypeOK
<1>2. pod[req[n]].ip = NoIP
  BY <1>1, PodFacts
<1>3. (\A q \in Pod \ {req[n]} : pod'[q] = pod[q]) /\ pod'[req[n]].ip = i
  BY <1>1 DEF ReplyIP, PodType
<1>4. \A j : PodHeld(j)
  BY <1>1, <1>2, <1>3, PodStays DEF PodHeld
<1>5. OnlyAt(n)
  BY <1>1, FinishOnly DEF ReplyIP
<1>6. PodAt(n, i)'
  BY <1>1, <1>3 DEF PodAt
<1> QED
  BY <1>4, <1>5, <1>6 DEF HeldAt

LEMMA NothingStrays ==
  ASSUME VpcType, UNCHANGED vpc,
         PoolHeld(NoIP), CoolHeld(NoIP), HandHeld(NoIP), LendHeld(NoIP), PodHeld(NoIP)
  PROVE  Astray' \subseteq Astray
BY AllHeld, StrayNone, ConstAssumption

(* The fault a failing call spends. *)
LEMMA SpendCost ==
  ASSUME NEW o, Spend(o)
  PROVE  /\ faults' = faults \/ faults' = faults + 1
         /\ o # "ok" => faults' = faults + 1
BY DEF Spend, Fault

(* An address in the hand of a manager, or in a goroutine of lendIP, that  *)
(* is attached elsewhere is astray.                                        *)
LEMMA HandAstray ==
  ASSUME VpcType, Exclusive, FreeUnheld, NEW n \in Node, NEW j \in IP, InHand(n, j), vpc[j] # n
  PROVE  j \in Astray
<1>1. /\ vpc[j] # NoNode
      /\ \A m \in Node : j \notin pool[m] /\ j \notin cool[m] /\ (InHand(m, j) => m = n)
      /\ \A l, b \in Node : ~Lending(l, b, j)
      /\ \A p \in Pod : pod[p].ip # j
  BY HandAlone
<1>2. \A m \in Node : ~MovingFrom(m, j) /\ ~MovedTo(m, j) /\ ~PodAt(m, j)
  BY <1>1 DEF MovingFrom, MovedTo, PodAt, Lending
<1> QED
  BY <1>1, <1>2 DEF Astray, HeldAt

LEMMA MoveAstray ==
  ASSUME VpcType, Exclusive, FreeUnheld, NEW l \in Node, NEW b \in Node, NEW j \in IP,
         lend[l][b].pc = "move", lend[l][b].ip = j, vpc[j] # l
  PROVE  j \in Astray
<1>0. Lending(l, b, j)
  BY DEF Lending
<1>1. /\ vpc[j] # NoNode
      /\ \A m \in Node : j \notin pool[m] /\ j \notin cool[m] /\ ~InHand(m, j)
      /\ \A k, c \in Node : Lending(k, c, j) => k = l /\ c = b
      /\ \A p \in Pod : pod[p].ip # j
  BY <1>0, LendAlone
<1>2. \A m \in Node : (MovingFrom(m, j) => m = l) /\ ~MovedTo(m, j) /\ ~PodAt(m, j)
  BY <1>1 DEF MovingFrom, MovedTo, PodAt, Lending
<1> QED
  BY <1>1, <1>2 DEF Astray, HeldAt

LEMMA OkAstray ==
  ASSUME VpcType, Exclusive, FreeUnheld, NEW l \in Node, NEW b \in Node, NEW j \in IP,
         lend[l][b].pc = "ok", lend[l][b].ip = j, vpc[j] # b
  PROVE  j \in Astray
<1>0. Lending(l, b, j)
  BY DEF Lending
<1>1. /\ vpc[j] # NoNode
      /\ \A m \in Node : j \notin pool[m] /\ j \notin cool[m] /\ ~InHand(m, j)
      /\ \A k, c \in Node : Lending(k, c, j) => k = l /\ c = b
      /\ \A p \in Pod : pod[p].ip # j
  BY <1>0, LendAlone
<1>2. \A m \in Node : ~MovingFrom(m, j) /\ (MovedTo(m, j) => m = b) /\ ~PodAt(m, j)
  BY <1>1 DEF MovingFrom, MovedTo, PodAt, Lending
<1> QED
  BY <1>1, <1>2 DEF Astray, HeldAt

LEMMA PoolAstray ==
  ASSUME VpcType, Exclusive, FreeUnheld, NEW n \in Node, NEW j \in IP, j \in pool[n], vpc[j] # n
  PROVE  j \in Astray
<1>1. /\ vpc[j] # NoNode
      /\ \A m \in Node : j \notin cool[m] /\ ~InHand(m, j) /\ (j \in pool[m] => m = n)
      /\ \A l, b \in Node : ~Lending(l, b, j)
      /\ \A p \in Pod : pod[p].ip # j
  BY PoolAlone
<1>2. \A m \in Node : ~MovingFrom(m, j) /\ ~MovedTo(m, j) /\ ~PodAt(m, j)
  BY <1>1 DEF MovingFrom, MovedTo, PodAt, Lending
<1> QED
  BY <1>1, <1>2 DEF Astray, HeldAt

LEMMA SkipOnly ==
  ASSUME MgrType, NEW n \in Node, NEW c, Skip(n, c)
  PROVE  OnlyAt(n)
BY DEF OnlyAt, MgrType, Skip, Goto

(* How borrowing changes who is waited for. *)
LEMMA OrphansSame ==
  ASSUME UNCHANGED <<pc, peer, lend>>
  PROVE  Orphans' \subseteq Orphans
BY DEF Orphans, Waits

LEMMA OrphanCall ==
  ASSUME LendType, MgrType, NEW n \in Node, NEW c \in Node, NEW s, SetLend(c, n, s), OnlyAt(n),
         pc[n] = "try", pc'[n] = "rpc", peer'[n] = c
  PROVE  Orphans' \subseteq Orphans
<1>1. \A k, d \in Node : <<k, d>> # <<c, n>> => lend'[k][d] = lend[k][d]
  BY DEF SetLend, LendType
<1>2. \A k, d \in Node : Waits(d, k) => Waits(d, k)'
  BY DEF Waits, OnlyAt
<1>3. Waits(n, c)'
  BY DEF Waits
<1>4. \A x \in Node \X Node : x = <<x[1], x[2]>> /\ x[1] \in Node /\ x[2] \in Node
  OBVIOUS
<1> QED
  BY <1>1, <1>2, <1>3, <1>4 DEF Orphans

LEMMA OrphanReturn ==
  ASSUME LendType, MgrType, NEW n \in Node, NEW c \in Node, SetLend(c, n, LendIdle), OnlyAt(n), peer[n] = c
  PROVE  Orphans' \subseteq Orphans
<1>1. \A k, d \in Node : <<k, d>> # <<c, n>> => lend'[k][d] = lend[k][d]
  BY DEF SetLend, LendType
<1>2. \A k, d \in Node : <<k, d>> # <<c, n>> /\ Waits(d, k) => Waits(d, k)'
  BY DEF Waits, OnlyAt
<1>3. lend'[c][n].pc \notin Working
  BY DEF SetLend, LendType, LendIdle, Working
<1>4. \A x \in Node \X Node : x = <<x[1], x[2]>> /\ x[1] \in Node /\ x[2] \in Node
  OBVIOUS
<1> QED
  BY <1>1, <1>2, <1>3, <1>4 DEF Orphans

LEMMA OrphanTimeout ==
  ASSUME LendType, MgrType, NEW n \in Node, NEW c \in Node, UNCHANGED lend, OnlyAt(n), peer[n] = c
  PROVE  /\ Orphans' \subseteq Orphans \cup {<<c, n>>}
         /\ lend[c][n].pc \notin Working => Orphans' \subseteq Orphans
<1>1. \A k, d \in Node : <<k, d>> # <<c, n>> /\ Waits(d, k) => Waits(d, k)'
  BY DEF Waits, OnlyAt
<1>2. \A x \in Node \X Node : x = <<x[1], x[2]>> /\ x[1] \in Node /\ x[2] \in Node
  OBVIOUS
<1> QED
  BY <1>1, <1>2 DEF Orphans

----------------------------------------------------------------------------
(* Each step pays for what it loses.                                       *)

LEMMA BudgetStep ==
  TypeOK /\ LocalInv /\ OverInv /\ SafeInv /\ Next /\ hazards' = {} /\ "crash" \notin FaultKinds /\ Budget
    => Budget'
<1> SUFFICES ASSUME TypeOK, LocalInv, OverInv, SafeInv, Next, hazards' = {}, "crash" \notin FaultKinds, Budget
             PROVE  Budget'
  OBVIOUS
<1>a. VpcType /\ PoolType /\ CoolType /\ LendType /\ PodType /\ MgrType
  BY DEF TypeOK
<1>e. Exclusive /\ FreeUnheld /\ UsedInv
  BY DEF SafeInv
<1>o. \A n \in Node : over[n] \subseteq cool[n]
  BY DEF OverInv
<1>i. NoIP \notin IP
  BY ConstAssumption
<1>1. ASSUME NEW n \in Node, NEW p \in Pod, RecvAdd(n, p) PROVE Budget'
  <2>1. UNCHANGED <<vpc, pool, cool, lend>> /\ pc[n] = "idle" /\ hand[n].ip = NoIP
    BY <1>1, MgrFacts DEF RecvAdd, vpcVars, coolVars
  <2>2. OnlyAt(n)
    BY <1>1, <1>a, FinishOnly, GotoOnly DEF RecvAdd, borrow
  <2>3. pod[p].ip = NoIP /\ \A q \in Pod \ {p} : pod'[q] = pod[q]
    BY <1>1, <1>a, PodFacts DEF RecvAdd, PodType
  <2>4. PodHeld(NoIP)
    BY <2>3, <1>a, PodStays DEF PodHeld
  <2>5. Astray' \subseteq Astray /\ Orphans' \subseteq Orphans
    BY <2>1, <2>2, <2>4, <1>a, HandOnly, SameHeld, NothingStrays, OrphansOnly
  <2>6. faults' = faults \/ faults' = faults + 1
    BY <1>1 DEF RecvAdd, Fault
  <2> QED
    BY <2>5, <2>6, FreeStep
<1>2. ASSUME NEW n \in Node, NEW p \in Pod, RecvDel(n, p) PROVE Budget'
  <2>j. PICK j : j = pod[p].ip
    OBVIOUS
  <2>1. j \in IP /\ j # NoIP /\ pc[n] = "idle" /\ hand[n].ip = NoIP /\ PodNode[p] = n
    BY <1>2, <2>j, <1>i, PodFacts, MgrFacts DEF RecvDel
  <2>2. vpc[j] = n
    BY <2>j, <2>1, <1>e DEF UsedInv, PodsUsed
  <2>3. UNCHANGED <<pool, lend>> /\ OnlyAt(n)
    BY <1>2, <1>a, FinishOnly DEF RecvDel, poolVars
  <2>4. \A q \in Pod \ {p} : pod'[q] = pod[q]
    BY <1>2, <1>a DEF RecvDel, PodType
  <2>5. PodHeld(j)
    BY <2>j, <2>4, <1>a, PodStays DEF PodHeld
  <2>6. PoolHeld(j) /\ HandHeld(j) /\ LendHeld(j) /\ Orphans' \subseteq Orphans
    BY <2>1, <2>3, <1>a, HandOnly, SameHeld, OrphansOnly
  <2>7. CASE cool' = [cool EXCEPT ![n] = @ \cup {j}] /\ UNCHANGED <<vpcVars, history>>
    <3>1. CoolHeld(j) /\ j \in cool'[n] /\ UNCHANGED <<vpc, faults>>
      BY <2>7, <1>a, CoolStays DEF CoolHeld, CoolType, vpcVars, history
    <3>2. OthersHeld(j)
      BY <2>5, <2>6, <3>1, AllHeld
    <3>3. vpc'[j] = n /\ HeldAt(n, j)'
      BY <2>2, <3>1 DEF HeldAt
    <3>4. Astray' \subseteq Astray
      BY <3>2, <3>3, <1>a, StrayNone
    <3> QED
      BY <3>1, <3>4, <2>6, FreeStep
  <2>8. CASE Fault("db") /\ backupReleaseSecondaryIP(n, j) /\ UNCHANGED coolVars
    <3>1. CoolHeld(j) /\ faults' = faults + 1
      BY <2>8, SameHeld DEF Fault, coolVars
    <3>2. \A i \in IP \ {j} : vpc'[i] = vpc[i]
      BY <2>1, <2>8, <1>a, BackupEffect
    <3>3. Astray' \subseteq Astray \cup {j}
      BY <2>5, <2>6, <3>1, <3>2, <1>a, AllHeld, StrayOne
    <3> QED
      BY <2>1, <2>6, <3>1, <3>3, PaidStray
  <2> QED
    BY <1>2, <2>j, <2>7, <2>8 DEF RecvDel
<1>3. ASSUME NEW n \in Node, WatermarkTick(n) PROVE Budget'
  <2>1. UNCHANGED <<vpc, pool, cool, lend, pod, faults>> /\ pc[n] = "idle" /\ hand[n].ip = NoIP
    BY <1>3, MgrFacts DEF WatermarkTick, vpcVars, poolVars, coolVars, history
  <2>2. OnlyAt(n)
    BY <1>3, <1>a, FinishOnly, GotoOnly DEF WatermarkTick, borrow
  <2>3. Astray' \subseteq Astray /\ Orphans' \subseteq Orphans
    BY <2>1, <2>2, <1>a, HandOnly, SameHeld, NothingStrays, OrphansOnly
  <2> QED
    BY <2>1, <2>3, FreeStep
<1>4. ASSUME NEW n \in Node, CooldownTick(n) PROVE Budget'
  <2>1. UNCHANGED <<vpc, pool, cool, lend, pod, faults>> /\ pc[n] = "idle" /\ hand[n].ip = NoIP
    BY <1>4, MgrFacts DEF CooldownTick, vpcVars, poolVars, coolVars, history
  <2>2. OnlyAt(n)
    BY <1>4, <1>a, GotoOnly DEF CooldownTick, borrow
  <2>3. Astray' \subseteq Astray /\ Orphans' \subseteq Orphans
    BY <2>1, <2>2, <1>a, HandOnly, SameHeld, NothingStrays, OrphansOnly
  <2> QED
    BY <2>1, <2>3, FreeStep
<1>5. ASSUME NEW n \in Node, MgrPopView(n) PROVE Budget'
  <2>1. UNCHANGED <<vpc, pool, cool, lend, pod, faults>> /\ pc[n] = "view" /\ hand[n].ip = NoIP
    BY <1>5, MgrFacts DEF MgrPopView, vpcVars, poolVars, coolVars, history
  <2>2. OnlyAt(n)
    BY <1>5, <1>a, FinishOnly, GotoOnly, TakeOnly DEF MgrPopView, borrow
  <2>3. Astray' \subseteq Astray /\ Orphans' \subseteq Orphans
    BY <2>1, <2>2, <1>a, HandOnly, SameHeld, NothingStrays, OrphansOnly
  <2> QED
    BY <2>1, <2>3, FreeStep
<1>6. ASSUME NEW n \in Node, MgrPopDelete(n) PROVE Budget'
  <2>j. PICK j : j = hand[n].ip
    OBVIOUS
  <2>1. j \in IP /\ j \in pool[n] /\ pc[n] = "del"
    BY <1>6, <2>j, MgrFacts DEF MgrPopDelete, PopDelete
  <2>2. UNCHANGED <<vpc, cool, lend, pod, faults>> /\ pool' = [pool EXCEPT ![n] = @ \ {j}]
    BY <1>6, <2>j DEF MgrPopDelete, PopDelete, vpcVars, coolVars
  <2>3. OnlyAt(n) /\ InHand(n, j)'
    BY <1>6, <2>j, <1>a, GotoOnly DEF MgrPopDelete, borrow, InHand
  <2>4. PoolHeld(j) /\ HandHeld(j)
    BY <2>j, <2>1, <2>2, <2>3, <1>a, PoolStays, HandOnly DEF PoolHeld
  <2>5. OthersHeld(j)
    BY <2>2, <2>4, SameHeld, AllHeld
  <2>6. (\E m \in Node : vpc'[j] = m /\ HeldAt(m, j)') \/ j \in Astray
    BY <2>1, <2>2, <2>3, <1>a, <1>e, PoolAstray DEF HeldAt
  <2>7. Astray' \subseteq Astray /\ Orphans' \subseteq Orphans
    BY <2>1, <2>2, <2>3, <2>5, <2>6, <1>a, StrayNone, OrphansOnly
  <2> QED
    BY <2>2, <2>7, FreeStep
<1>7. ASSUME NEW n \in Node, MgrPopError(n) PROVE Budget'
  <2>1. UNCHANGED <<vpc, pool, cool, lend>> /\ pc[n] \in {"view", "del"} /\ faults' = faults + 1
    BY <1>7 DEF MgrPopError, vpcVars, poolVars, coolVars, Fault
  <2>2. OnlyAt(n) /\ PodHeld(NoIP)
    BY <1>7, <1>a, FinishOnly, SameHeld, ReplyErrorHeld DEF MgrPopError
  <2>3. hand[n].ip = NoIP \/ pc[n] = "del"
    BY <2>1, MgrFacts
  <2>4. Astray' \subseteq Astray /\ Orphans' \subseteq Orphans
    BY <2>1, <2>2, <2>3, <1>a, HandOnly, SameHeld, NothingStrays, OrphansOnly
  <2> QED
    BY <2>1, <2>4, FreeStep
<1>8. ASSUME NEW n \in Node, uapiAllocateSecondaryIP(n) PROVE Budget'
  <2>1. UNCHANGED <<pool, cool, lend>> /\ pc[n] = "alloc" /\ hand[n].ip = NoIP /\ req[n] # NoPod
    BY <1>8, MgrFacts DEF uapiAllocateSecondaryIP, poolVars, coolVars
  <2>2. CASE Goto(n, "borrow") /\ UNCHANGED <<vpcVars, hand, borrow, pod, faults>>
    <3>1. OnlyAt(n) /\ UNCHANGED <<vpc, pod, faults>>
      BY <2>2, <1>a, GotoOnly DEF vpcVars, borrow
    <3>2. Astray' \subseteq Astray /\ Orphans' \subseteq Orphans
      BY <2>1, <3>1, <1>a, HandOnly, SameHeld, NothingStrays, OrphansOnly
    <3> QED
      BY <3>1, <3>2, FreeStep
  <2>3. CASE Fault("api") /\ ReplyError(n) /\ UNCHANGED vpcVars
    <3>1. OnlyAt(n) /\ UNCHANGED vpc /\ faults' = faults + 1 /\ PodHeld(NoIP)
      BY <2>1, <2>3, <1>a, ReplyErrorHeld DEF vpcVars, Fault
    <3>2. Astray' \subseteq Astray /\ Orphans' \subseteq Orphans
      BY <2>1, <3>1, <1>a, HandOnly, SameHeld, NothingStrays, OrphansOnly
    <3> QED
      BY <3>1, <3>2, FreeStep
  <2>4. ASSUME NEW j \in IP, Attach(j, n), Fault("lost"), ReplyError(n)
        PROVE  Budget'
    <3>1. OnlyAt(n) /\ faults' = faults + 1 /\ PodHeld(j) /\ HandHeld(j)
      BY <2>1, <2>4, <1>a, ReplyErrorHeld, HandOnly DEF Fault
    <3>2. \A i \in IP \ {j} : vpc'[i] = vpc[i]
      BY <2>4, <1>a, AttachEffect
    <3>3. Astray' \subseteq Astray \cup {j} /\ Orphans' \subseteq Orphans
      BY <2>1, <3>1, <3>2, <1>a, SameHeld, AllHeld, StrayOne, OrphansOnly
    <3> QED
      BY <3>1, <3>3, PaidStray
  <2>5. ASSUME NEW j \in IP, Attach(j, n), Goto(n, "check"),
               hand' = [hand EXCEPT ![n] = [ip |-> j, tag |-> "new"]], UNCHANGED <<borrow, pod, faults>>
        PROVE  Budget'
    <3>h. PICK h : h = [ip |-> j, tag |-> "new"]
      OBVIOUS
    <3>0. OnlyAt(n) /\ hand'[n] = h /\ pc'[n] = "check"
      BY <2>5, <3>h, <1>a, TakeOnly DEF borrow
    <3>1. OnlyAt(n) /\ hand'[n].ip = j /\ pc'[n] = "check"
      BY <3>0, <3>h
    <3>2. HandHeld(j) /\ HeldAt(n, j)'
      BY <2>1, <3>1, <1>a, HandOnly DEF HeldAt, InHand
    <3>3. vpc'[j] = n /\ \A i \in IP \ {j} : vpc'[i] = vpc[i]
      BY <2>5, <1>a, AttachEffect
    <3>4. OthersHeld(j)
      BY <2>1, <2>5, <3>2, <3>3, SameHeld, AllHeld
    <3>5. Astray' \subseteq Astray /\ Orphans' \subseteq Orphans
      BY <2>1, <3>1, <3>2, <3>3, <3>4, <1>a, StrayNone, OrphansOnly
    <3> QED
      BY <2>5, <3>5, FreeStep
  <2> QED
    BY <1>8, <2>2, <2>3, <2>4, <2>5 DEF uapiAllocateSecondaryIP
<1>9. ASSUME NEW n \in Node, checkSecondaryIpExist(n) PROVE Budget'
  <2>j. PICK j : j = hand[n].ip
    OBVIOUS
  <2>1. j \in IP /\ j # NoIP /\ InHand(n, j) /\ req[n] # NoPod /\ pc[n] = "check"
    BY <1>9, <2>j, <1>i, MgrFacts DEF checkSecondaryIpExist, InHand
  <2>2. UNCHANGED <<cool, lend>> /\ CoolHeld(j) /\ LendHeld(j)
    BY <1>9, SameHeld DEF checkSecondaryIpExist, coolVars
  <2>3. ASSUME OnlyAt(n) PROVE HandHeld(j) /\ Orphans' \subseteq Orphans
    BY <2>j, <2>1, <2>2, <2>3, <1>a, HandOnly, OrphansOnly
  <2>4. CASE Fault("api") /\ ReplyError(n) /\ \E o \in Write : putIpToPool(n, j, hand[n].tag, o)
    <3>1. faults' = faults + 1 /\ PodHeld(j) /\ HandHeld(j) /\ Orphans' \subseteq Orphans
      BY <2>1, <2>3, <2>4, ReplyErrorHeld, <1>a DEF Fault
    <3>2. (\A i \in IP \ {j} : vpc'[i] = vpc[i]) /\ PoolHeld(j)
      BY <2>1, <2>4, <1>a, BackupEffect, PoolStays, SameHeld DEF putIpToPool, PoolPut, PoolHeld, vpcVars, poolVars
    <3>3. Astray' \subseteq Astray \cup {j}
      BY <2>2, <3>1, <3>2, <1>a, AllHeld, StrayOne
    <3> QED
      BY <2>1, <3>1, <3>3, PaidStray
  <2>5. CASE vpc[j] # n /\ ReplyError(n) /\ UNCHANGED <<vpcVars, poolVars, faults>>
    <3>1. UNCHANGED <<vpc, pool>> /\ PodHeld(j) /\ HandHeld(j) /\ Orphans' \subseteq Orphans
      BY <2>1, <2>3, <2>5, ReplyErrorHeld DEF vpcVars, poolVars
    <3>2. OthersHeld(j) /\ j \in Astray
      BY <2>1, <2>2, <2>5, <3>1, <1>a, <1>e, SameHeld, AllHeld, HandAstray
    <3> QED
      BY <2>5, <3>1, <3>2, <1>a, StrayNone, FreeStep
  <2>6. CASE vpc[j] = n /\ ReplyIP(n) /\ UNCHANGED <<vpcVars, poolVars, faults>>
    <3>1. UNCHANGED <<vpc, pool>> /\ PodHeld(j) /\ HandHeld(j) /\ Orphans' \subseteq Orphans /\ HeldAt(n, j)'
      BY <2>j, <2>1, <2>3, <2>6, ReplyIPHeld DEF vpcVars, poolVars
    <3>2. OthersHeld(j)
      BY <2>2, <3>1, SameHeld, AllHeld
    <3> QED
      BY <2>6, <3>1, <3>2, <1>a, StrayNone, FreeStep
  <2>7. CASE vpc[j] = n /\ Goto(n, "garp") /\ UNCHANGED <<hand, borrow, pod, vpcVars, poolVars, faults>>
    <3>1. UNCHANGED <<vpc, pool>> /\ OnlyAt(n) /\ hand'[n] = hand[n] /\ pc'[n] = "garp"
      BY <2>7, <1>a, GotoOnly DEF vpcVars, poolVars, borrow
    <3>2. HandHeld(NoIP)
      BY <3>1, <1>a, HandOnly
    <3>3. Astray' \subseteq Astray /\ Orphans' \subseteq Orphans
      BY <2>2, <2>3, <2>7, <3>1, <3>2, <1>a, SameHeld, NothingStrays
    <3> QED
      BY <2>7, <3>3, FreeStep
  <2> QED
    BY <1>9, <2>j, <2>4, <2>5, <2>6, <2>7 DEF checkSecondaryIpExist
<1>10. ASSUME NEW n \in Node, checkIPConflict(n) PROVE Budget'
  <2>j. PICK j : j = hand[n].ip
    OBVIOUS
  <2>1. j \in IP /\ j # NoIP /\ InHand(n, j) /\ req[n] # NoPod /\ pc[n] = "garp"
    BY <1>10, <2>j, <1>i, MgrFacts DEF checkIPConflict, InHand
  <2>2. UNCHANGED <<pool, cool, lend>> /\ PoolHeld(j) /\ CoolHeld(j) /\ LendHeld(j) /\ vpc[j] = n
    BY <1>10, <2>j, <2>1, <1>e, SameHeld DEF checkIPConflict, poolVars, coolVars, UsedInv, HandUsed
  <2>3. ASSUME OnlyAt(n) PROVE HandHeld(j) /\ Orphans' \subseteq Orphans
    BY <2>j, <2>1, <2>2, <2>3, <1>a, HandOnly, OrphansOnly
  <2>4. CASE ReplyIP(n) /\ UNCHANGED <<vpc, faults>>
    <3>1. PodHeld(j) /\ HandHeld(j) /\ Orphans' \subseteq Orphans /\ HeldAt(n, j)'
      BY <2>j, <2>1, <2>3, <2>4, ReplyIPHeld
    <3>2. OthersHeld(j)
      BY <2>2, <2>4, <3>1, AllHeld
    <3> QED
      BY <2>2, <2>4, <3>1, <3>2, <1>a, StrayNone, FreeStep
  <2>5. ASSUME NEW o \in Outcome, Spend(o), uapiDeleteSecondaryIp(n, j, o), ReplyError(n) PROVE Budget'
    <3>1. PodHeld(j) /\ HandHeld(j) /\ Orphans' \subseteq Orphans
      BY <2>j, <2>1, <2>3, <2>5, ReplyErrorHeld
    <3>2. \A i \in IP \ {j} : vpc'[i] = vpc[i]
      BY <2>1, <2>5, <1>a, DeleteEffect
    <3>3. OthersHeld(j)
      BY <2>2, <3>1, <3>2, AllHeld
    <3>4. CASE o = "ok"
      <4>1. vpc'[j] = NoNode
        BY <2>1, <2>2, <2>5, <3>4, <1>a DEF uapiDeleteSecondaryIp, Attach, VpcType
      <4> QED
        BY <2>5, <3>1, <3>3, <4>1, <1>a, StrayNone, SpendCost, FreeStep
    <3>5. CASE o # "ok"
      BY <2>1, <2>5, <3>1, <3>3, <3>5, <1>a, StrayOne, SpendCost, PaidStray
    <3> QED
      BY <3>4, <3>5
  <2> QED
    BY <1>10, <2>j, <2>4, <2>5 DEF checkIPConflict
<1>11. ASSUME NEW n \in Node, releasePool(n) PROVE Budget'
  <2>j. PICK j : j = hand[n].ip
    OBVIOUS
  <2>1. j \in IP /\ j # NoIP /\ InHand(n, j) /\ pc[n] = "release"
    BY <1>11, <2>j, <1>i, MgrFacts DEF releasePool, InHand
  <2>2. UNCHANGED <<cool, lend, pod>> /\ CoolHeld(j) /\ LendHeld(j) /\ PodHeld(j)
    BY <1>11, SameHeld DEF releasePool, coolVars
  <2>3. OnlyAt(n)
    BY <1>11, <1>a, FinishOnly, TakeOnly DEF releasePool, borrow
  <2>4. HandHeld(j) /\ Orphans' \subseteq Orphans
    BY <2>j, <2>1, <2>2, <2>3, <1>a, HandOnly, OrphansOnly
  <2>5. CASE Spend("ok") /\ uapiDeleteSecondaryIp(n, j, "ok") /\ UNCHANGED poolVars
    <3>1. PoolHeld(j) /\ \A i \in IP \ {j} : vpc'[i] = vpc[i]
      BY <2>1, <2>5, <1>a, SameHeld, DeleteEffect DEF poolVars
    <3>2. OthersHeld(j)
      BY <2>2, <2>4, <3>1, AllHeld
    <3>3. vpc'[j] = NoNode \/ j \in Astray
      BY <2>1, <2>5, <1>a, <1>e, HandAstray DEF uapiDeleteSecondaryIp, Attach, VpcType
    <3> QED
      BY <2>4, <2>5, <3>2, <3>3, <1>a, StrayNone, SpendCost, FreeStep
  <2>6. ASSUME NEW o \in Outcome, o # "ok", Spend(o), uapiDeleteSecondaryIp(n, j, o),
               \E w \in Write : backupPushSecondaryIP(n, j, hand[n].tag, w)
        PROVE  Budget'
    <3>1. PoolHeld(j) /\ \A i \in IP \ {j} : vpc'[i] = vpc[i]
      BY <2>1, <2>6, <1>a, SameHeld, PoolStays, DeleteEffect DEF backupPushSecondaryIP, PoolPut, PoolHeld, poolVars
    <3>2. OthersHeld(j)
      BY <2>2, <2>4, <3>1, AllHeld
    <3> QED
      BY <2>1, <2>4, <2>6, <3>2, <1>a, StrayOne, SpendCost, PaidStray
  <2> QED
    BY <1>11, <2>j, <2>5, <2>6 DEF releasePool
<1>12. ASSUME NEW n \in Node, RecycleDelete(n) PROVE Budget'
  <2>1. UNCHANGED <<vpc, pool, lend, pod>> /\ pc[n] = "recycle" /\ hand[n].ip = NoIP
    BY <1>12, MgrFacts DEF RecycleDelete, vpcVars, poolVars
  <2>2. CASE Finish(n) /\ UNCHANGED coolVars /\ (Fault("db") \/ UNCHANGED faults)
    <3>1. OnlyAt(n) /\ UNCHANGED cool /\ (faults' = faults \/ faults' = faults + 1)
      BY <2>2, <1>a, FinishOnly DEF coolVars, Fault
    <3>2. Astray' \subseteq Astray /\ Orphans' \subseteq Orphans
      BY <2>1, <3>1, <1>a, HandOnly, SameHeld, NothingStrays, OrphansOnly
    <3> QED
      BY <3>1, <3>2, FreeStep
  <2>3. ASSUME NEW j \in over[n], cool' = [cool EXCEPT ![n] = @ \ {j}], Goto(n, "put"),
               hand' = [hand EXCEPT ![n] = [ip |-> j, tag |-> "recycled"]], UNCHANGED <<borrow, faults>>
        PROVE  Budget'
    <3>h. PICK h : h = [ip |-> j, tag |-> "recycled"]
      OBVIOUS
    <3>1. j \in IP /\ j \in cool[n] /\ vpc[j] = n
      BY <1>o, <1>a, <1>e DEF CoolType, UsedInv, CoolUsed
    <3>2. OnlyAt(n) /\ hand'[n] = h /\ pc'[n] = "put"
      BY <2>3, <3>h, <1>a, TakeOnly DEF borrow
    <3>3. HandHeld(j) /\ CoolHeld(j) /\ InHand(n, j)'
      BY <2>1, <2>3, <3>2, <3>h, <1>a, HandOnly, CoolStays DEF CoolHeld, InHand
    <3>4. OthersHeld(j) /\ HeldAt(n, j)'
      BY <2>1, <3>3, SameHeld, AllHeld DEF HeldAt
    <3>5. Astray' \subseteq Astray /\ Orphans' \subseteq Orphans
      BY <2>1, <3>1, <3>2, <3>4, <1>a, StrayNone, OrphansOnly
    <3> QED
      BY <2>3, <3>5, FreeStep
  <2> QED
    BY <1>12, <2>2, <2>3 DEF RecycleDelete
<1>13. ASSUME NEW n \in Node, RecyclePut(n) PROVE Budget'
  <2>j. PICK j : j = hand[n].ip
    OBVIOUS
  <2>1. j \in IP /\ j # NoIP /\ InHand(n, j) /\ pc[n] = "put" /\ vpc[j] = n
    BY <1>13, <2>j, <1>i, <1>e, MgrFacts DEF RecyclePut, InHand, UsedInv, HandUsed
  <2>2. UNCHANGED <<cool, lend, pod>> /\ CoolHeld(j) /\ LendHeld(j) /\ PodHeld(j)
    BY <1>13, SameHeld DEF RecyclePut, coolVars
  <2>3. OnlyAt(n)
    BY <1>13, <1>a, TakeOnly DEF RecyclePut, borrow
  <2>4. HandHeld(j) /\ Orphans' \subseteq Orphans
    BY <2>j, <2>1, <2>2, <2>3, <1>a, HandOnly, OrphansOnly
  <2>5. CASE PoolPut(n, j, hand[n].tag) /\ UNCHANGED <<vpcVars, faults>>
    <3>1. PoolHeld(j) /\ UNCHANGED vpc /\ j \in pool'[n]
      BY <2>5, <1>a, PoolStays DEF PoolPut, PoolHeld, PoolType, vpcVars
    <3>2. OthersHeld(j) /\ HeldAt(n, j)'
      BY <2>2, <2>4, <3>1, AllHeld DEF HeldAt
    <3> QED
      BY <2>1, <2>4, <2>5, <3>1, <3>2, <1>a, StrayNone, FreeStep
  <2>6. CASE Fault("db") /\ backupReleaseSecondaryIP(n, j) /\ UNCHANGED poolVars
    <3>1. PoolHeld(j) /\ faults' = faults + 1 /\ \A i \in IP \ {j} : vpc'[i] = vpc[i]
      BY <2>1, <2>6, <1>a, SameHeld, BackupEffect DEF poolVars, Fault
    <3>2. OthersHeld(j)
      BY <2>2, <2>4, <3>1, AllHeld
    <3> QED
      BY <2>1, <2>4, <3>1, <3>2, <1>a, StrayOne, PaidStray
  <2> QED
    BY <1>13, <2>j, <2>5, <2>6 DEF RecyclePut, putIpToPool
<1>14. ASSUME NEW n \in Node, updateStatus(n) PROVE Budget'
  <2>1. UNCHANGED <<vpc, pool, cool, lend, pod>> /\ pc[n] = "status" /\ hand[n].ip = NoIP
    BY <1>14, MgrFacts DEF updateStatus, vpcVars, poolVars, coolVars
  <2>2. OnlyAt(n) /\ (faults' = faults \/ faults' = faults + 1)
    BY <1>14, <1>a, GotoOnly DEF updateStatus, borrow, Fault
  <2>3. Astray' \subseteq Astray /\ Orphans' \subseteq Orphans
    BY <2>1, <2>2, <1>a, HandOnly, SameHeld, NothingStrays, OrphansOnly
  <2> QED
    BY <2>2, <2>3, FreeStep
<1>15. ASSUME NEW n \in Node, ListIpamds(n) PROVE Budget'
  <2>1. UNCHANGED <<vpc, pool, cool, lend>> /\ pc[n] = "borrow" /\ hand[n].ip = NoIP /\ req[n] # NoPod
    BY <1>15, MgrFacts DEF ListIpamds, vpcVars, poolVars, coolVars
  <2>2. OnlyAt(n) /\ PodHeld(NoIP)
    BY <1>15, <2>1, <1>a, GotoOnly, SameHeld, ReplyErrorHeld DEF ListIpamds
  <2>3. faults' = faults \/ faults' = faults + 1
    BY <1>15 DEF ListIpamds, Fault
  <2>4. Astray' \subseteq Astray /\ Orphans' \subseteq Orphans
    BY <2>1, <2>2, <1>a, HandOnly, SameHeld, NothingStrays, OrphansOnly
  <2> QED
    BY <2>3, <2>4, FreeStep
<1>16. ASSUME NEW n \in Node, BorrowCall(n) PROVE Budget'
  <2>1. UNCHANGED <<vpc, pool, cool, faults>> /\ pc[n] = "try" /\ hand[n].ip = NoIP /\ req[n] # NoPod
    BY <1>16, MgrFacts DEF BorrowCall, vpcVars, poolVars, coolVars, history
  <2>2. CASE ReplyError(n) /\ UNCHANGED lend
    <3>1. OnlyAt(n) /\ PodHeld(NoIP)
      BY <2>1, <2>2, ReplyErrorHeld
    <3>2. Astray' \subseteq Astray /\ Orphans' \subseteq Orphans
      BY <2>1, <2>2, <3>1, <1>a, HandOnly, SameHeld, NothingStrays, OrphansOnly
    <3> QED
      BY <2>1, <3>2, FreeStep
  <2>3. ASSUME NEW c \in Node, Skip(n, c), UNCHANGED <<lend, pod>> PROVE Budget'
    <3>1. OnlyAt(n)
      BY <2>3, <1>a, SkipOnly
    <3>2. Astray' \subseteq Astray /\ Orphans' \subseteq Orphans
      BY <2>1, <2>3, <3>1, <1>a, HandOnly, SameHeld, NothingStrays, OrphansOnly
    <3> QED
      BY <2>1, <3>2, FreeStep
  <2>4. ASSUME NEW c \in Node, lend[c][n].pc = "idle", Goto(n, "rpc"), peer' = [peer EXCEPT ![n] = c],
               SetLend(c, n, [LendIdle EXCEPT !.pc = "view"]), UNCHANGED <<hand, pod>>
        PROVE  Budget'
    <3>1. OnlyAt(n) /\ pc'[n] = "rpc" /\ peer'[n] = c
      BY <2>4, <1>a DEF OnlyAt, Goto, MgrType
    <3>2. LendHeld(NoIP) /\ Orphans' \subseteq Orphans
      BY <2>1, <2>4, <3>1, <1>a, LendStays, OrphanCall DEF LendHeld
    <3>3. Astray' \subseteq Astray
      BY <2>1, <2>4, <3>1, <3>2, <1>a, HandOnly, SameHeld, NothingStrays
    <3> QED
      BY <2>1, <3>2, <3>3, FreeStep
  <2> QED
    BY <1>16, <2>2, <2>3, <2>4 DEF BorrowCall
<1>17. ASSUME NEW n \in Node, BorrowReturn(n) PROVE Budget'
  <2>c. PICK c : c = peer[n]
    OBVIOUS
  <2>1. c \in Node /\ pc[n] = "rpc" /\ hand[n].ip = NoIP
    BY <1>17, <2>c, MgrFacts DEF BorrowReturn
  <2>2. UNCHANGED <<vpc, pool, cool, pod, faults>> /\ SetLend(c, n, LendIdle)
    BY <1>17, <2>c DEF BorrowReturn, vpcVars, poolVars, coolVars, history
  <2>3. ASSUME OnlyAt(n) PROVE Orphans' \subseteq Orphans
    BY <2>c, <2>1, <2>2, <2>3, <1>a, OrphanReturn
  <2>4. CASE lend[c][n].pc = "err" /\ Skip(n, c)
    <3>1. OnlyAt(n) /\ Orphans' \subseteq Orphans
      BY <2>1, <2>3, <2>4, <1>a, SkipOnly
    <3>2. LendHeld(NoIP)
      BY <2>1, <2>2, <2>4, <1>a, LendStays DEF LendHeld
    <3>3. Astray' \subseteq Astray
      BY <2>1, <2>2, <3>1, <3>2, <1>a, HandOnly, SameHeld, NothingStrays
    <3> QED
      BY <2>2, <3>1, <3>3, FreeStep
  <2>5. CASE /\ lend[c][n].pc = "ok" /\ Goto(n, "check") /\ hand' = [hand EXCEPT ![n] = Borrowed(lend[c][n])]
             /\ peer' = [peer EXCEPT ![n] = NoNode]
    <3>j. PICK j : j = lend[c][n].ip
      OBVIOUS
    <3>1. j \in IP /\ Borrowed(lend[c][n]).ip = j
      BY <3>j, <2>1, <2>5, LendFacts DEF Borrowed
    <3>2. OnlyAt(n) /\ hand'[n].ip = j /\ pc'[n] = "check"
      BY <2>5, <3>1, <1>a DEF OnlyAt, Goto, MgrType
    <3>3. LendHeld(j) /\ HandHeld(j) /\ InHand(n, j)' /\ Orphans' \subseteq Orphans
      BY <3>j, <2>1, <2>2, <2>3, <3>2, <1>a, LendStays, HandOnly DEF LendHeld, InHand
    <3>4. OthersHeld(j) /\ HeldAt(n, j)'
      BY <2>2, <3>3, SameHeld, AllHeld DEF HeldAt
    <3>5. vpc'[j] = n \/ j \in Astray
      BY <3>j, <2>1, <2>2, <2>5, <3>1, <1>a, <1>e, OkAstray
    <3>6. Astray' \subseteq Astray
      BY <3>4, <3>5, <1>a, StrayNone
    <3> QED
      BY <2>2, <3>3, <3>6, FreeStep
  <2> QED
    BY <1>17, <2>c, <2>4, <2>5 DEF BorrowReturn
<1>18. ASSUME NEW n \in Node, BorrowTimeout(n) PROVE Budget'
  <2>c. PICK c : c = peer[n]
    OBVIOUS
  <2>1. c \in Node /\ pc[n] = "rpc" /\ hand[n].ip = NoIP
    BY <1>18, <2>c, MgrFacts DEF BorrowTimeout
  <2>2. UNCHANGED <<vpc, pool, cool, lend, pod>>
    BY <1>18 DEF BorrowTimeout, vpcVars, poolVars, coolVars
  <2>3. OnlyAt(n)
    BY <1>18, <2>c, <2>1, <1>a, SkipOnly DEF BorrowTimeout
  <2>4. Astray' \subseteq Astray
    BY <2>1, <2>2, <2>3, <1>a, HandOnly, SameHeld, NothingStrays
  <2>5. /\ Orphans' \subseteq Orphans \cup {<<c, n>>}
        /\ lend[c][n].pc \notin Working => Orphans' \subseteq Orphans
    BY <2>c, <2>1, <2>2, <2>3, <1>a, OrphanTimeout
  <2>6. CASE lend[c][n].pc = "idle" /\ UNCHANGED faults
    BY <2>4, <2>5, <2>6, FreeStep DEF Working
  <2>7. CASE Fault("timeout")
    <3>1. faults' = faults + 1 /\ <<c, n>> \in Node \X Node
      BY <2>1, <2>7 DEF Fault
    <3> QED
      BY <2>4, <2>5, <3>1, PaidOrphan
  <2> QED
    BY <1>18, <2>c, <2>6, <2>7 DEF BorrowTimeout
<1>19. ASSUME NEW n \in Node, Crash(n) PROVE Budget'
  BY <1>19 DEF Crash, Fault
<1>20. ASSUME NEW n \in Node, Restart(n) PROVE Budget'
  <2>1. UNCHANGED <<vpc, pool, cool, lend, pod, faults>> /\ pc[n] = "down" /\ hand[n].ip = NoIP
    BY <1>20, MgrFacts DEF Restart, vpcVars, poolVars, coolVars, history
  <2>2. OnlyAt(n)
    BY <1>20, <1>a, GotoOnly DEF Restart, borrow
  <2>3. Astray' \subseteq Astray /\ Orphans' \subseteq Orphans
    BY <2>1, <2>2, <1>a, HandOnly, SameHeld, NothingStrays, OrphansOnly
  <2> QED
    BY <2>1, <2>3, FreeStep
<1>21. ASSUME NEW n \in Node, NEW i \in IP, CooldownOver(n, i) PROVE Budget'
  <2>1. UNCHANGED <<vpc, pool, cool, pc, hand, peer, lend, pod, faults>>
    BY <1>21 DEF CooldownOver, vpcVars, poolVars, mgrVars, borrow, history
  <2>2. Astray' \subseteq Astray /\ Orphans' \subseteq Orphans
    BY <2>1, <1>a, SameHeld, NothingStrays, OrphansSame
  <2> QED
    BY <2>1, <2>2, FreeStep
<1>22. ASSUME NEW l \in Node, NEW b \in Node, LendPopView(l, b) PROVE Budget'
  <2>1. UNCHANGED <<vpc, pool, cool, pc, hand, peer, pod, faults>> /\ lend[l][b].pc = "view"
    BY <1>22 DEF LendPopView, vpcVars, poolVars, coolVars, mgrVars, borrow, history
  <2>2. PICK s : SetLend(l, b, s)
    BY <1>22 DEF LendPopView
  <2>3. LendHeld(NoIP) /\ Orphans' \subseteq Orphans
    BY <2>1, <2>2, <1>a, LendStays, OrphanStep DEF LendHeld, Working
  <2>4. Astray' \subseteq Astray
    BY <2>1, <2>3, <1>a, SameHeld, NothingStrays
  <2> QED
    BY <2>1, <2>3, <2>4, FreeStep
<1>23. ASSUME NEW l \in Node, NEW b \in Node, LendPopDelete(l, b) PROVE Budget'
  <2>j. PICK j : j = lend[l][b].ip
    OBVIOUS
  <2>1. j \in IP /\ j \in pool[l] /\ lend[l][b] \in LendState /\ lend[l][b].pc = "del"
    BY <1>23, <2>j, LendFacts DEF LendPopDelete, PopDelete
  <2>2. /\ pool' = [pool EXCEPT ![l] = @ \ {j}]
        /\ UNCHANGED <<vpc, cool, pc, hand, peer, pod, faults>>
    BY <1>23, <2>j DEF LendPopDelete, PopDelete, vpcVars, coolVars, mgrVars, borrow
  <2>3. PICK s : SetLend(l, b, s) /\ s.ip = j /\ s.pc = "move"
    BY <1>23, <2>j, <2>1, LendStateFacts DEF LendPopDelete
  <2>4. MovingFrom(l, j)'
    BY <2>3, <1>a DEF MovingFrom, SetLend, LendType
  <2>5. PoolHeld(j) /\ LendHeld(j) /\ Orphans' \subseteq Orphans
    BY <2>1, <2>2, <2>3, <1>a, PoolStays, LendStays, OrphanStep DEF PoolHeld, LendHeld, Working
  <2>6. OthersHeld(j) /\ HeldAt(l, j)'
    BY <2>2, <2>4, <2>5, SameHeld, AllHeld DEF HeldAt
  <2>7. vpc'[j] = l \/ j \in Astray
    BY <2>1, <2>2, <1>a, <1>e, PoolAstray
  <2>8. Astray' \subseteq Astray
    BY <2>6, <2>7, <1>a, StrayNone
  <2> QED
    BY <2>2, <2>5, <2>8, FreeStep
<1>24. ASSUME NEW l \in Node, NEW b \in Node, LendPopError(l, b) PROVE Budget'
  <2>1. UNCHANGED <<vpc, pool, cool, pc, hand, peer, pod>> /\ lend[l][b].pc \in {"view", "del"} /\ faults' = faults + 1
    BY <1>24 DEF LendPopError, vpcVars, poolVars, coolVars, mgrVars, borrow, Fault
  <2>2. PICK s : SetLend(l, b, s)
    BY <1>24 DEF LendPopError
  <2>3. LendHeld(NoIP) /\ Orphans' \subseteq Orphans
    BY <2>1, <2>2, <1>a, LendStays, OrphanStep DEF LendHeld, Working
  <2>4. Astray' \subseteq Astray
    BY <2>1, <2>3, <1>a, SameHeld, NothingStrays
  <2> QED
    BY <2>1, <2>3, <2>4, FreeStep
<1>25. ASSUME NEW l \in Node, NEW b \in Node, uapiMoveSecondaryIPMac(l, b) PROVE Budget'
  <2>j. PICK j : j = lend[l][b].ip
    OBVIOUS
  <2>1. j \in IP /\ j # NoIP /\ lend[l][b].pc = "move" /\ lend[l][b] \in LendState
    BY <1>25, <2>j, <1>i, LendFacts DEF uapiMoveSecondaryIPMac
  <2>2. UNCHANGED <<cool, pc, hand, peer, pod>> /\ CoolHeld(j) /\ HandHeld(j) /\ PodHeld(j)
    BY <1>25, SameHeld DEF uapiMoveSecondaryIPMac, coolVars, mgrVars, borrow
  <2>3. PICK s : SetLend(l, b, s)
    BY <1>25 DEF uapiMoveSecondaryIPMac
  <2>4. LendHeld(j) /\ Orphans' \subseteq Orphans
    BY <2>j, <2>1, <2>2, <2>3, <1>a, LendStays, OrphanStep DEF LendHeld, Working
  <2>5. CASE Attach(j, b) /\ SetLend(l, b, [lend[l][b] EXCEPT !.pc = "ok"]) /\ UNCHANGED <<poolVars, faults>>
    <3>1. vpc'[j] = b /\ \A i \in IP \ {j} : vpc'[i] = vpc[i]
      BY <2>1, <2>5, <1>a, AttachEffect
    <3>2. PICK t : SetLend(l, b, t) /\ t.ip = j /\ t.pc = "ok"
      BY <2>j, <2>1, <2>5, LendStateFacts, ZenonT(60)
    <3>3. MovedTo(b, j)'
      BY <3>2, <1>a DEF MovedTo, SetLend, LendType
    <3>4. PoolHeld(j)
      BY <2>5, SameHeld DEF poolVars
    <3>5. OthersHeld(j) /\ HeldAt(b, j)'
      BY <2>2, <2>4, <3>1, <3>3, <3>4, AllHeld DEF HeldAt
    <3>6. Astray' \subseteq Astray
      BY <3>1, <3>5, <1>a, StrayNone
    <3> QED
      BY <2>4, <2>5, <3>6, FreeStep
  <2>6. CASE Fault("lost") /\ Attach(j, b) /\ \E o \in Write : backupPushSecondaryIP(l, j, lend[l][b].tag, o)
    <3>1. faults' = faults + 1 /\ \A i \in IP \ {j} : vpc'[i] = vpc[i]
      BY <2>1, <2>6, <1>a, AttachEffect DEF Fault
    <3>2. PoolHeld(j)
      BY <2>6, <1>a, SameHeld, PoolStays DEF backupPushSecondaryIP, PoolPut, PoolHeld, poolVars
    <3>3. OthersHeld(j)
      BY <2>2, <2>4, <3>1, <3>2, AllHeld
    <3> QED
      BY <2>1, <2>4, <3>1, <3>3, <1>a, StrayOne, PaidStray
  <2>7. CASE /\ (vpc[j] # l /\ UNCHANGED faults) \/ Fault("api")
             /\ \E o \in Write : putIpToPool(l, j, lend[l][b].tag, o)
    <3>1. \A i \in IP \ {j} : vpc'[i] = vpc[i]
      BY <2>1, <2>7, <1>a, BackupEffect DEF putIpToPool, vpcVars
    <3>2. PoolHeld(j)
      BY <2>7, <1>a, SameHeld, PoolStays DEF putIpToPool, PoolPut, PoolHeld, poolVars
    <3>3. OthersHeld(j)
      BY <2>2, <2>4, <3>1, <3>2, AllHeld
    <3>4. CASE vpc[j] # l /\ UNCHANGED faults
      <4>1. j \in Astray
        BY <2>j, <2>1, <3>4, <1>a, <1>e, MoveAstray
      <4> QED
        BY <2>4, <3>3, <3>4, <4>1, <1>a, StrayNone, FreeStep
    <3>5. CASE Fault("api")
      BY <2>1, <2>4, <3>3, <3>5, <1>a, StrayOne, PaidStray DEF Fault
    <3> QED
      BY <2>7, <3>4, <3>5
  <2> QED
    BY <1>25, <2>j, <2>5, <2>6, <2>7 DEF uapiMoveSecondaryIPMac
<1>26. ASSUME NEW l \in Node, NEW b \in Node, LendDropped(l, b) PROVE Budget'
  <2>1. UNCHANGED <<vpc, pool, cool, pc, hand, peer, pod, faults>> /\ SetLend(l, b, LendIdle)
    BY <1>26 DEF LendDropped, vpcVars, poolVars, coolVars, mgrVars, borrow, history
  <2>2. Orphans' \subseteq Orphans \ {<<l, b>>}
    BY <2>1, <1>a, OrphanStep DEF LendIdle, Working
  <2>3. CASE lend[l][b].pc = "err"
    <3>1. LendHeld(NoIP)
      BY <2>1, <2>3, <1>a, LendStays DEF LendHeld
    <3>2. Astray' \subseteq Astray
      BY <2>1, <3>1, <1>a, SameHeld, NothingStrays
    <3> QED
      BY <2>1, <2>2, <3>2, FreeStep
  <2>4. CASE lend[l][b].pc = "ok"
    <3>j. PICK j : j = lend[l][b].ip
      OBVIOUS
    <3>1. j \in IP
      BY <2>4, <3>j, LendFacts
    <3>2. LendHeld(j)
      BY <3>j, <2>1, <1>a, LendStays DEF LendHeld
    <3>3. Astray' \subseteq Astray \cup {j}
      BY <2>1, <3>2, <1>a, SameHeld, AllHeld, StrayOne
    <3>4. <<l, b>> \in Orphans
      BY <1>26, <2>4 DEF LendDropped, Orphans, Waits, Working
    <3> QED
      BY <2>1, <2>2, <3>1, <3>3, <3>4, OrphanEnds
  <2> QED
    BY <1>26, <2>3, <2>4 DEF LendDropped
<1>27. ASSUME NEW p \in Pod, AddPodNetwork(p) PROVE Budget'
  <2>1. UNCHANGED <<vpc, pool, cool, pc, hand, peer, lend, faults>>
    BY <1>27 DEF AddPodNetwork, vpcVars, poolVars, coolVars, mgrVars, borrow, history
  <2>2. pod'[p].ip = pod[p].ip /\ \A q \in Pod \ {p} : pod'[q] = pod[q]
    BY <1>27, <1>a DEF AddPodNetwork, PodType
  <2>3. PodHeld(NoIP)
    BY <2>2, <1>a, PodStays DEF PodHeld
  <2>4. Astray' \subseteq Astray /\ Orphans' \subseteq Orphans
    BY <2>1, <2>3, <1>a, SameHeld, NothingStrays, OrphansSame
  <2> QED
    BY <2>1, <2>4, FreeStep
<1>28. ASSUME NEW p \in Pod, AnswerAdd(p) PROVE Budget'
  <2>j. PICK j : j = pod[p].ip
    OBVIOUS
  <2>1. j \in IP /\ PodNode[p] \in Node
    BY <1>28, <2>j, <1>i, PodFacts DEF AnswerAdd
  <2>2. UNCHANGED <<pool, cool, pc, hand, peer, lend>>
    BY <1>28 DEF AnswerAdd, poolVars, coolVars, mgrVars, borrow
  <2>3. \A q \in Pod \ {p} : pod'[q] = pod[q]
    BY <1>28, <1>a DEF AnswerAdd, PodType
  <2>4. Orphans' \subseteq Orphans
    BY <2>2, OrphansSame
  <2>5. CASE pod' = [pod EXCEPT ![p].st = "up"] /\ UNCHANGED <<vpcVars, faults>>
    <3>1. pod'[p].ip = pod[p].ip /\ UNCHANGED vpc
      BY <2>5, <1>a DEF PodType, vpcVars
    <3>2. PodHeld(NoIP)
      BY <2>3, <3>1, <1>a, PodStays DEF PodHeld
    <3>3. Astray' \subseteq Astray
      BY <2>2, <3>1, <3>2, <1>a, SameHeld, NothingStrays
    <3> QED
      BY <2>4, <2>5, <3>3, FreeStep
  <2>6. CASE faults' = faults + 1 /\ (backupReleaseSecondaryIP(PodNode[p], j) \/ UNCHANGED vpcVars)
    <3>1. \A i \in IP \ {j} : vpc'[i] = vpc[i]
      BY <2>1, <2>6, <1>a, BackupEffect DEF vpcVars
    <3>2. PodHeld(j)
      BY <2>j, <2>3, <1>a, PodStays DEF PodHeld
    <3>3. Astray' \subseteq Astray \cup {j}
      BY <2>2, <3>1, <3>2, <1>a, SameHeld, AllHeld, StrayOne
    <3> QED
      BY <2>1, <2>4, <2>6, <3>3, PaidStray
  <2> QED
    BY <1>28, <2>j, <2>5, <2>6 DEF AnswerAdd, Fault
<1>29. ASSUME NEW p \in Pod, DelPodNetwork(p) PROVE Budget'
  <2>1. UNCHANGED <<vpc, pool, cool, pc, hand, peer, lend, faults>>
    BY <1>29 DEF DelPodNetwork, vpcVars, poolVars, coolVars, mgrVars, borrow, history
  <2>2. pod'[p].ip = pod[p].ip /\ \A q \in Pod \ {p} : pod'[q] = pod[q]
    BY <1>29, <1>a DEF DelPodNetwork, PodType
  <2>3. PodHeld(NoIP)
    BY <2>2, <1>a, PodStays DEF PodHeld
  <2>4. Astray' \subseteq Astray /\ Orphans' \subseteq Orphans
    BY <2>1, <2>3, <1>a, SameHeld, NothingStrays, OrphansSame
  <2> QED
    BY <2>1, <2>4, FreeStep
<1> QED
  BY <1>1, <1>2, <1>3, <1>4, <1>5, <1>6, <1>7, <1>8, <1>9, <1>10, <1>11, <1>12, <1>13, <1>14,
     <1>15, <1>16, <1>17, <1>18, <1>19, <1>20, <1>21, <1>22, <1>23, <1>24, <1>25, <1>26, <1>27,
     <1>28, <1>29 DEF Next, Select, MgrStep, LendStep, PodStep

LEMMA BudgetInit == Init => BudgetInv
<1> SUFFICES ASSUME Init PROVE Budget
  BY DEF BudgetInv
<1>1. Astray = {}
  <2>1. \A i \in IP : vpc[i] # NoNode => \E n \in Node : vpc[i] = n /\ i \in pool[n]
    BY ConstAssumption DEF Init
  <2> QED
    BY <2>1 DEF Astray, HeldAt
<1>2. \A l, b \in Node : lend[l][b].pc = "idle"
  BY DEF Init, LendIdle
<1>3. Orphans = {}
  BY <1>2 DEF Orphans, Working
<1>4. Cardinality(Astray) = 0 /\ Cardinality(Orphans) = 0
  BY <1>1, <1>3, FS_EmptySet
<1> QED
  BY <1>4 DEF Init, Budget

(* Every fault (a failed or lost call of the VPC, the database or the      *)
(* kubernetes API, a deadline that passes, a lost answer) loses at most    *)
(* one address, whatever the number of nodes, pods, addresses and faults:  *)
(* each error path of getPodIp, cooldownIP, releasePool, recycleCooldownIP *)
(* and lendIP puts its address back, releases it, or has paid for it.      *)
THEOREM LeaksBounded == Spec => []LeakBound
<1>1. Init => BudgetInv
  BY BudgetInit
<1>2. IInv /\ BudgetInv /\ [Next]_vars => BudgetInv'
  <2> SUFFICES ASSUME IInv, BudgetInv, [Next]_vars, hazards' = {}, "crash" \notin FaultKinds
               PROVE  Budget'
    BY DEF BudgetInv
  <2>1. CASE Next
    <3>1. hazards = {}
      BY <2>1, AuxStep DEF IInv
    <3> QED
      BY <2>1, <3>1, BudgetStep DEF IInv, BudgetInv
  <2>2. CASE UNCHANGED vars
    <3>1. UNCHANGED <<vpc, pool, cool, pc, hand, peer, lend, pod, faults, hazards>>
      BY <2>2 DEF vars, vpcVars, poolVars, coolVars, mgrVars, borrow, history
    <3>2. Astray' \subseteq Astray /\ Orphans' \subseteq Orphans
      BY <3>1, SameHeld, NothingStrays, OrphansSame DEF IInv, TypeOK
    <3> QED
      BY <3>1, <3>2, FreeStep DEF IInv, BudgetInv
  <2> QED
    BY <2>1, <2>2
<1>3. IInv /\ BudgetInv => LeakBound
  <2> SUFFICES ASSUME IInv, Budget PROVE Cardinality(Leaked) <= faults
    BY DEF BudgetInv, LeakBound
  <2>f. faults \in Nat
    BY ConstAssumption DEF IInv, TypeOK
  <2>1. Leaked \subseteq Astray
    <3>1. \A i \in IP, n \in Node : HeldAt(n, i) => Holders(i) # {}
      <4> SUFFICES ASSUME NEW i \in IP, NEW n \in Node, HeldAt(n, i) PROVE Holders(i) # {}
        OBVIOUS
      <4>1. (MovingFrom(n, i) \/ MovedTo(n, i)) => \E l, b \in Node : Lending(l, b, i)
        BY DEF MovingFrom, MovedTo, Lending
      <4>2. PodAt(n, i) => \E p \in Pod : pod[p].ip = i
        BY DEF PodAt
      <4> QED
        BY <4>1, <4>2, HolderMember DEF HeldAt
    <3> QED
      BY <3>1 DEF Leaked, Astray
  <2>a. PICK A : A = Astray
    OBVIOUS
  <2>b. PICK L : L = Leaked
    OBVIOUS
  <2>c. PICK O : O = Orphans
    OBVIOUS
  <2>2. /\ L \subseteq A /\ IsFiniteSet(A) /\ Cardinality(A) \in Nat
        /\ Cardinality(L) \in Nat /\ Cardinality(O) \in Nat
    <3>1. L \in SUBSET IP
      BY <2>b DEF Leaked
    <3> QED
      BY <3>1, <2>1, <2>a, <2>b, <2>c, BudgetFinite, BudgetSets
  <2>3. Cardinality(L) <= Cardinality(A)
    BY <2>2, FS_Subset
  <2>4. Cardinality(A) + Cardinality(O) <= faults
    BY <2>a, <2>c DEF Budget
  <2>5. Cardinality(L) <= faults
    BY <2>2, <2>3, <2>4, <2>f
  <2> QED
    BY <2>5, <2>b
<1> QED
  BY <1>1, <1>2, <1>3, Inductive, PTL DEF Spec
=============================================================================
