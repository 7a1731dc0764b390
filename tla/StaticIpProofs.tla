--------------------------- MODULE StaticIpProofs ---------------------------
(***************************************************************************)
(* Static addresses, for every number of nodes, pods, addresses, scalings, *)
(* pod starts and faults: the types, that an address has one owner, that a *)
(* running pod keeps the address it was given, and that the claims         *)
(* implement ClaimLife.                                                    *)
(***************************************************************************)
EXTENDS StaticIp, FiniteSetTheorems, TLAPS

(* Once its claim exists an ADD serves the pod with the claimed address.   *)
Serving == {"describe", "move", "mark", "check"}

(* Exclusive is not inductive.  An ADD goes on with an address after the   *)
(* claim for it was deleted, and the vip-controller holds deleted claims   *)
(* whose pods may still have a sandbox: both belong to the pod name as     *)
(* much as the claim itself.                                               *)
Makes(n, ip) == add[n].pc = "create" /\ add[n].ip = ip
NodeUse(n, ip) == ip \in keep[n] \/ Makes(n, ip)
Binds(p, ip) == claim[p] # None /\ claim[p].ip = ip
Serves(n, p, ip) == add[n].pc \in Serving /\ add[n].pod = p /\ add[n].ip = ip
Boxed(p, ip) == \E b \in box : b.pod = p /\ b.ip = ip
Queued(p, ip) == \E v \in vip.queue : v.pod = p /\ v.ip = ip
PodUse(p, ip) ==
  Binds(p, ip) \/ Boxed(p, ip) \/ Queued(p, ip) \/ \E n \in Nodes : Serves(n, p, ip)
Unused(ip) == (\A n \in Nodes : ~NodeUse(n, ip)) /\ (\A p \in Pods : ~PodUse(p, ip))

OneUser(ip) ==
  /\ \A m, n \in Nodes : NodeUse(m, ip) /\ NodeUse(n, ip) => m = n
  /\ \A p, q \in Pods : PodUse(p, ip) /\ PodUse(q, ip) => p = q
  /\ \A n \in Nodes, p \in Pods : ~(NodeUse(n, ip) /\ PodUse(p, ip))
  /\ \A n \in Nodes : ~(ip \in keep[n] /\ Makes(n, ip))

(* Nobody uses an address that the VPC may hand out, or that the           *)
(* vip-controller is about to release; it releases an address once.        *)
Freed(ip) ==
  /\ vpc[ip] = None => Unused(ip) /\ \A v \in vip.release : v.ip # ip
  /\ \A v \in vip.release : v.ip = ip => Unused(ip)
  /\ \A v, w \in vip.queue \cup vip.release : v.ip = ip /\ w.ip = ip => v = w
  /\ \A v \in vip.queue, p \in Pods : v.ip = ip => ~Binds(p, ip)

OwnInv == \A ip \in IPs \ risky : OneUser(ip) /\ Freed(ip)

(* The local state of an ADD and of a pod.                                 *)
AddShape ==
  \A n \in Nodes :
    /\ add[n].pc # "idle" => add[n].pod \in Pods /\ add[n].uid \in 1..starts
    /\ add[n].pc \in {"idle", "assign"} <=> add[n].ip = None
PodShape ==
  \A p \in Pods :
    /\ pod[p].uid \in 0..starts
    /\ pod[p].uid = 0 => pod[p] = NoPod
    /\ pod[p].phase = "none" => pod[p] = NoPod
    /\ \A q \in Pods : pod[p].uid = pod[q].uid => p = q \/ pod[p].uid = 0

(* An ADD or a sandbox of the present pod is on the pod's node.            *)
AddTickets ==
  \A p \in Pods, n \in Nodes :
    add[n].pc # "idle" /\ add[n].uid = pod[p].uid => add[n].pod = p /\ pod[p].node = n
BoxTickets ==
  \A b \in box :
    b.uid <= starts /\ \A p \in Pods : b.uid = pod[p].uid => b.pod = p /\ pod[p].node = b.node

Shape ==
  /\ TypeOK /\ IsFiniteSet(vip.queue) /\ IsFiniteSet(vip.release)
  /\ AddShape /\ PodShape /\ AddTickets /\ BoxTickets

(* The sandbox of the present pod has its address on its node.             *)
Reach == \A b \in box : b.ip \notin risky /\ pod[b.pod].uid = b.uid => vpc[b.ip] = b.node

----------------------------------------------------------------------------
(* Types and the shape of the local states.                                *)

AddPC == {"idle", "assign", "create", "describe", "move", "mark", "check"}
PodRec == [phase : {"none", "Pending", "Running"}, node : Nodes \cup {None}, uid : 0..MaxStart]
BoxRec == [pod : Pods, uid : 1..MaxStart, node : Nodes, ip : IPs]
AddRec == [pc : AddPC, pod : Pods \cup {None}, uid : 0..MaxStart, ip : IPs \cup {None},
           mac : Nodes \cup {None}, fresh : BOOLEAN]
UpdRec == [queued : BOOLEAN, stuck : BOOLEAN, listed : BOOLEAN, todo : SUBSET Pods, item : Pods \cup {None}]

CloudType == vpc \in [IPs -> Nodes \cup {None}] /\ keep \in [Nodes -> SUBSET IPs]
ClaimsType == claim \in [Pods -> ClaimType \cup {None}]
PodsType == pod \in [Pods -> PodRec] /\ PodShape /\ starts \in 0..MaxStart
AddsType == add \in [Nodes -> AddRec] /\ AddShape /\ AddTickets
BoxType == box \subseteq BoxRec /\ BoxTickets
CtlType ==
  /\ upd \in UpdRec
  /\ dels \in [queued : BOOLEAN, todo : SUBSET Pods]
  /\ gc \in [todo : SUBSET Pods, item : Pods \cup {None}]
VipType ==
  /\ vip \in [queue : SUBSET Deleted, release : SUBSET Deleted]
  /\ IsFiniteSet(vip.queue) /\ IsFiniteSet(vip.release)
StsType == sts \in [exists : BOOLEAN, replicas : 0..MaxReplicas] /\ scales \in 0..MaxScale
HistType == faults \in 0..MaxFaults /\ lost \in Nat /\ risky \subseteq IPs

LEMMA ShapeParts ==
  Shape <=> /\ CloudType /\ ClaimsType /\ PodsType /\ AddsType /\ BoxType
            /\ CtlType /\ VipType /\ StsType /\ HistType
BY DEF Shape, TypeOK, CloudType, ClaimsType, PodsType, AddsType, BoxType, CtlType, VipType,
       StsType, HistType, AddPC, PodRec, BoxRec, AddRec, UpdRec

LEMMA ShapeNext ==
  ASSUME CloudType', ClaimsType', PodsType', AddsType', BoxType', CtlType', VipType', StsType', HistType'
  PROVE  Shape'
BY DEF Shape, TypeOK, CloudType, ClaimsType, PodsType, AddsType, BoxType, CtlType, VipType,
       StsType, HistType, AddPC, PodRec, BoxRec, AddRec, UpdRec

(* What an action leaves alone keeps its type.                             *)
LEMMA CloudSame == ASSUME CloudType, UNCHANGED <<vpc, keep>> PROVE CloudType'
BY DEF CloudType
LEMMA ClaimsSame == ASSUME ClaimsType, UNCHANGED claim PROVE ClaimsType'
BY DEF ClaimsType
LEMMA PodsSame == ASSUME PodsType, UNCHANGED <<pod, starts>> PROVE PodsType'
BY DEF PodsType, PodShape
LEMMA AddsSame == ASSUME AddsType, UNCHANGED <<add, pod, starts>> PROVE AddsType'
BY DEF AddsType, AddShape, AddTickets
LEMMA BoxSame == ASSUME BoxType, UNCHANGED <<box, pod, starts>> PROVE BoxType'
BY DEF BoxType, BoxTickets
LEMMA CtlSame == ASSUME CtlType, UNCHANGED <<upd, dels, gc>> PROVE CtlType'
BY DEF CtlType
LEMMA VipSame == ASSUME VipType, UNCHANGED vip PROVE VipType'
BY DEF VipType
LEMMA StsSame == ASSUME StsType, UNCHANGED <<sts, scales>> PROVE StsType'
BY DEF StsType
LEMMA HistSame == ASSUME HistType, UNCHANGED <<faults, lost, risky>> PROVE HistType'
BY DEF HistType

LEMMA FaultHist ==
  ASSUME HistType, NEW k, Fault(k) \/ Failure(k) \/ NoFault
  PROVE  faults' \in 0..MaxFaults /\ lost' \in Nat
BY StaticAssumption DEF HistType, Fault, Failure, NoFault

(* The pods and the StatefulSet.                                           *)
LEMMA ShapeUsers ==
  ASSUME Shape,
         \/ \E r \in 0..MaxReplicas : ScaleSts(r)
         \/ DeleteSts \/ CreateSts
         \/ \E p \in Pods, n \in Nodes : CreatePod(p, n)
         \/ \E p \in Pods : RunPod(p) \/ DeletePod(p) \/ ForceDeletePod(p)
  PROVE  Shape'
<1> USE ShapeParts, ShapeNext, StaticAssumption
<1>1. ASSUME NEW r \in 0..MaxReplicas, ScaleSts(r) PROVE Shape'
  <2>1. CtlType' /\ StsType'
    BY <1>1 DEF ScaleSts, Notify, CtlType, StsType, UpdRec
  <2> QED BY <1>1, <2>1, CloudSame, ClaimsSame, PodsSame, AddsSame, BoxSame, VipSame, HistSame
          DEF ScaleSts, cloudVars, history
<1>2. CASE DeleteSts
  <2>1. CtlType'
    BY <1>2 DEF DeleteSts, CtlType
  <2>2. StsType'
    BY <1>2 DEF DeleteSts, StsType
  <2> QED BY <1>2, <2>1, <2>2, CloudSame, ClaimsSame, PodsSame, AddsSame, BoxSame, VipSame, HistSame
          DEF DeleteSts, cloudVars, history
<1>3. CASE CreateSts
  <2>1. StsType'
    BY <1>3 DEF CreateSts, StsType, boundVars
  <2> QED BY <1>3, <2>1, CloudSame, ClaimsSame, PodsSame, AddsSame, BoxSame, VipSame, HistSame, CtlSame
          DEF CreateSts, cloudVars, ctlVars, boundVars, history
<1>4. ASSUME NEW p \in Pods, NEW n \in Nodes, CreatePod(p, n) PROVE Shape'
  <2>1. starts' = starts + 1 /\ starts \in Nat /\ starts < MaxStart /\ starts' \in 0..MaxStart
    BY <1>4 DEF CreatePod, PodsType
  <2>2. pod' = [pod EXCEPT ![p] = [phase |-> "Pending", node |-> n, uid |-> starts + 1]]
    BY <1>4 DEF CreatePod
  <2>3. PodsType'
    BY <2>1, <2>2 DEF PodsType, PodShape, PodRec
  <2>4. AddsType'
    BY <1>4, <2>1, <2>2 DEF CreatePod, AddsType, AddShape, AddTickets, PodsType, PodRec, AddRec
  <2>5. BoxType'
    BY <1>4, <2>1, <2>2 DEF CreatePod, BoxType, BoxTickets, PodsType, PodRec, BoxRec
  <2> QED BY <1>4, <2>3, <2>4, <2>5, CloudSame, ClaimsSame, CtlSame, VipSame, HistSame, StsSame
          DEF CreatePod, cloudVars, ctlVars, history
<1>5. ASSUME NEW p \in Pods, RunPod(p) PROVE Shape'
  <2>1. pod' = [pod EXCEPT ![p].phase = "Running"] /\ pod[p].phase = "Pending"
    BY <1>5 DEF RunPod
  <2>2. UNCHANGED <<starts, add, box>>
    BY <1>5 DEF RunPod, boundVars
  <2>3. PodsType'
    BY <2>1, <2>2 DEF PodsType, PodShape, PodRec, NoPod
  <2>4. AddsType'
    BY <2>1, <2>2 DEF AddsType, AddShape, AddTickets, PodsType, PodRec
  <2>5. BoxType'
    BY <2>1, <2>2 DEF BoxType, BoxTickets, PodsType, PodRec
  <2> QED BY <1>5, <2>3, <2>4, <2>5, CloudSame, ClaimsSame, CtlSame, VipSame, HistSame, StsSame
          DEF RunPod, cloudVars, ctlVars, boundVars, history
<1>6. ASSUME NEW p \in Pods, DeletePod(p) \/ ForceDeletePod(p) PROVE Shape'
  <2>1. pod' = [pod EXCEPT ![p] = NoPod]
    BY <1>6 DEF DeletePod, ForceDeletePod
  <2>2. UNCHANGED <<starts, add, box, sts, scales, risky>> /\ HistType'
    BY <1>6, FaultHist DEF DeletePod, ForceDeletePod, boundVars, history, HistType
  <2>3. PodsType'
    BY <2>1, <2>2 DEF PodsType, PodShape, PodRec, NoPod
  <2>4. AddsType'
    BY <2>1, <2>2 DEF AddsType, AddShape, AddTickets, PodsType, PodRec, NoPod
  <2>5. BoxType'
    BY <2>1, <2>2 DEF BoxType, BoxTickets, PodsType, PodRec, BoxRec, NoPod
  <2>6. CtlType'
    BY <1>6 DEF DeletePod, ForceDeletePod, Notify, CtlType, UpdRec, StsType
  <2> QED BY <1>6, <2>2, <2>3, <2>4, <2>5, <2>6, CloudSame, ClaimsSame, VipSame, StsSame
          DEF DeletePod, ForceDeletePod, cloudVars
<1> QED BY <1>1, <1>2, <1>3, <1>4, <1>5, <1>6

(* The steps of an ADD.                                                    *)
LEMMA AddStepType ==
  ASSUME AddsType, NEW n \in Nodes, UNCHANGED <<pod, starts>>,
         NEW a \in AddRec, add' = [add EXCEPT ![n] = a],
         a.pc # "idle" => a.pod \in Pods /\ a.uid \in 1..starts,
         a.pc \in {"idle", "assign"} <=> a.ip = None,
         a.pc # "idle" => \A p \in Pods : a.uid = pod[p].uid => a.pod = p /\ pod[p].node = n
  PROVE  AddsType'
BY DEF AddsType, AddShape, AddTickets

LEMMA FailType ==
  ASSUME AddsType, NEW n \in Nodes, UNCHANGED <<pod, starts>>, Fail(n)
  PROVE  AddsType'
<1>1. Idle \in AddRec /\ Idle.pc = "idle" /\ Idle.ip = None
  BY StaticAssumption DEF Idle, AddRec, AddPC
<1> QED BY <1>1, AddStepType DEF Fail

(* Inside an ADD the pod and its uid stay.                                 *)
LEMMA GoType ==
  ASSUME AddsType, NEW n \in Nodes, UNCHANGED <<pod, starts>>, add[n].pc # "idle",
         NEW pc \in AddPC \ {"idle", "assign"}, NEW ip \in IPs, NEW m \in Nodes \cup {None},
         add' = [add EXCEPT ![n] = [add[n] EXCEPT !.pc = pc, !.ip = ip, !.mac = m]]
  PROVE  AddsType'
<1> DEFINE a == [add[n] EXCEPT !.pc = pc, !.ip = ip, !.mac = m]
<1>1. a \in AddRec /\ a.pc = pc /\ a.ip = ip /\ a.pod = add[n].pod /\ a.uid = add[n].uid
  BY DEF AddsType, AddRec
<1>2. a.ip # None /\ a.pc \notin {"idle", "assign"}
  BY <1>1, StaticAssumption
<1>3. a.pod \in Pods /\ a.uid \in 1..starts
  BY <1>1 DEF AddsType, AddShape
<1>4. \A p \in Pods : a.uid = pod[p].uid => a.pod = p /\ pod[p].node = n
  BY <1>1 DEF AddsType, AddTickets
<1>5. add' = [add EXCEPT ![n] = a]
  OBVIOUS
<1> HIDE DEF a
<1> QED BY <1>1, <1>2, <1>3, <1>4, <1>5, AddStepType

(* An ADD past its assignment has an address.                              *)
LEMMA AddHas ==
  ASSUME AddsType, NEW n \in Nodes, add[n].pc \notin {"idle", "assign"}
  PROVE  add[n].ip \in IPs /\ add[n].pod \in Pods /\ add[n].uid \in 1..starts
         /\ add[n].mac \in Nodes \cup {None} /\ add[n] \in AddRec
BY DEF AddsType, AddShape, AddRec

LEMMA ShapeFind ==
  ASSUME Shape, NEW n \in Nodes, NEW p \in Pods, findStaticIp(n, p)
  PROVE  Shape'
<1> USE ShapeParts, StaticAssumption
<1>1. UNCHANGED <<vpc, keep, claim, pod, sts, box, upd, dels, gc, vip, scales, starts, faults, lost, risky>>
  BY DEF findStaticIp, cloudVars, kubeVars, ctlVars, boundVars, history
<1>2. pod[p].node = n /\ pod[p].uid \in 1..starts /\ pod[p].uid \in 0..MaxStart
  BY DEF findStaticIp, podEnableStaticIP, PodsType, PodShape, PodRec, NoPod
<1> DEFINE a == add'[n]
<1>3. a.pc \in {"assign", "describe"} /\ a.pod = p /\ a.uid = pod[p].uid /\ a \in AddRec
      /\ (a.pc = "assign" <=> a.ip = None) /\ add' = [add EXCEPT ![n] = a]
  <2>1. CASE claim[p] = None
    BY <1>2, <2>1 DEF findStaticIp, Idle, AddRec, AddPC, AddsType
  <2>2. CASE claim[p] # None
    <3>1. claim[p].ip \in IPs /\ claim[p].mac \in Nodes
      BY <2>2 DEF ClaimsType, ClaimType
    <3> QED BY <1>2, <2>2, <3>1 DEF findStaticIp, AddRec, AddPC, AddsType
  <2> QED BY <2>1, <2>2
<1>4. \A q \in Pods : pod[p].uid = pod[q].uid => p = q
  BY <1>2 DEF PodsType, PodShape
<1> HIDE DEF a
<1>5. AddsType'
  BY <1>1, <1>2, <1>3, <1>4, AddStepType
<1> QED BY <1>1, <1>5, ShapeNext, CloudSame, ClaimsSame, PodsSame, BoxSame, CtlSame, VipSame, StsSame, HistSame

LEMMA ShapeAssign ==
  ASSUME Shape, NEW n \in Nodes, assignPodIP(n)
  PROVE  Shape'
<1> USE ShapeParts, StaticAssumption
<1>1. UNCHANGED <<claim, pod, sts, box, upd, dels, gc, vip, scales, starts, risky>> /\ add[n].pc = "assign"
  BY DEF assignPodIP, kubeVars, ctlVars, boundVars
<1>2. CloudType'
  BY DEF assignPodIP, CloudType, cloudVars
<1>3. HistType'
  BY <1>1, FaultHist DEF assignPodIP, HistType
<1>4. AddsType'
  <2>1. CASE Fail(n)
    BY <1>1, <2>1, FailType
  <2>2. CASE ~Fail(n)
    <3>1. PICK ip \in IPs : add' = [add EXCEPT ![n].pc = "create", ![n].ip = ip]
      BY <2>2 DEF assignPodIP, CloudType
    <3>2. add' = [add EXCEPT ![n] = [add[n] EXCEPT !.pc = "create", !.ip = ip, !.mac = add[n].mac]]
          /\ add[n].mac \in Nodes \cup {None}
      BY <3>1 DEF AddsType, AddRec
    <3> QED BY <1>1, <3>2, GoType DEF AddPC
  <2> QED BY <2>1, <2>2
<1> QED BY <1>1, <1>2, <1>3, <1>4, ShapeNext, ClaimsSame, PodsSame, BoxSame, CtlSame, VipSame, StsSame

LEMMA CreatedType ==
  ASSUME ClaimsType, NEW p \in Pods, NEW ip \in IPs, NEW n \in Nodes
  PROVE  PodNetworkToVip(ip, n) \in ClaimType
         /\ [claim EXCEPT ![p] = PodNetworkToVip(ip, n)] \in [Pods -> ClaimType \cup {None}]
BY DEF PodNetworkToVip, ClaimType, ClaimsType

LEMMA ShapeCreate ==
  ASSUME Shape, NEW n \in Nodes, createVpcIpClaim(n)
  PROVE  Shape'
<1> USE ShapeParts, StaticAssumption
<1>1. UNCHANGED <<vpc, pod, sts, box, upd, dels, gc, vip, scales, starts, risky>> /\ add[n].pc = "create"
  BY DEF createVpcIpClaim, ctlVars, boundVars
<1>2. add[n].ip \in IPs /\ add[n].pod \in Pods
  BY <1>1, AddHas
<1>3. CloudType'
  BY <1>1, <1>2 DEF createVpcIpClaim, CloudType
<1>4. HistType'
  BY <1>1, FaultHist DEF createVpcIpClaim, HistType
<1>5. ClaimsType'
  BY <1>2, CreatedType DEF createVpcIpClaim, ClaimsType
<1>6. AddsType'
  <2>1. CASE Fail(n)
    BY <1>1, <2>1, FailType
  <2>2. CASE ~Fail(n)
    <3>1. add' = [add EXCEPT ![n].pc = "describe", ![n].mac = n]
      BY <2>2 DEF createVpcIpClaim
    <3>2. add' = [add EXCEPT ![n] = [add[n] EXCEPT !.pc = "describe", !.ip = add[n].ip, !.mac = n]]
      BY <3>1 DEF AddsType, AddRec
    <3> QED BY <1>1, <1>2, <3>2, GoType DEF AddPC
  <2> QED BY <2>1, <2>2
<1> QED BY <1>1, <1>3, <1>4, <1>5, <1>6, ShapeNext, PodsSame, BoxSame, CtlSame, VipSame, StsSame

LEMMA ShapeDescribe ==
  ASSUME Shape, NEW n \in Nodes, uapiDescribeSecondaryIp(n)
  PROVE  Shape'
<1> USE ShapeParts, StaticAssumption
<1>1. UNCHANGED <<keep, claim, pod, sts, box, upd, dels, gc, vip, scales, starts, risky>> /\ add[n].pc = "describe"
  BY DEF uapiDescribeSecondaryIp, kubeVars, ctlVars, boundVars
<1>2. add[n].ip \in IPs /\ add[n].mac \in Nodes \cup {None} /\ vpc[add[n].ip] \in Nodes \cup {None}
  BY <1>1, AddHas DEF CloudType
<1>3. CloudType'
  BY <1>1, <1>2 DEF uapiDescribeSecondaryIp, CloudType
<1>4. HistType'
  BY <1>1, FaultHist DEF uapiDescribeSecondaryIp, HistType
<1>5. AddsType'
  <2>1. PICK m \in Nodes \cup {None} : localAttach(n, m)
    BY <1>2 DEF uapiDescribeSecondaryIp
  <2>2. PICK pc \in {"mark", "move"} : add' = [add EXCEPT ![n].mac = m, ![n].pc = pc]
    BY <2>1 DEF localAttach
  <2>3. add' = [add EXCEPT ![n] = [add[n] EXCEPT !.pc = pc, !.ip = add[n].ip, !.mac = m]]
    BY <2>2 DEF AddsType, AddRec
  <2> QED BY <1>1, <1>2, <2>3, GoType DEF AddPC
<1> QED BY <1>1, <1>3, <1>4, <1>5, ShapeNext, ClaimsSame, PodsSame, BoxSame, CtlSame, VipSame, StsSame

LEMMA ShapeMove ==
  ASSUME Shape, NEW n \in Nodes, uapiMoveSecondaryIPMac(n)
  PROVE  Shape'
<1> USE ShapeParts, StaticAssumption
<1>1. UNCHANGED <<keep, claim, pod, sts, box, upd, dels, gc, vip, scales, starts>> /\ add[n].pc = "move"
  BY DEF uapiMoveSecondaryIPMac, kubeVars, ctlVars, boundVars
<1>2. add[n].ip \in IPs /\ add[n].mac \in Nodes \cup {None}
  BY <1>1, AddHas
<1>3. CloudType'
  BY <1>1, <1>2 DEF uapiMoveSecondaryIPMac, CloudType
<1>4. HistType'
  BY <1>1, <1>2, FaultHist DEF uapiMoveSecondaryIPMac, HistType
<1>5. AddsType'
  <2>1. CASE Fail(n)
    BY <1>1, <2>1, FailType
  <2>2. CASE ~Fail(n)
    <3>1. add' = [add EXCEPT ![n] = [add[n] EXCEPT !.pc = "mark", !.ip = add[n].ip, !.mac = add[n].mac]]
      BY <2>2 DEF uapiMoveSecondaryIPMac, Go, AddsType, AddRec
    <3> QED BY <1>1, <1>2, <3>1, GoType DEF AddPC
  <2> QED BY <2>1, <2>2
<1> QED BY <1>1, <1>3, <1>4, <1>5, ShapeNext, ClaimsSame, PodsSame, BoxSame, CtlSame, VipSame, StsSame

LEMMA AttachedType ==
  ASSUME NEW c \in ClaimType, NEW n \in Nodes, NEW t \in BOOLEAN
  PROVE  /\ Attached(c, n, t) \in ClaimType
         /\ Attached(c, n, t).ip = c.ip /\ Attached(c, n, t).doomed = c.doomed
         /\ Attached(c, n, t).st = "attached"
BY DEF Attached, ClaimType

LEMMA ShapeMark ==
  ASSUME Shape, NEW n \in Nodes, markVPCIpClaimAttached(n)
  PROVE  Shape'
<1> USE ShapeParts, StaticAssumption
<1>1. UNCHANGED <<vpc, keep, pod, sts, box, upd, dels, gc, vip, scales, starts, risky>> /\ add[n].pc = "mark"
  BY DEF markVPCIpClaimAttached, cloudVars, ctlVars, boundVars
<1>2. add[n].ip \in IPs /\ add[n].mac \in Nodes \cup {None} /\ add[n].pod \in Pods
  BY <1>1, AddHas
<1>3. ClaimsType'
  <2>1. (pod[add[n].pod] # NoPod) \in BOOLEAN
    OBVIOUS
  <2>2. CASE claim' = [claim EXCEPT ![add[n].pod] = Attached(@, n, pod[add[n].pod] # NoPod)]
             /\ claim[add[n].pod] # None
    <3>1. claim[add[n].pod] \in ClaimType
      BY <1>2, <2>2 DEF ClaimsType
    <3>2. Attached(claim[add[n].pod], n, pod[add[n].pod] # NoPod) \in ClaimType
      BY <3>1, <2>1, AttachedType
    <3> QED BY <2>2, <3>2 DEF ClaimsType
  <2> QED BY <2>2 DEF markVPCIpClaimAttached, ClaimsType
<1>4. HistType'
  BY <1>1 DEF markVPCIpClaimAttached, HistType
<1>5. AddsType'
  <2>1. CASE Fail(n)
    BY <1>1, <2>1, FailType
  <2>2. CASE ~Fail(n)
    <3> DEFINE p == add[n].pod
               a == [add[n] EXCEPT !.pc = "check"]
    <3>1. claim[p] # None /\ claim' = [claim EXCEPT ![p] = Attached(@, n, pod[p] # NoPod)]
          /\ add' = [add EXCEPT ![n] = IF a.fresh THEN a ELSE VipToPodNetwork(a, claim'[p])]
      BY <2>2 DEF markVPCIpClaimAttached
    <3>2. claim'[p] \in ClaimType
      BY <1>2, <1>3, <3>1, AttachedType DEF ClaimsType
    <3>3. PICK ip \in IPs, m \in Nodes \cup {None} :
             add' = [add EXCEPT ![n] = [add[n] EXCEPT !.pc = "check", !.ip = ip, !.mac = m]]
      <4>1. CASE a.fresh
        <5>1. add' = [add EXCEPT ![n] = [add[n] EXCEPT !.pc = "check", !.ip = add[n].ip, !.mac = add[n].mac]]
          BY <3>1, <4>1 DEF AddsType, AddRec
        <5> QED BY <1>2, <5>1
      <4>2. CASE ~a.fresh
        BY <1>2, <3>1, <3>2, <4>2 DEF AddsType, AddRec, VipToPodNetwork, ClaimType
      <4> QED BY <4>1, <4>2
    <3> QED BY <1>1, <3>3, GoType DEF AddPC
  <2> QED BY <2>1, <2>2
<1> QED BY <1>1, <1>3, <1>4, <1>5, ShapeNext, CloudSame, PodsSame, BoxSame, CtlSame, VipSame, StsSame

LEMMA ShapeAnswer ==
  ASSUME Shape, NEW n \in Nodes, answerAdd(n)
  PROVE  Shape'
<1> USE ShapeParts, StaticAssumption
<1>1. UNCHANGED <<keep, claim, pod, sts, upd, dels, gc, vip, scales, starts>> /\ add[n].pc = "check" /\ Fail(n)
  BY DEF answerAdd, kubeVars, ctlVars, boundVars
<1>2. add[n].ip \in IPs /\ add[n].pod \in Pods /\ add[n].uid \in 1..starts /\ starts \in 0..MaxStart
  BY <1>1, AddHas DEF PodsType
<1>3. CloudType'
  BY <1>1, <1>2 DEF answerAdd, checkIPConflict, Drop, CloudType
<1>4. HistType'
  BY <1>1, <1>2, FaultHist DEF answerAdd, checkIPConflict, Drop, HistType
<1>5. AddsType'
  BY <1>1, FailType
<1>6. BoxType'
  <2>1. CASE UNCHANGED box
    BY <1>1, <2>1, BoxSame
  <2>2. CASE box' = box \cup {[pod |-> add[n].pod, uid |-> add[n].uid, node |-> n, ip |-> add[n].ip]}
    <3>1. \A p \in Pods : add[n].uid = pod[p].uid => add[n].pod = p /\ pod[p].node = n
      BY <1>1 DEF AddsType, AddTickets
    <3> QED BY <1>1, <1>2, <2>2, <3>1 DEF BoxType, BoxTickets, BoxRec
  <2> QED BY <2>1, <2>2 DEF answerAdd
<1> QED BY <1>1, <1>3, <1>4, <1>5, <1>6, ShapeNext, ClaimsSame, PodsSame, CtlSame, VipSame, StsSame

(* A sandbox goes, a pool shrinks, a process dies.                         *)
LEMMA BoxLess ==
  ASSUME BoxType, NEW b, box' = box \ {b}, UNCHANGED <<pod, starts>>
  PROVE  BoxType'
BY DEF BoxType, BoxTickets

LEMMA ShapeNode ==
  ASSUME Shape,
         \/ \E b \in box : setAnnotationForCalicoPolicy(b) \/ DelPodNetwork(b)
         \/ \E n \in Nodes : releasePool(n) \/ Crash(n)
  PROVE  Shape'
<1> USE ShapeParts, StaticAssumption
<1>1. ASSUME NEW b \in box, setAnnotationForCalicoPolicy(b) PROVE Shape'
  <2>1. UNCHANGED <<keep, claim, pod, sts, add, upd, dels, gc, vip, scales, starts>> /\ box' = box \ {b}
    BY <1>1 DEF setAnnotationForCalicoPolicy, kubeVars, ctlVars, boundVars
  <2>2. b.ip \in IPs
    BY DEF BoxType, BoxRec
  <2>3. CloudType'
    BY <1>1, <2>1, <2>2 DEF setAnnotationForCalicoPolicy, Drop, CloudType
  <2>4. HistType'
    BY <1>1, <2>2, FaultHist DEF setAnnotationForCalicoPolicy, setPodAnnotation, Drop, HistType
  <2> QED BY <2>1, <2>3, <2>4, ShapeNext, ClaimsSame, PodsSame, AddsSame, BoxLess, CtlSame, VipSame, StsSame
<1>2. ASSUME NEW b \in box, DelPodNetwork(b) PROVE Shape'
  <2>1. UNCHANGED <<vpc, claim, pod, sts, add, upd, dels, gc, vip, scales, starts>> /\ box' = box \ {b}
    BY <1>2 DEF DelPodNetwork, kubeVars, ctlVars, boundVars
  <2>2. b.ip \in IPs /\ b.node \in Nodes
    BY DEF BoxType, BoxRec
  <2>3. CloudType'
    BY <1>2, <2>1, <2>2 DEF DelPodNetwork, cooldownIP, CloudType
  <2>4. HistType'
    BY <1>2, <2>2, FaultHist DEF DelPodNetwork, HistType
  <2> QED BY <2>1, <2>3, <2>4, ShapeNext, ClaimsSame, PodsSame, AddsSame, BoxLess, CtlSame, VipSame, StsSame
<1>3. ASSUME NEW n \in Nodes, releasePool(n) PROVE Shape'
  <2>1. UNCHANGED <<claim, pod, sts, box, add, upd, dels, gc, vip, scales, starts>>
    BY <1>3 DEF releasePool, kubeVars, ctlVars, boundVars
  <2>2. keep[n] \subseteq IPs
    BY DEF CloudType
  <2>3. CloudType'
    BY <1>3, <2>2 DEF releasePool, CloudType
  <2>4. HistType'
    BY <1>3, <2>2, FaultHist DEF releasePool, HistType
  <2> QED BY <2>1, <2>3, <2>4, ShapeNext, ClaimsSame, PodsSame, AddsSame, BoxSame, CtlSame, VipSame, StsSame
<1>4. ASSUME NEW n \in Nodes, Crash(n) PROVE Shape'
  <2>1. UNCHANGED <<vpc, keep, claim, pod, sts, box, upd, dels, gc, vip, scales, starts, risky>> /\ Fail(n)
    BY <1>4 DEF Crash, Fail, cloudVars, kubeVars, ctlVars, boundVars
  <2>2. HistType'
    BY <1>4, <2>1, FaultHist DEF Crash, HistType
  <2> QED BY <2>1, <2>2, ShapeNext, CloudSame, ClaimsSame, PodsSame, FailType, BoxSame, CtlSame, VipSame, StsSame
<1> QED BY <1>1, <1>2, <1>3, <1>4

(* The vip-controller.                                                     *)
LEMMA RemoveType ==
  ASSUME ClaimsType, VipType, NEW p \in Pods, claim[p] # None, Remove(p)
  PROVE  ClaimsType' /\ VipType'
<1> DEFINE v == [pod |-> p, ip |-> claim[p].ip, mac |-> claim[p].mac]
<1>1. v \in Deleted
  BY DEF ClaimsType, ClaimType, Deleted
<1>2. vip'.queue = vip.queue \cup {v} /\ vip'.release = vip.release
      /\ vip' \in [queue : SUBSET Deleted, release : SUBSET Deleted]
  BY <1>1 DEF Remove, VipType
<1> HIDE DEF v
<1>3. IsFiniteSet(vip.queue \cup {v})
  BY FS_AddElement DEF VipType
<1> QED BY <1>2, <1>3 DEF Remove, ClaimsType, VipType

LEMMA DetachType ==
  ASSUME ClaimsType, VipType, HistType, UNCHANGED risky, NEW p \in Pods, markVPCIpClaimDetached(p)
  PROVE  ClaimsType' /\ VipType' /\ HistType'
<1>1. HistType'
  BY FaultHist DEF markVPCIpClaimDetached, HistType
<1>2. CASE UNCHANGED <<claim, vip>>
  BY <1>1, <1>2, ClaimsSame, VipSame
<1>3. CASE claim[p] # None /\ Remove(p)
  BY <1>1, <1>3, RemoveType
<1>4. CASE claim[p] # None /\ claim' = [claim EXCEPT ![p].st = "detached", ![p].due = FALSE] /\ UNCHANGED vip
  BY <1>1, <1>4, VipSame DEF ClaimsType, ClaimType
<1> QED BY <1>2, <1>3, <1>4 DEF markVPCIpClaimDetached

LEMMA ShapeSts ==
  ASSUME Shape, UpdateStep \/ DeleteStep
  PROVE  Shape'
<1> USE ShapeParts, StaticAssumption
<1>1. ASSUME onStsUpdate \/ GetReplicas \/ (\E p \in Pods : UpdateCheck(p)) \/ onStsDelete PROVE Shape'
  <2>1. UNCHANGED <<vpc, keep, claim, pod, sts, box, add, gc, vip, scales, starts, risky>>
    BY <1>1 DEF onStsUpdate, GetReplicas, UpdateCheck, onStsDelete, cloudVars, kubeVars, boundVars
  <2>2. HistType'
    BY <1>1, <2>1, FaultHist DEF onStsUpdate, GetReplicas, UpdateCheck, onStsDelete, HistType
  <2>3. CASE onStsUpdate
    <3>1. \/ \E T \in SUBSET Pods : upd' = [upd EXCEPT !.queued = FALSE, !.todo = T, !.listed = T # {}]
          \/ upd' = [upd EXCEPT !.queued = FALSE, !.stuck = TRUE]
      <4>1. AttachedClaims \in SUBSET Pods
        BY DEF AttachedClaims
      <4> QED BY <2>3, <4>1 DEF onStsUpdate
    <3>2. upd' \in UpdRec
      BY <3>1 DEF CtlType, UpdRec
    <3> QED BY <2>1, <2>2, <2>3, <3>2, ShapeNext, CloudSame, ClaimsSame, PodsSame, AddsSame, BoxSame, VipSame, StsSame
            DEF CtlType, onStsUpdate
  <2>4. ASSUME NEW p \in Pods, UpdateCheck(p) PROVE Shape'
    <3>1. PICK i \in Pods \cup {None} : upd' = [upd EXCEPT !.todo = @ \ {p}, !.item = i]
      <4>1. upd.item \in Pods \cup {None} /\ upd = [upd EXCEPT !.item = upd.item]
        BY DEF CtlType, UpdRec
      <4>2. CASE upd' = [upd EXCEPT !.todo = @ \ {p}]
        <5>1. upd' = [upd EXCEPT !.todo = @ \ {p}, !.item = upd.item]
          BY <4>2 DEF CtlType, UpdRec
        <5> QED BY <4>1, <5>1
      <4>3. CASE ~(upd' = [upd EXCEPT !.todo = @ \ {p}])
        BY <2>4, <4>3 DEF UpdateCheck
      <4> QED BY <4>2, <4>3
    <3> DEFINE T == upd.todo \ {p}
    <3>a. T \in SUBSET Pods /\ upd' = [upd EXCEPT !.todo = T, !.item = i] /\ upd \in UpdRec
      BY <3>1 DEF CtlType, UpdRec
    <3> HIDE DEF T
    <3>2. upd' \in UpdRec
      BY <3>1, <3>a DEF UpdRec
    <3> QED BY <2>1, <2>2, <2>4, <3>2, ShapeNext, CloudSame, ClaimsSame, PodsSame, AddsSame, BoxSame, VipSame, StsSame
            DEF CtlType, UpdateCheck
  <2>5. CASE onStsDelete
    <3>1. PICK T \in SUBSET Pods : dels' = [queued |-> FALSE, todo |-> T]
      <4>1. CASE dels' = [dels EXCEPT !.queued = FALSE]
        <5>1. dels' = [queued |-> FALSE, todo |-> dels.todo] /\ dels.todo \in SUBSET Pods
          BY <4>1 DEF CtlType
        <5> QED BY <5>1
      <4> DEFINE T == {p \in Pods : claim[p] # None}
      <4>2. T \in SUBSET Pods
        OBVIOUS
      <4>3. CASE dels' = [queued |-> FALSE, todo |-> T]
        BY <4>2, <4>3
      <4> QED BY <2>5, <4>1, <4>3 DEF onStsDelete
    <3>2. CtlType'
      BY <2>5, <3>1 DEF onStsDelete, CtlType
    <3> QED BY <2>1, <2>2, <3>2, ShapeNext, CloudSame, ClaimsSame, PodsSame, AddsSame, BoxSame, VipSame, StsSame
  <2>6. CASE GetReplicas
    <3> DEFINE T == IF sts.exists THEN {p \in upd.todo : AboveReplicas(p)} ELSE {}
    <3>1. upd \in UpdRec /\ T \in SUBSET Pods
      BY DEF CtlType, UpdRec
    <3>2. upd' = [upd EXCEPT !.listed = FALSE, !.todo = T]
      BY <2>6, <3>1 DEF GetReplicas, UpdRec
    <3> HIDE DEF T
    <3>3. upd' \in UpdRec
      BY <3>1, <3>2 DEF UpdRec
    <3> QED BY <2>1, <2>2, <2>6, <3>3, ShapeNext, CloudSame, ClaimsSame, PodsSame, AddsSame, BoxSame, VipSame, StsSame
            DEF CtlType, GetReplicas
  <2> QED BY <1>1, <2>3, <2>4, <2>5, <2>6
<1>2. CASE UpdateDetach
  <2>1. UNCHANGED <<vpc, keep, pod, sts, box, add, dels, gc, scales, starts, risky>> /\ upd.item \in Pods
        /\ upd' = [upd EXCEPT !.item = None] /\ markVPCIpClaimDetached(upd.item)
    BY <1>2 DEF UpdateDetach, cloudVars, boundVars, CtlType, UpdRec
  <2>2. CtlType'
    BY <2>1 DEF CtlType, UpdRec
  <2> QED BY <2>1, <2>2, DetachType, ShapeNext, CloudSame, PodsSame, AddsSame, BoxSame, StsSame
<1>3. ASSUME NEW p \in Pods, DeleteDetach(p) PROVE Shape'
  <2>1. UNCHANGED <<vpc, keep, pod, sts, box, add, upd, gc, scales, starts, risky>>
        /\ dels' = [dels EXCEPT !.todo = @ \ {p}] /\ markVPCIpClaimDetached(p)
    BY <1>3 DEF DeleteDetach, cloudVars, boundVars
  <2>2. CtlType'
    BY <2>1 DEF CtlType
  <2> QED BY <2>1, <2>2, DetachType, ShapeNext, CloudSame, PodsSame, AddsSame, BoxSame, StsSame
<1> QED BY <1>1, <1>2, <1>3 DEF UpdateStep, DeleteStep

LEMMA ShapeClean ==
  ASSUME Shape, CleanStep \/ \E p \in Pods : Expire(p)
  PROVE  Shape'
<1> USE ShapeParts, StaticAssumption
<1>1. CASE vipCheckAndClean
  <2>1. UNCHANGED <<vpc, keep, claim, pod, sts, box, add, upd, dels, vip, scales, starts, faults, lost, risky>>
    BY <1>1 DEF vipCheckAndClean, cloudVars, kubeVars, boundVars, history
  <2>2. DetachedPage \subseteq Pods
    BY DEF DetachedPage
  <2>3. CtlType'
    BY <1>1, <2>1, <2>2 DEF vipCheckAndClean, CtlType
  <2> QED BY <2>1, <2>3, ShapeNext, CloudSame, ClaimsSame, PodsSame, AddsSame, BoxSame, VipSame, StsSame, HistSame
<1>2. ASSUME NEW p \in Pods, CleanCheck(p) PROVE Shape'
  <2>1. UNCHANGED <<vpc, keep, claim, pod, sts, box, add, upd, dels, vip, scales, starts, risky>>
    BY <1>2 DEF CleanCheck, cloudVars, kubeVars, boundVars
  <2>2. HistType'
    BY <1>2, <2>1, FaultHist DEF CleanCheck, HistType
  <2>3. CtlType'
    BY <1>2, <2>1 DEF CleanCheck, CtlType
  <2> QED BY <2>1, <2>2, <2>3, ShapeNext, CloudSame, ClaimsSame, PodsSame, AddsSame, BoxSame, VipSame, StsSame
<1>3. CASE CleanDelete
  <2>1. UNCHANGED <<vpc, keep, pod, sts, box, add, upd, dels, scales, starts, risky>>
        /\ gc.item \in Pods /\ gc' = [gc EXCEPT !.item = None]
    BY <1>3 DEF CleanDelete, cloudVars, boundVars, CtlType
  <2>2. HistType'
    BY <1>3, <2>1, FaultHist DEF CleanDelete, HistType
  <2>3. CtlType'
    BY <2>1 DEF CtlType
  <2>4. ClaimsType' /\ VipType'
    <3>1. CASE UNCHANGED <<claim, vip>>
      BY <3>1, ClaimsSame, VipSame
    <3>2. CASE claim[gc.item] # None /\ Remove(gc.item)
      BY <2>1, <3>2, RemoveType
    <3>3. CASE claim[gc.item] # None /\ claim' = [claim EXCEPT ![gc.item].doomed = TRUE] /\ UNCHANGED vip
      BY <2>1, <3>3, VipSame DEF ClaimsType, ClaimType
    <3> QED BY <1>3, <3>1, <3>2, <3>3 DEF CleanDelete
  <2> QED BY <2>1, <2>2, <2>3, <2>4, ShapeNext, CloudSame, PodsSame, AddsSame, BoxSame, StsSame
<1>4. ASSUME NEW p \in Pods, Expire(p) PROVE Shape'
  <2>1. UNCHANGED <<vpc, keep, pod, sts, box, add, upd, dels, gc, vip, scales, starts, faults, lost, risky>>
    BY <1>4 DEF Expire, cloudVars, ctlVars, boundVars, history
  <2>2. claim[p] \in ClaimType /\ claim' = [claim EXCEPT ![p] = [claim[p] EXCEPT !.due = TRUE]]
    BY <1>4 DEF Expire, ClaimsType
  <2>3. [claim[p] EXCEPT !.due = TRUE] \in ClaimType
    BY <2>2 DEF ClaimType
  <2>4. ClaimsType'
    BY <2>2, <2>3 DEF ClaimsType
  <2> QED BY <2>1, <2>4, ShapeNext, CloudSame, PodsSame, AddsSame, BoxSame, CtlSame, VipSame, StsSame, HistSame
<1> QED BY <1>1, <1>2, <1>3, <1>4 DEF CleanStep

LEMMA ShapeVip ==
  ASSUME Shape, VipStep \/ CtlRestart
  PROVE  Shape'
<1> USE ShapeParts, StaticAssumption
<1>1. ASSUME NEW v \in Deleted, onVipDelete(v) PROVE Shape'
  <2>1. UNCHANGED <<vpc, keep, claim, pod, sts, box, add, upd, dels, gc, scales, starts>> /\ v \in vip.queue
    BY <1>1 DEF onVipDelete, cloudVars, kubeVars, boundVars
  <2>2. v.ip \in IPs
    BY DEF Deleted
  <2>3. HistType'
    BY <1>1, <2>2, FaultHist DEF onVipDelete, HistType
  <2>4. vip' \in [queue : SUBSET Deleted, release : SUBSET Deleted] /\ vip'.queue = vip.queue \ {v}
        /\ (vip'.release = vip.release \/ vip'.release = vip.release \cup {v})
    BY <1>1 DEF onVipDelete, VipType
  <2>5. IsFiniteSet(vip'.queue)
    <3>1. IsFiniteSet(vip.queue \ {v})
      BY FS_RemoveElement DEF VipType
    <3> QED BY <2>4, <3>1, Zenon
  <2>6. IsFiniteSet(vip'.release)
    <3>1. IsFiniteSet(vip.release) /\ IsFiniteSet(vip.release \cup {v})
      BY FS_AddElement DEF VipType
    <3> QED BY <2>4, <3>1, Zenon
  <2>7. VipType'
    BY <2>4, <2>5, <2>6, Zenon DEF VipType
  <2> QED BY <2>1, <2>3, <2>7, ShapeNext, CloudSame, ClaimsSame, PodsSame, AddsSame, BoxSame, CtlSame, StsSame
<1>2. ASSUME NEW v \in Deleted, releaseVPCIp(v) PROVE Shape'
  <2>1. UNCHANGED <<keep, claim, pod, sts, box, add, upd, dels, gc, scales, starts, risky>>
    BY <1>2 DEF releaseVPCIp, kubeVars, boundVars
  <2>2. v.ip \in IPs
    BY DEF Deleted
  <2>3. HistType'
    BY <1>2, <2>1, FaultHist DEF releaseVPCIp, HistType
  <2>4. vip' \in [queue : SUBSET Deleted, release : SUBSET Deleted] /\ vip'.queue = vip.queue
        /\ vip'.release = vip.release \ {v}
    BY <1>2 DEF releaseVPCIp, VipType
  <2>5. VipType'
    BY <2>4, FS_RemoveElement DEF VipType
  <2>6. CloudType'
    BY <1>2, <2>1, <2>2 DEF releaseVPCIp, CloudType
  <2> QED BY <2>1, <2>3, <2>5, <2>6, ShapeNext, ClaimsSame, PodsSame, AddsSame, BoxSame, CtlSame, StsSame
<1>3. CASE CtlRestart
  <2>1. UNCHANGED <<vpc, keep, claim, pod, sts, box, add, scales, starts, risky>>
    BY <1>3 DEF CtlRestart, cloudVars, kubeVars, boundVars
  <2>2. Cardinality(vip.queue \cup vip.release) \in Nat
    BY FS_Union, FS_CardinalityType DEF VipType
  <2>3. HistType'
    BY <1>3, <2>1, <2>2 DEF CtlRestart, HistType
  <2>4. CtlType'
    BY <1>3 DEF CtlRestart, CtlType, UpdRec, IdleWorker, NoUpdate
  <2>5. VipType'
    BY <1>3, FS_EmptySet DEF CtlRestart, VipType
  <2> QED BY <2>1, <2>3, <2>4, <2>5, ShapeNext, CloudSame, ClaimsSame, PodsSame, AddsSame, BoxSame, StsSame
<1> QED BY <1>1, <1>2, <1>3 DEF VipStep

LEMMA ShapeStep == Shape /\ [Next]_vars => Shape'
<1> SUFFICES ASSUME Shape, [Next]_vars PROVE Shape'
  OBVIOUS
<1>1. CASE UNCHANGED vars
  <2>1. UNCHANGED <<vpc, keep, claim, pod, sts, box, add, upd, dels, gc, vip, scales, starts, faults, lost, risky>>
    BY <1>1 DEF vars, cloudVars, kubeVars, ctlVars, boundVars, history
  <2> QED BY <2>1, ShapeParts, ShapeNext, CloudSame, ClaimsSame, PodsSame, AddsSame, BoxSame,
             CtlSame, VipSame, StsSame, HistSame
<1>2. ASSUME NEW n \in Nodes, AddStep(n) PROVE Shape'
  BY <1>2, ShapeAssign, ShapeCreate, ShapeDescribe, ShapeMove, ShapeMark, ShapeAnswer DEF AddStep
<1> QED BY <1>1, <1>2, ShapeUsers, ShapeFind, ShapeNode, ShapeSts, ShapeClean, ShapeVip DEF Next

LEMMA ShapeInit == Init => Shape
<1> SUFFICES ASSUME Init PROVE Shape
  OBVIOUS
<1> USE StaticAssumption DEF Init
<1>1. CloudType /\ ClaimsType
  BY DEF CloudType, ClaimsType
<1>2. PodsType
  BY DEF PodsType, PodShape, PodRec, NoPod
<1>3. AddsType
  BY DEF AddsType, AddShape, AddTickets, AddRec, AddPC, Idle
<1>4. BoxType /\ StsType /\ HistType
  BY DEF BoxType, BoxTickets, StsType, HistType
<1>5. CtlType
  BY DEF CtlType, UpdRec, IdleWorker, NoUpdate
<1>6. VipType
  BY FS_EmptySet DEF VipType
<1> QED BY <1>1, <1>2, <1>3, <1>4, <1>5, <1>6, ShapeParts

(* Every variable keeps its type, whatever fails.  What is behind it is    *)
(* that every value that ipamd or the vip-controller copies (the address   *)
(* and interface of a claim, the pod of an ADD) is there when it is used.  *)
THEOREM StaticTypes == Spec => []TypeOK
<1>1. Shape => TypeOK
  BY DEF Shape
<1> QED BY <1>1, ShapeInit, ShapeStep, PTL DEF Spec

----------------------------------------------------------------------------
(* One owner.                                                              *)

(* A step after which nobody uses an address who did not use it before,    *)
(* and the address is not free if it was not.                              *)
LEMMA Fewer ==
  ASSUME NEW ip \in IPs, OneUser(ip), Freed(ip),
         \A n \in Nodes : ip \in keep'[n] => ip \in keep[n],
         \A n \in Nodes : Makes(n, ip)' => Makes(n, ip),
         \A p \in Pods : Binds(p, ip)' => Binds(p, ip),
         \A p \in Pods : Boxed(p, ip)' => PodUse(p, ip),
         \A p \in Pods, n \in Nodes : Serves(n, p, ip)' => PodUse(p, ip),
         \A v \in vip'.queue : v.ip = ip => v \in vip.queue,
         \A v \in vip'.release : v.ip = ip => v \in vip.release,
         vpc'[ip] = None => vpc[ip] = None
  PROVE  OneUser(ip)' /\ Freed(ip)'
<1>1. \A n \in Nodes : NodeUse(n, ip)' => NodeUse(n, ip)
  BY DEF NodeUse
<1>2. \A p \in Pods : Queued(p, ip)' => PodUse(p, ip)
  BY DEF Queued, PodUse
<1>3. \A p \in Pods : PodUse(p, ip)' => PodUse(p, ip)
  BY <1>2 DEF PodUse
<1>4. Unused(ip) => Unused(ip)'
  BY <1>1, <1>3 DEF Unused
<1>5. OneUser(ip)'
  BY <1>1, <1>3 DEF OneUser
<1>6. Freed(ip)'
  BY <1>4 DEF Freed
<1> QED BY <1>5, <1>6

(* What the claims, sandboxes, ADDs and queues of an action leave alone.   *)
LEMMA BindsSame == ASSUME UNCHANGED claim
                   PROVE  \A p \in Pods, ip \in IPs : Binds(p, ip)' <=> Binds(p, ip)
BY DEF Binds
LEMMA BoxedSame == ASSUME box' \subseteq box
                   PROVE  \A p \in Pods, ip \in IPs : Boxed(p, ip)' => PodUse(p, ip)
BY DEF Boxed, PodUse
LEMMA AddsUseSame ==
  ASSUME UNCHANGED add
  PROVE  /\ \A n \in Nodes, ip \in IPs : Makes(n, ip)' <=> Makes(n, ip)
         /\ \A n \in Nodes, p \in Pods, ip \in IPs : Serves(n, p, ip)' => PodUse(p, ip)
BY DEF Makes, Serves, PodUse
LEMMA FailUses ==
  ASSUME AddsType, NEW n \in Nodes, Fail(n)
  PROVE  /\ \A m \in Nodes, ip \in IPs : Makes(m, ip)' => Makes(m, ip) /\ m # n
         /\ \A m \in Nodes, p \in Pods, ip \in IPs : Serves(m, p, ip)' => PodUse(p, ip)
<1>1. add' = [add EXCEPT ![n] = Idle] /\ Idle.pc = "idle"
  BY DEF Fail, Idle
<1> QED BY <1>1 DEF AddsType, Makes, Serves, PodUse, Serving
(* An ADD that goes on with the same address.                              *)
LEMMA GoUses ==
  ASSUME AddsType, NEW n \in Nodes, NEW a \in AddRec, add' = [add EXCEPT ![n] = a],
         a.pc \in Serving, add[n].pc \in Serving, a.ip = add[n].ip, a.pod = add[n].pod
  PROVE  /\ \A m \in Nodes, ip \in IPs : Makes(m, ip)' => Makes(m, ip)
         /\ \A m \in Nodes, p \in Pods, ip \in IPs : Serves(m, p, ip)' => PodUse(p, ip)
BY DEF AddsType, Makes, Serves, PodUse, Serving

LEMMA OwnSame ==
  ASSUME OwnInv, risky \subseteq risky', UNCHANGED <<vpc, keep, claim, box, add, vip>>
  PROVE  OwnInv'
BY Fewer, BindsSame, BoxedSame, AddsUseSame DEF OwnInv

(* Most of the steps: claims and pool stay, or an ADD ends.                *)
LEMMA OwnFewer ==
  ASSUME OwnInv, risky \subseteq risky',
         \A ip \in IPs \ risky' :
           /\ \A n \in Nodes : ip \in keep'[n] => ip \in keep[n]
           /\ \A n \in Nodes : Makes(n, ip)' => Makes(n, ip)
           /\ \A p \in Pods : Binds(p, ip)' => Binds(p, ip)
           /\ \A p \in Pods : Boxed(p, ip)' => PodUse(p, ip)
           /\ \A p \in Pods, n \in Nodes : Serves(n, p, ip)' => PodUse(p, ip)
           /\ \A v \in vip'.queue : v.ip = ip => v \in vip.queue
           /\ \A v \in vip'.release : v.ip = ip => v \in vip.release
           /\ vpc'[ip] = None => vpc[ip] = None
  PROVE  OwnInv'
BY Fewer DEF OwnInv

LEMMA OwnFind ==
  ASSUME Shape, OwnInv, NEW n \in Nodes, NEW p \in Pods, findStaticIp(n, p)
  PROVE  OwnInv'
<1> USE ShapeParts
<1>1. UNCHANGED <<vpc, keep, claim, box, vip, risky>> /\ add[n] = Idle
  BY DEF findStaticIp, cloudVars, kubeVars, ctlVars, history
<1>2. add' = [add EXCEPT ![n] = add'[n]]
      /\ \/ add'[n].pc = "assign"
         \/ add'[n].pc = "describe" /\ add'[n].pod = p /\ add'[n].ip = claim[p].ip /\ claim[p] # None
  BY DEF findStaticIp, AddsType, Idle
<1>3. \A m \in Nodes, ip \in IPs : Makes(m, ip)' => Makes(m, ip)
  BY <1>2 DEF Makes, AddsType
<1>4. \A m \in Nodes, q \in Pods, ip \in IPs : Serves(m, q, ip)' => PodUse(q, ip)
  BY <1>2 DEF Serves, PodUse, Serving, Binds, AddsType
<1> QED BY <1>1, <1>3, <1>4, OwnFewer, BindsSame, BoxedSame

LEMMA OwnDescribe ==
  ASSUME Shape, OwnInv, NEW n \in Nodes, uapiDescribeSecondaryIp(n) \/ uapiMoveSecondaryIPMac(n)
  PROVE  OwnInv'
<1> USE ShapeParts, StaticAssumption
<1>1. UNCHANGED <<keep, claim, box, vip>> /\ risky \subseteq risky' /\ add[n].pc \in {"describe", "move"}
  BY DEF uapiDescribeSecondaryIp, uapiMoveSecondaryIPMac, kubeVars, ctlVars
<1>2. add[n].ip \in IPs /\ add[n] \in AddRec
  BY <1>1, AddHas
<1>3. \A ip \in IPs : vpc'[ip] = None => vpc[ip] = None
  BY <1>2 DEF uapiDescribeSecondaryIp, uapiMoveSecondaryIPMac, CloudType
<1>4. /\ \A m \in Nodes, ip \in IPs : Makes(m, ip)' => Makes(m, ip)
      /\ \A m \in Nodes, p \in Pods, ip \in IPs : Serves(m, p, ip)' => PodUse(p, ip)
  <2>1. CASE Fail(n)
    BY <2>1, FailUses
  <2>2. CASE ~Fail(n)
    <3>1. Shape'
      BY ShapeDescribe, ShapeMove
    <3>2. add' \in [Nodes -> AddRec]
      BY <3>1 DEF Shape, TypeOK, AddRec, AddPC
    <3>3. add' = [add EXCEPT ![n] = add'[n]] /\ add'[n].pc \in {"move", "mark"}
          /\ add'[n].ip = add[n].ip /\ add'[n].pod = add[n].pod
      BY <1>2, <2>2 DEF uapiDescribeSecondaryIp, uapiMoveSecondaryIPMac, localAttach, Go, AddsType, AddRec
    <3> QED BY <1>1, <3>2, <3>3, GoUses DEF Serving
  <2> QED BY <2>1, <2>2
<1> QED BY <1>1, <1>3, <1>4, OwnFewer, BindsSame, BoxedSame

LEMMA OwnMark ==
  ASSUME Shape, OwnInv, NEW n \in Nodes, markVPCIpClaimAttached(n)
  PROVE  OwnInv'
<1> USE ShapeParts, StaticAssumption
<1> DEFINE p == add[n].pod
           a == [add[n] EXCEPT !.pc = "check"]
<1>1. UNCHANGED <<vpc, keep, box, vip, risky>> /\ add[n].pc = "mark"
  BY DEF markVPCIpClaimAttached, cloudVars, ctlVars
<1>2. add[n].ip \in IPs /\ p \in Pods /\ add[n] \in AddRec
  BY <1>1, AddHas
<1>3. claim[p] # None => claim[p] \in ClaimType
  BY <1>2 DEF ClaimsType
<1>4. \A q \in Pods : (claim'[q] # None => claim[q] # None) /\ claim'[q].ip = claim[q].ip
  <2>1. CASE claim[p] # None /\ claim' = [claim EXCEPT ![p] = Attached(@, n, pod[p] # NoPod)]
    <3>1. (pod[p] # NoPod) \in BOOLEAN
      OBVIOUS
    <3>2. Attached(claim[p], n, pod[p] # NoPod).ip = claim[p].ip
      BY <1>3, <2>1, <3>1, AttachedType
    <3>3. claim'[p] = Attached(claim[p], n, pod[p] # NoPod)
      BY <1>2, <2>1 DEF ClaimsType
    <3>4. \A q \in Pods \ {p} : claim'[q] = claim[q]
      BY <2>1 DEF ClaimsType
    <3> QED BY <2>1, <3>2, <3>3, <3>4
  <2> QED BY <2>1 DEF markVPCIpClaimAttached
<1>5. \A q \in Pods, ip \in IPs : Binds(q, ip)' => Binds(q, ip)
  BY <1>4 DEF Binds
<1>6. /\ \A m \in Nodes, ip \in IPs : Makes(m, ip)' => Makes(m, ip)
      /\ \A m \in Nodes, q \in Pods, ip \in IPs : Serves(m, q, ip)' => PodUse(q, ip)
  <2>1. CASE Fail(n)
    BY <2>1, FailUses
  <2>2. CASE ~Fail(n)
    <3>1. claim[p] # None
          /\ add' = [add EXCEPT ![n] = IF a.fresh THEN a ELSE VipToPodNetwork(a, claim'[p])]
      BY <2>2 DEF markVPCIpClaimAttached
    <3>2. /\ add'[n].pc = "check" /\ add'[n].pod = p
          /\ add'[n].ip = add[n].ip \/ add'[n].ip = claim'[p].ip
          /\ add' = [add EXCEPT ![n] = add'[n]]
      BY <1>2, <3>1 DEF VipToPodNetwork, AddsType, AddRec
    <3>3. \A m \in Nodes, ip \in IPs : Makes(m, ip)' => Makes(m, ip)
      BY <3>2 DEF Makes, AddsType
    <3>4. \A q \in Pods, ip \in IPs : Serves(n, q, ip)' => PodUse(q, ip)
      BY <1>1, <1>2, <1>4, <3>1, <3>2 DEF Serves, PodUse, Binds, Serving
    <3>5. \A m \in Nodes \ {n}, q \in Pods, ip \in IPs : Serves(m, q, ip)' => PodUse(q, ip)
      BY <3>2 DEF Serves, PodUse, AddsType
    <3> QED BY <3>3, <3>4, <3>5
  <2> QED BY <2>1, <2>2
<1> QED BY <1>1, <1>5, <1>6, OwnFewer, BoxedSame

LEMMA OwnAnswer ==
  ASSUME Shape, OwnInv, NEW n \in Nodes, answerAdd(n)
  PROVE  OwnInv'
<1> USE ShapeParts, StaticAssumption
<1>1. UNCHANGED <<keep, claim, vip>> /\ add[n].pc = "check" /\ Fail(n) /\ risky \subseteq risky'
  BY DEF answerAdd, checkIPConflict, Drop, kubeVars, ctlVars
<1>2. add[n].ip \in IPs /\ add[n].pod \in Pods
  BY <1>1, AddHas
<1>3. \A ip \in IPs \ risky' : vpc'[ip] = None => vpc[ip] = None
  BY <1>2 DEF answerAdd, checkIPConflict, Drop, CloudType
<1>4. \A p \in Pods, ip \in IPs : Boxed(p, ip)' => PodUse(p, ip)
  <2>1. CASE UNCHANGED box
    BY <2>1, BoxedSame
  <2>2. CASE box' = box \cup {[pod |-> add[n].pod, uid |-> add[n].uid, node |-> n, ip |-> add[n].ip]}
    <3>1. \A p \in Pods, ip \in IPs : Boxed(p, ip)' => Boxed(p, ip) \/ Serves(n, p, ip)
      BY <1>1, <2>2 DEF Boxed, Serves, Serving
    <3> QED BY <3>1 DEF PodUse
  <2> QED BY <2>1, <2>2 DEF answerAdd
<1> QED BY <1>1, <1>3, <1>4, FailUses, OwnFewer, BindsSame

(* A sandbox goes.  What DEL or a failed annotation may hand out while it  *)
(* is still bound counts as risky.                                         *)
LEMMA OwnDel ==
  ASSUME Shape, OwnInv, NEW b \in box, setAnnotationForCalicoPolicy(b) \/ DelPodNetwork(b)
  PROVE  OwnInv'
<1> USE ShapeParts, StaticAssumption
<1>1. UNCHANGED <<claim, add, vip>> /\ box' \subseteq box /\ risky \subseteq risky'
  BY DEF setAnnotationForCalicoPolicy, DelPodNetwork, Drop, kubeVars, ctlVars
<1>2. b.ip \in IPs /\ b.node \in Nodes /\ b.pod \in Pods
  BY DEF BoxType, BoxRec
<1>3. \A ip \in IPs \ risky' : vpc'[ip] = None => vpc[ip] = None
  BY <1>2 DEF setAnnotationForCalicoPolicy, DelPodNetwork, Drop, CloudType
<1>4. \A ip \in IPs \ risky', n \in Nodes : ip \in keep'[n] => ip \in keep[n]
  BY <1>2 DEF setAnnotationForCalicoPolicy, DelPodNetwork, staticIpPodExists, cooldownIP, CloudType
<1> QED BY <1>1, <1>3, <1>4, OwnFewer, BindsSame, BoxedSame, AddsUseSame

LEMMA OwnCrash ==
  ASSUME Shape, OwnInv, NEW n \in Nodes, Crash(n)
  PROVE  OwnInv'
<1>1. UNCHANGED <<vpc, keep, claim, box, vip, risky>> /\ Fail(n)
  BY DEF Crash, Fail, cloudVars, kubeVars, ctlVars
<1> QED BY <1>1, ShapeParts, FailUses, OwnFewer, BindsSame, BoxedSame

(* What it means that a node has an address.                               *)
LEMMA NodeAlone ==
  ASSUME Shape, NEW ip \in IPs, OneUser(ip), Freed(ip), NEW n \in Nodes, NodeUse(n, ip)
  PROVE  /\ \A m \in Nodes : NodeUse(m, ip) => m = n
         /\ \A p \in Pods : ~PodUse(p, ip)
         /\ \A v \in vip.queue \cup vip.release : v.ip # ip
         /\ vpc[ip] # None
<1>1. \A m \in Nodes : NodeUse(m, ip) => m = n
  BY DEF OneUser
<1>2. \A p \in Pods : ~PodUse(p, ip)
  BY DEF OneUser
<1>3. \A v \in vip.queue : v.pod \in Pods
  BY ShapeParts DEF VipType, Deleted
<1>4. \A v \in vip.queue : v.ip # ip
  BY <1>2, <1>3 DEF PodUse, Queued
<1>5. ~Unused(ip)
  BY DEF Unused
<1>6. \A v \in vip.release : v.ip # ip
  BY <1>5 DEF Freed
<1> QED BY <1>1, <1>2, <1>4, <1>5, <1>6 DEF Freed

(* Three ways to establish the invariant for an address: only a node has   *)
(* it, only a pod name has it, or nobody has it.                           *)
LEMMA ToNode ==
  ASSUME NEW ip \in IPs, NEW n \in Nodes,
         \A m \in Nodes : NodeUse(m, ip)' => m = n,
         ~(ip \in keep'[n] /\ Makes(n, ip)'),
         \A p \in Pods : ~PodUse(p, ip)',
         \A v \in vip'.queue \cup vip'.release : v.ip # ip,
         vpc'[ip] # None
  PROVE  OneUser(ip)' /\ Freed(ip)'
<1>1. \A m \in Nodes : m # n => ~(ip \in keep'[m] /\ Makes(m, ip)')
  BY DEF NodeUse
<1> QED BY <1>1 DEF OneUser, Freed

LEMMA ToPod ==
  ASSUME NEW ip \in IPs, NEW p \in Pods,
         \A n \in Nodes : ~NodeUse(n, ip)',
         \A q \in Pods : PodUse(q, ip)' => q = p,
         \A v \in vip'.release : v.ip # ip,
         \A v, w \in vip'.queue : v.ip = ip /\ w.ip = ip => v = w,
         \A v \in vip'.queue, q \in Pods : v.ip = ip => ~Binds(q, ip)',
         vpc'[ip] # None
  PROVE  OneUser(ip)' /\ Freed(ip)'
<1>1. \A n \in Nodes : ~(ip \in keep'[n] /\ Makes(n, ip)')
  BY DEF NodeUse
<1> QED BY <1>1 DEF OneUser, Freed

LEMMA ToNobody ==
  ASSUME NEW ip \in IPs, Unused(ip)',
         \A v \in vip'.queue : v.ip # ip,
         \A v, w \in vip'.release : v.ip = ip /\ w.ip = ip => v = w,
         vpc'[ip] = None => \A v \in vip'.release : v.ip # ip
  PROVE  OneUser(ip)' /\ Freed(ip)'
<1>1. \A n \in Nodes : ~(ip \in keep'[n] /\ Makes(n, ip)')
  BY DEF NodeUse, Unused
<1> QED BY <1>1 DEF OneUser, Freed, Unused

(* An address from the pool, from the VPC or from another node.            *)
LEMMA OwnAssign ==
  ASSUME Shape, OwnInv, NEW n \in Nodes, assignPodIP(n)
  PROVE  OwnInv'
<1> USE ShapeParts, StaticAssumption
<1>1. UNCHANGED <<claim, box, vip, risky>> /\ add[n].pc = "assign"
  BY DEF assignPodIP, kubeVars, ctlVars
<1>2. CASE Fail(n)
  <2>1. \A ip \in IPs : vpc'[ip] = None => vpc[ip] = None
    BY <1>2 DEF assignPodIP, CloudType, cloudVars
  <2>2. \A ip \in IPs, m \in Nodes : ip \in keep'[m] => ip \in keep[m]
    BY <1>2 DEF assignPodIP, CloudType, cloudVars
  <2> QED BY <1>1, <1>2, <2>1, <2>2, FailUses, OwnFewer, BindsSame, BoxedSame
<1>3. CASE ~Fail(n)
  <2>1. PICK i \in IPs :
          /\ add' = [add EXCEPT ![n].pc = "create", ![n].ip = i]
          /\ \/ i \in keep[n] /\ keep' = [keep EXCEPT ![n] = @ \ {i}] /\ UNCHANGED vpc
             \/ vpc[i] = None /\ vpc' = [vpc EXCEPT ![i] = n] /\ UNCHANGED keep
             \/ \E m \in Nodes \ {n} : /\ i \in keep[m] /\ vpc[i] = m
                                       /\ vpc' = [vpc EXCEPT ![i] = n]
                                       /\ keep' = [keep EXCEPT ![m] = @ \ {i}]
    BY <1>3 DEF assignPodIP, CloudType
  <2>2. add'[n].pc = "create" /\ add'[n].ip = i /\ \A m \in Nodes \ {n} : add'[m] = add[m]
    BY <2>1 DEF AddsType, AddRec
  <2>3. \A m \in Nodes, ip \in IPs : keep'[m] \subseteq keep[m] /\ (vpc'[ip] = None => vpc[ip] = None)
    BY <2>1 DEF CloudType
  <2>4. \A m \in Nodes, ip \in IPs : Makes(m, ip)' <=> Makes(m, ip) \/ (m = n /\ ip = i)
    BY <1>1, <2>2 DEF Makes
  <2>5. \A m \in Nodes, p \in Pods, ip \in IPs : Serves(m, p, ip)' <=> Serves(m, p, ip)
    BY <1>1, <2>2 DEF Serves, Serving
  <2>6. \A p \in Pods, ip \in IPs : PodUse(p, ip)' <=> PodUse(p, ip)
    BY <1>1, <2>5 DEF PodUse, Binds, Boxed, Queued
  <2>7. ASSUME NEW ip \in IPs \ risky, ip # i PROVE OneUser(ip)' /\ Freed(ip)'
    <3>1. \A p \in Pods : Boxed(p, ip)' => PodUse(p, ip)
      BY <1>1, BoxedSame
    <3>2. \A p \in Pods, m \in Nodes : Serves(m, p, ip)' => PodUse(p, ip)
      BY <2>5 DEF PodUse
    <3>3. \A p \in Pods : Binds(p, ip)' => Binds(p, ip)
      BY <1>1, BindsSame
    <3> QED BY <1>1, <2>3, <2>4, <2>7, <3>1, <3>2, <3>3, Fewer DEF OwnInv
  <2>8. ASSUME i \notin risky PROVE OneUser(i)' /\ Freed(i)'
    <3>1. OneUser(i) /\ Freed(i)
      BY <2>8 DEF OwnInv
    <3>2. vpc'[i] # None
      BY <2>1, <3>1, NodeAlone DEF CloudType, NodeUse
    <3>3. /\ \A p \in Pods : ~PodUse(p, i)
          /\ \A v \in vip.queue \cup vip.release : v.ip # i
          /\ \A m \in Nodes : ~(i \in keep'[m]) /\ ~Makes(m, i)
      <4>1. CASE vpc[i] = None /\ UNCHANGED keep
        <5>1. Unused(i) /\ \A v \in vip.release : v.ip # i
          BY <3>1, <4>1 DEF Freed
        <5>2. \A v \in vip.queue : v.pod \in Pods
          BY DEF VipType, Deleted
        <5>3. \A v \in vip.queue : v.ip # i
          BY <5>1, <5>2 DEF Unused, PodUse, Queued
        <5> QED BY <4>1, <5>1, <5>3 DEF Unused, NodeUse
      <4>2. ASSUME NEW m \in Nodes, i \in keep[m], keep' = [keep EXCEPT ![m] = @ \ {i}]
            PROVE  /\ \A p \in Pods : ~PodUse(p, i)
                   /\ \A v \in vip.queue \cup vip.release : v.ip # i
                   /\ \A k \in Nodes : ~(i \in keep'[k]) /\ ~Makes(k, i)
        <5>1. NodeUse(m, i) /\ ~Makes(m, i)
          BY <3>1, <4>2 DEF NodeUse, OneUser
        <5>2. /\ \A k \in Nodes : NodeUse(k, i) => k = m
              /\ \A p \in Pods : ~PodUse(p, i)
              /\ \A v \in vip.queue \cup vip.release : v.ip # i
          BY <3>1, <5>1, NodeAlone
        <5>3. \A k \in Nodes : ~(i \in keep'[k])
          BY <4>2, <5>2 DEF NodeUse, CloudType
        <5> QED BY <5>1, <5>2, <5>3 DEF NodeUse
      <4> QED BY <2>1, <4>1, <4>2
    <3>4. \A m \in Nodes : NodeUse(m, i)' => m = n
      BY <2>4, <3>3 DEF NodeUse
    <3> QED BY <1>1, <2>6, <3>2, <3>3, <3>4, ToNode
  <2> QED BY <1>1, <2>7, <2>8 DEF OwnInv
<1> QED BY <1>2, <1>3

(* The address becomes the pod's, goes back into the pool, or is nobody's. *)
LEMMA OwnCreate ==
  ASSUME Shape, OwnInv, NEW n \in Nodes, createVpcIpClaim(n)
  PROVE  OwnInv'
<1> USE ShapeParts, StaticAssumption
<1> PICK p : p = add[n].pod
  OBVIOUS
<1> PICK i : i = add[n].ip
  OBVIOUS
<1> DEFINE c == PodNetworkToVip(i, n)
<1>1. UNCHANGED <<vpc, box, vip, risky>> /\ add[n].pc = "create"
  BY DEF createVpcIpClaim, ctlVars
<1>2. i \in IPs /\ p \in Pods /\ Makes(n, i)
  BY <1>1, AddHas DEF Makes
<1>3. c \in ClaimType /\ c # None /\ c.ip = i
  BY <1>2, CreatedType DEF PodNetworkToVip
<1>4. /\ claim' = claim \/ (claim[p] = None /\ claim' = [claim EXCEPT ![p] = c])
      /\ keep' = keep \/ (claim' = claim /\ Fail(n) /\ keep' = [keep EXCEPT ![n] = @ \cup {i}])
      /\ \/ Fail(n)
         \/ /\ add' = [add EXCEPT ![n].pc = "describe", ![n].mac = n]
            /\ claim' = [claim EXCEPT ![p] = c] /\ keep' = keep
  BY DEF createVpcIpClaim, Definite
<1> HIDE DEF c
<1>5. /\ \A m \in Nodes \ {n} : add'[m] = add[m]
      /\ \/ add'[n].pc = "idle"
         \/ add'[n].pc = "describe" /\ add'[n].pod = p /\ add'[n].ip = i /\ Binds(p, i)'
  BY <1>2, <1>3, <1>4 DEF Fail, Idle, AddsType, AddRec, Binds, ClaimsType
<1>6. \A m \in Nodes, ip \in IPs : Makes(m, ip)' <=> (Makes(m, ip) /\ m # n)
  BY <1>5 DEF Makes
<1>7. \A m \in Nodes, q \in Pods, ip \in IPs :
         Serves(m, q, ip)' => Serves(m, q, ip) \/ (m = n /\ q = p /\ ip = i /\ Binds(p, i)')
  BY <1>5 DEF Serves, Serving
<1>8. \A q \in Pods, ip \in IPs : Binds(q, ip)' => Binds(q, ip) \/ (q = p /\ ip = i)
  BY <1>2, <1>3, <1>4 DEF Binds, ClaimsType
<1>9. \A q \in Pods, ip \in IPs : (Boxed(q, ip)' <=> Boxed(q, ip)) /\ (Queued(q, ip)' <=> Queued(q, ip))
  BY <1>1 DEF Boxed, Queued
<1>10. ASSUME NEW ip \in IPs \ risky, ip # i PROVE OneUser(ip)' /\ Freed(ip)'
  <2>1. \A m \in Nodes : ip \in keep'[m] => ip \in keep[m]
    BY <1>4, <1>10 DEF CloudType
  <2>2. \A q \in Pods, m \in Nodes : Serves(m, q, ip)' => PodUse(q, ip)
    BY <1>7, <1>10 DEF PodUse
  <2>3. \A q \in Pods : Boxed(q, ip)' => PodUse(q, ip)
    BY <1>9 DEF PodUse
  <2> QED BY <1>1, <1>6, <1>8, <1>10, <2>1, <2>2, <2>3, Fewer DEF OwnInv
<1>11. ASSUME i \notin risky PROVE OneUser(i)' /\ Freed(i)'
  <2>1. OneUser(i) /\ Freed(i) /\ NodeUse(n, i)
    BY <1>2, <1>11 DEF OwnInv, NodeUse
  <2>2. /\ \A m \in Nodes : NodeUse(m, i) => m = n
        /\ \A q \in Pods : ~PodUse(q, i)
        /\ \A v \in vip.queue \cup vip.release : v.ip # i
        /\ vpc[i] # None
    BY <1>2, <2>1, NodeAlone
  <2>3. i \notin keep[n]
    BY <1>2, <2>1 DEF OneUser
  <2>4. CASE Binds(p, i)'
    <3>1. claim' # claim
      BY <1>2, <2>2, <2>4 DEF Binds, PodUse
    <3>2. keep' = keep
      BY <1>4, <3>1
    <3>3. \A m \in Nodes : ~NodeUse(m, i)'
      BY <1>2, <1>6, <2>2, <2>3, <3>2 DEF NodeUse
    <3>4. \A q \in Pods : PodUse(q, i)' => q = p
      BY <1>2, <1>7, <1>8, <1>9, <2>2 DEF PodUse
    <3> QED BY <1>1, <1>2, <2>2, <3>3, <3>4, ToPod
  <2>5. CASE ~Binds(p, i)'
    <3>1. \A q \in Pods : ~PodUse(q, i)'
      BY <1>2, <1>7, <1>8, <1>9, <2>2, <2>5 DEF PodUse
    <3>2. \A m \in Nodes : i \in keep'[m] => m = n
      BY <1>2, <1>4, <2>2 DEF NodeUse, CloudType
    <3>3. \A m \in Nodes : ~Makes(m, i)'
      BY <1>2, <1>6, <2>2 DEF NodeUse
    <3> QED BY <1>1, <1>2, <2>2, <3>1, <3>2, <3>3, ToNode DEF NodeUse
  <2> QED BY <2>4, <2>5
<1> QED BY <1>1, <1>10, <1>11 DEF OwnInv

(* Back to the VPC.                                                        *)
LEMMA OwnReleasePool ==
  ASSUME Shape, OwnInv, NEW n \in Nodes, releasePool(n)
  PROVE  OwnInv'
<1> USE ShapeParts, StaticAssumption
<1>1. UNCHANGED <<claim, box, add, vip>> /\ risky \subseteq risky'
  BY DEF releasePool, kubeVars, ctlVars
<1>2. PICK i \in keep[n] :
        /\ vpc' = [vpc EXCEPT ![i] = IF @ = n THEN None ELSE @]
        /\ \/ keep' = [keep EXCEPT ![n] = @ \ {i}] /\ UNCHANGED risky
           \/ risky' = risky \cup {i} /\ UNCHANGED keep
  BY DEF releasePool
<1>3. i \in IPs
  BY DEF CloudType
<1>4. ASSUME NEW ip \in IPs \ risky', ip # i PROVE OneUser(ip)' /\ Freed(ip)'
  <2>1. (vpc'[ip] = None => vpc[ip] = None) /\ \A m \in Nodes : ip \in keep'[m] => ip \in keep[m]
    BY <1>2, <1>4 DEF CloudType
  <2> QED BY <1>1, <1>4, <2>1, Fewer, BindsSame, BoxedSame, AddsUseSame DEF OwnInv
<1>5. ASSUME i \notin risky' PROVE OneUser(i)' /\ Freed(i)'
  <2>1. OneUser(i) /\ Freed(i) /\ NodeUse(n, i)
    BY <1>1, <1>3, <1>5 DEF OwnInv, NodeUse
  <2>2. /\ \A m \in Nodes : NodeUse(m, i) => m = n
        /\ \A q \in Pods : ~PodUse(q, i)
        /\ \A v \in vip.queue \cup vip.release : v.ip # i
    BY <1>3, <2>1, NodeAlone
  <2>3. \A m \in Nodes : ~(i \in keep'[m])
    BY <1>2, <1>5, <2>2 DEF NodeUse, CloudType
  <2>4. \A m \in Nodes : ~Makes(m, i)'
    BY <1>1, <1>2, <2>1, <2>2 DEF Makes, NodeUse, OneUser
  <2>5. \A q \in Pods : ~PodUse(q, i)'
    BY <1>1, <2>2 DEF PodUse, Binds, Boxed, Queued, Serves
  <2>6. Unused(i)'
    BY <2>3, <2>4, <2>5 DEF Unused, NodeUse
  <2> QED BY <1>1, <1>3, <2>2, <2>6, ToNobody
<1> QED BY <1>4, <1>5 DEF OwnInv

(* A claim goes, and the vip-controller has the address to release.        *)
LEMMA OwnRemove ==
  ASSUME Shape, OwnInv, NEW p \in Pods, claim[p] # None, Remove(p),
         UNCHANGED <<vpc, keep, box, add, risky>>
  PROVE  OwnInv'
<1> USE ShapeParts, StaticAssumption
<1> PICK i : i = claim[p].ip
  OBVIOUS
<1> PICK d : d = [pod |-> p, ip |-> claim[p].ip, mac |-> claim[p].mac]
  OBVIOUS
<1>1. i \in IPs /\ d.pod = p /\ d.ip = i /\ Binds(p, i)
  BY DEF ClaimsType, ClaimType, Binds
<1>2. vip'.queue = vip.queue \cup {d} /\ vip'.release = vip.release
  BY DEF Remove, VipType
<1>3. \A q \in Pods, ip \in IPs : Binds(q, ip)' <=> (Binds(q, ip) /\ q # p)
  BY DEF Remove, Binds, ClaimsType
<1>4. \A n \in Nodes, ip \in IPs : NodeUse(n, ip)' <=> NodeUse(n, ip)
  BY DEF NodeUse, Makes
<1>5. \A q \in Pods, ip \in IPs : PodUse(q, ip)' => PodUse(q, ip) \/ (q = p /\ ip = i)
  <2>1. \A q \in Pods, ip \in IPs : Queued(q, ip)' => Queued(q, ip) \/ (q = p /\ ip = i)
    BY <1>1, <1>2 DEF Queued
  <2>2. \A q \in Pods, ip \in IPs : (Boxed(q, ip)' <=> Boxed(q, ip))
          /\ \A n \in Nodes : (Serves(n, q, ip)' <=> Serves(n, q, ip))
    BY DEF Boxed, Serves
  <2> QED BY <1>3, <2>1, <2>2 DEF PodUse
<1>6. ASSUME NEW ip \in IPs \ risky, ip # i PROVE OneUser(ip)' /\ Freed(ip)'
  <2>1. \A v \in vip'.queue : v.ip = ip => v \in vip.queue
    BY <1>1, <1>2, <1>6
  <2> QED BY <1>2, <1>3, <1>6, <2>1, Fewer, BoxedSame, AddsUseSame DEF OwnInv
<1>7. ASSUME i \notin risky PROVE OneUser(i)' /\ Freed(i)'
  <2>1. OneUser(i) /\ Freed(i) /\ PodUse(p, i)
    BY <1>1, <1>7 DEF OwnInv, PodUse
  <2>2. (\A n \in Nodes : ~NodeUse(n, i)) /\ (\A q \in Pods : PodUse(q, i) => q = p) /\ ~Unused(i)
    BY <2>1 DEF OneUser, Unused
  <2>3. vpc[i] # None /\ \A v \in vip.release : v.ip # i
    BY <2>1, <2>2 DEF Freed
  <2>4. \A v \in vip.queue : v.ip # i
    BY <1>1, <2>1 DEF Freed
  <2>5. \A q \in Pods : PodUse(q, i)' => q = p
    BY <1>1, <1>5, <2>2
  <2>6. \A q \in Pods : ~Binds(q, i)'
    BY <1>1, <1>3, <2>2 DEF PodUse
  <2>7. \A v, w \in vip'.queue : v.ip = i /\ w.ip = i => v = w
    BY <1>2, <2>4
  <2> QED BY <1>1, <1>2, <1>4, <2>2, <2>3, <2>5, <2>6, <2>7, ToPod
<1> QED BY <1>6, <1>7 DEF OwnInv

(* A change of a claim that keeps its address.                             *)
LEMMA OwnRelabel ==
  ASSUME Shape, OwnInv, NEW p \in Pods, NEW c, claim[p] # None, c.ip = claim[p].ip,
         claim' = [claim EXCEPT ![p] = c], UNCHANGED <<vpc, keep, box, add, vip, risky>>
  PROVE  OwnInv'
<1>1. \A q \in Pods, ip \in IPs : Binds(q, ip)' => Binds(q, ip)
  BY ShapeParts DEF Binds, ClaimsType
<1> QED BY <1>1, OwnFewer, BoxedSame, AddsUseSame

LEMMA OwnDetach ==
  ASSUME Shape, OwnInv, NEW p \in Pods, markVPCIpClaimDetached(p),
         UNCHANGED <<vpc, keep, box, add, risky>>
  PROVE  OwnInv'
<1>1. CASE UNCHANGED <<claim, vip>>
  BY <1>1, OwnSame
<1>2. CASE claim[p] # None /\ Remove(p)
  BY <1>2, OwnRemove
<1>3. CASE claim[p] # None /\ claim' = [claim EXCEPT ![p].st = "detached", ![p].due = FALSE] /\ UNCHANGED vip
  <2> DEFINE c == [claim[p] EXCEPT !.st = "detached", !.due = FALSE]
  <2>1. claim' = [claim EXCEPT ![p] = c] /\ c.ip = claim[p].ip
    BY <1>3, ShapeParts DEF ClaimsType, ClaimType
  <2> QED BY <1>3, <2>1, OwnRelabel
<1> QED BY <1>1, <1>2, <1>3 DEF markVPCIpClaimDetached

LEMMA OwnController ==
  ASSUME Shape, OwnInv, UpdateStep \/ DeleteStep \/ CleanStep \/ \E p \in Pods : Expire(p)
  PROVE  OwnInv'
<1> USE ShapeParts
<1>1. CASE onStsUpdate \/ GetReplicas \/ (\E p \in Pods : UpdateCheck(p)) \/ onStsDelete \/ vipCheckAndClean
           \/ \E p \in Pods : CleanCheck(p)
  <2>1. UNCHANGED <<vpc, keep, claim, box, add, vip, risky>>
    BY <1>1 DEF onStsUpdate, GetReplicas, UpdateCheck, onStsDelete, vipCheckAndClean, CleanCheck, cloudVars, kubeVars, history
  <2> QED BY <2>1, OwnSame
<1>2. CASE UpdateDetach
  <2>1. upd.item \in Pods /\ markVPCIpClaimDetached(upd.item) /\ UNCHANGED <<vpc, keep, box, add, risky>>
    BY <1>2 DEF UpdateDetach, cloudVars, CtlType, UpdRec
  <2> QED BY <2>1, OwnDetach
<1>3. ASSUME NEW p \in Pods, DeleteDetach(p) PROVE OwnInv'
  BY <1>3, OwnDetach DEF DeleteDetach, cloudVars
<1>4. CASE CleanDelete
  <2>1. gc.item \in Pods /\ UNCHANGED <<vpc, keep, box, add, risky>>
    BY <1>4 DEF CleanDelete, cloudVars, CtlType
  <2>2. CASE UNCHANGED <<claim, vip>>
    BY <2>1, <2>2, OwnSame
  <2>3. CASE claim[gc.item] # None /\ Remove(gc.item)
    BY <2>1, <2>3, OwnRemove
  <2>4. CASE claim[gc.item] # None /\ claim' = [claim EXCEPT ![gc.item].doomed = TRUE] /\ UNCHANGED vip
    <3> DEFINE c == [claim[gc.item] EXCEPT !.doomed = TRUE]
    <3>1. claim' = [claim EXCEPT ![gc.item] = c] /\ c.ip = claim[gc.item].ip
      BY <2>1, <2>4 DEF ClaimsType, ClaimType
    <3> HIDE DEF c
    <3> QED BY <2>1, <2>4, <3>1, OwnRelabel
  <2> QED BY <1>4, <2>2, <2>3, <2>4 DEF CleanDelete
<1>5. ASSUME NEW p \in Pods, Expire(p) PROVE OwnInv'
  <2>1. claim[p] # None /\ claim' = [claim EXCEPT ![p].due = TRUE] /\ UNCHANGED <<vpc, keep, box, add, vip, risky>>
    BY <1>5 DEF Expire, cloudVars, ctlVars, history
  <2> DEFINE c == [claim[p] EXCEPT !.due = TRUE]
  <2>2. claim' = [claim EXCEPT ![p] = c] /\ c.ip = claim[p].ip
    BY <2>1 DEF ClaimsType, ClaimType
  <2> HIDE DEF c
  <2> QED BY <2>1, <2>2, OwnRelabel
<1> QED BY <1>1, <1>2, <1>3, <1>4, <1>5 DEF UpdateStep, DeleteStep, CleanStep

(* The vip-controller goes on with a release only if no sandbox has the    *)
(* address and no ADD is about to use it, or the address is risky.         *)
LEMMA OwnVipDelete ==
  ASSUME Shape, OwnInv, NEW d \in Deleted, onVipDelete(d)
  PROVE  OwnInv'
<1> USE ShapeParts, StaticAssumption
<1>1. UNCHANGED <<vpc, keep, claim, box, add>> /\ d \in vip.queue /\ risky \subseteq risky'
  BY DEF onVipDelete, cloudVars, kubeVars
<1>2. d.ip \in IPs /\ d.pod \in Pods
  BY DEF Deleted
<1>3. vip'.queue = vip.queue \ {d}
  BY DEF onVipDelete, VipType
<1>4. CASE vip'.release = vip.release
  BY <1>1, <1>3, <1>4, OwnFewer, BindsSame, BoxedSame, AddsUseSame
<1>5. CASE vip'.release # vip.release
  <2>1. vip'.release = vip.release \cup {d} /\ ensureStaticIpPodNotRunning(d.pod)
        /\ risky' = (IF pod[d.pod].phase = "Pending" \/ (pod[d.pod] = NoPod /\ InSandbox(d.ip))
                     THEN risky \cup {d.ip} ELSE risky)
    BY <1>5 DEF onVipDelete, VipType
  <2>2. ASSUME NEW ip \in IPs \ risky', ip # d.ip PROVE OneUser(ip)' /\ Freed(ip)'
    <3>1. \A v \in vip'.release : v.ip = ip => v \in vip.release
      BY <2>1, <2>2
    <3> QED BY <1>1, <1>3, <2>2, <3>1, Fewer, BindsSame, BoxedSame, AddsUseSame DEF OwnInv
  <2>3. ASSUME d.ip \notin risky' PROVE OneUser(d.ip)' /\ Freed(d.ip)'
    <3>1. OneUser(d.ip) /\ Freed(d.ip)
      BY <1>1, <1>2, <2>3 DEF OwnInv
    <3>2. pod[d.pod] = NoPod /\ ~InSandbox(d.ip)
      BY <1>2, <2>1, <2>3 DEF ensureStaticIpPodNotRunning, PodsType, PodShape, PodRec
    <3>3. PodUse(d.pod, d.ip)
      BY <1>1 DEF PodUse, Queued
    <3>4. (\A n \in Nodes : ~NodeUse(n, d.ip)) /\ ~Unused(d.ip)
      BY <1>2, <3>1, <3>3 DEF OneUser, Unused
    <3>5. vpc[d.ip] # None /\ \A v \in vip.release : v.ip # d.ip
      BY <3>1, <3>4 DEF Freed
    <3>6. /\ \A p \in Pods : ~Binds(p, d.ip)
          /\ \A v \in vip.queue : v.ip = d.ip => v = d
      BY <1>1, <3>1 DEF Freed
    <3>7. \A p \in Pods : ~PodUse(p, d.ip)'
      <4>1. \A p \in Pods : ~Queued(p, d.ip)'
        BY <1>3, <3>6 DEF Queued
      <4>2. \A p \in Pods : ~Boxed(p, d.ip)' /\ ~Binds(p, d.ip)'
        BY <1>1, <3>2, <3>6 DEF InSandbox, Boxed, Binds
      <4>3. \A p \in Pods, n \in Nodes : ~Serves(n, p, d.ip)'
        BY <1>1, <3>2 DEF InSandbox, Serves
      <4> QED BY <4>1, <4>2, <4>3 DEF PodUse
    <3>8. Unused(d.ip)'
      BY <1>1, <3>4, <3>7 DEF Unused, NodeUse, Makes
    <3>9. \A v \in vip'.queue : v.ip # d.ip
      BY <1>3, <3>6
    <3>10. \A v, w \in vip'.release : v.ip = d.ip /\ w.ip = d.ip => v = w
      BY <2>1, <3>5
    <3> QED BY <1>1, <1>2, <3>5, <3>8, <3>9, <3>10, ToNobody
  <2> QED BY <2>2, <2>3 DEF OwnInv
<1> QED BY <1>4, <1>5

LEMMA OwnRelease ==
  ASSUME Shape, OwnInv, NEW d \in Deleted, releaseVPCIp(d)
  PROVE  OwnInv'
<1> USE ShapeParts, StaticAssumption
<1>1. UNCHANGED <<keep, claim, box, add, risky>> /\ d \in vip.release
  BY DEF releaseVPCIp, kubeVars
<1>2. d.ip \in IPs
  BY DEF Deleted
<1>3. vip'.queue = vip.queue /\ vip'.release = vip.release \ {d}
  BY DEF releaseVPCIp, VipType
<1>4. \A ip \in IPs : ip # d.ip => vpc'[ip] = vpc[ip]
  BY <1>2 DEF releaseVPCIp, CloudType
<1>5. ASSUME NEW ip \in IPs \ risky, ip # d.ip PROVE OneUser(ip)' /\ Freed(ip)'
  BY <1>1, <1>3, <1>4, <1>5, Fewer, BindsSame, BoxedSame, AddsUseSame DEF OwnInv
<1>6. ASSUME d.ip \notin risky PROVE OneUser(d.ip)' /\ Freed(d.ip)'
  <2>1. OneUser(d.ip) /\ Freed(d.ip)
    BY <1>2, <1>6 DEF OwnInv
  <2>2. Unused(d.ip)
    BY <1>1, <2>1 DEF Freed
  <2>3. \A v \in vip.queue \cup vip.release : v.ip = d.ip => v = d
    BY <1>1, <2>1 DEF Freed
  <2>4. \A v \in vip.queue : v.pod \in Pods
    BY DEF VipType, Deleted
  <2>5. \A v \in vip.queue : v.ip # d.ip
    BY <2>2, <2>4 DEF Unused, PodUse, Queued
  <2>6. Unused(d.ip)'
    BY <1>1, <1>3, <2>2 DEF Unused, NodeUse, Makes, PodUse, Binds, Boxed, Queued, Serves
  <2>7. \A v \in vip'.release : v.ip # d.ip
    BY <1>3, <2>3
  <2> QED BY <1>2, <1>3, <2>5, <2>6, <2>7, ToNobody
<1> QED BY <1>1, <1>5, <1>6 DEF OwnInv

LEMMA OwnUsers ==
  ASSUME Shape, OwnInv,
         \/ \E r \in 0..MaxReplicas : ScaleSts(r)
         \/ DeleteSts \/ CreateSts
         \/ \E p \in Pods, n \in Nodes : CreatePod(p, n)
         \/ \E p \in Pods : RunPod(p) \/ DeletePod(p) \/ ForceDeletePod(p)
         \/ CtlRestart
  PROVE  OwnInv'
<1>1. UNCHANGED <<vpc, keep, claim, box, add, risky>>
  BY DEF ScaleSts, DeleteSts, CreateSts, CreatePod, RunPod, DeletePod, ForceDeletePod, CtlRestart,
         cloudVars, kubeVars, history
<1>2. CASE CtlRestart
  <2>1. vip'.queue = {} /\ vip'.release = {}
    BY <1>2 DEF CtlRestart
  <2> QED BY <1>1, <2>1, OwnFewer, BindsSame, BoxedSame, AddsUseSame
<1>3. CASE ~CtlRestart
  <2>1. UNCHANGED vip
    BY <1>3 DEF ScaleSts, DeleteSts, CreateSts, CreatePod, RunPod, DeletePod, ForceDeletePod, ctlVars
  <2> QED BY <1>1, <2>1, OwnSame
<1> QED BY <1>2, <1>3

LEMMA OwnStep == Shape /\ OwnInv /\ [Next]_vars => OwnInv'
<1> SUFFICES ASSUME Shape, OwnInv, [Next]_vars PROVE OwnInv'
  OBVIOUS
<1>1. CASE UNCHANGED vars
  BY <1>1, OwnSame DEF vars, cloudVars, kubeVars, ctlVars, history
<1>2. ASSUME NEW n \in Nodes, AddStep(n) PROVE OwnInv'
  BY <1>2, OwnAssign, OwnCreate, OwnDescribe, OwnMark, OwnAnswer DEF AddStep
<1>3. CASE VipStep
  BY <1>3, OwnVipDelete, OwnRelease DEF VipStep
<1> QED BY <1>1, <1>2, <1>3, OwnUsers, OwnFind, OwnDel, OwnReleasePool, OwnCrash, OwnController DEF Next

LEMMA OwnInit == Init => OwnInv
<1> SUFFICES ASSUME Init, NEW ip \in IPs PROVE OneUser(ip) /\ Freed(ip)
  BY DEF OwnInv
<1>1. Unused(ip) /\ \A n \in Nodes : ip \notin keep[n]
  BY DEF Init, Idle, Unused, NodeUse, Makes, PodUse, Binds, Boxed, Queued, Serves, Serving
<1> QED BY <1>1 DEF Init, OneUser, Freed, Unused

(* Whoever may hand out or use an address is alone with it, on all nodes   *)
(* together and through every failure of ipamd, of the vip-controller and  *)
(* of the calls they make, unless a step listed in risky has touched it.   *)
THEOREM OneOwner == Spec => []Exclusive
<1>1. Shape /\ OwnInv => Exclusive
  <2> SUFFICES ASSUME Shape, OwnInv, NEW ip \in IPs \ risky PROVE Cardinality(Owners(ip)) <= 1
    BY DEF Exclusive
  <2>1. OneUser(ip)
    BY DEF OwnInv
  <2>2. \A b \in box : b.pod \in Pods
    BY ShapeParts DEF BoxType, BoxRec
  <2>3. \A x \in Owners(ip) : (x \in Nodes /\ NodeUse(x, ip)) \/ (x \in Pods /\ PodUse(x, ip))
    BY <2>2 DEF Owners, NodeUse, Makes, PodUse, Binds, Boxed
  <2>4. \A x, y \in Owners(ip) : x = y
    BY <2>1, <2>3 DEF OneUser
  <2>5. CASE Owners(ip) = {}
    BY <2>5, FS_EmptySet
  <2>6. CASE Owners(ip) # {}
    <3>1. PICK x \in Owners(ip) : Owners(ip) = {x}
      BY <2>4, <2>6
    <3>2. Cardinality({x}) = 1
      BY FS_Singleton
    <3> QED BY <3>1, <3>2
  <2> QED BY <2>5, <2>6
<1> QED BY <1>1, ShapeInit, OwnInit, ShapeStep, OwnStep, PTL DEF Spec

----------------------------------------------------------------------------
(* The address of a running pod.                                           *)

LEMMA ReachKept ==
  ASSUME Reach, box' \subseteq box, risky \subseteq risky',
         \A b \in box : pod'[b.pod].uid = b.uid => pod[b.pod].uid = b.uid,
         \A b \in box' : b.ip \notin risky' /\ pod[b.pod].uid = b.uid => vpc'[b.ip] = vpc[b.ip] \/ vpc'[b.ip] = b.node
  PROVE  Reach'
BY DEF Reach

(* A sandbox makes its pod name a user of the address.                     *)
LEMMA SandboxUse ==
  ASSUME Shape, NEW b \in box, OwnInv, b.ip \notin risky
  PROVE  /\ b.ip \in IPs /\ b.pod \in Pods /\ PodUse(b.pod, b.ip)
         /\ OneUser(b.ip) /\ Freed(b.ip) /\ ~Unused(b.ip)
         /\ vpc[b.ip] # None
         /\ \A n \in Nodes : b.ip \notin keep[n]
         /\ \A v \in vip.release : v.ip # b.ip
<1>1. b.ip \in IPs /\ b.pod \in Pods
  BY ShapeParts DEF BoxType, BoxRec
<1>2. PodUse(b.pod, b.ip)
  BY DEF PodUse, Boxed
<1>3. OneUser(b.ip) /\ Freed(b.ip) /\ ~Unused(b.ip)
  BY <1>1, <1>2 DEF OwnInv, Unused
<1>4. vpc[b.ip] # None /\ \A v \in vip.release : v.ip # b.ip
  BY <1>3 DEF Freed
<1>5. \A n \in Nodes : b.ip \notin keep[n]
  BY <1>1, <1>2, <1>3 DEF OneUser, NodeUse
<1> QED BY <1>1, <1>2, <1>3, <1>4, <1>5

LEMMA ReachPods ==
  ASSUME Shape, Reach,
         \/ \E p \in Pods, n \in Nodes : CreatePod(p, n)
         \/ \E p \in Pods : RunPod(p) \/ DeletePod(p) \/ ForceDeletePod(p)
  PROVE  Reach'
<1> USE ShapeParts, StaticAssumption
<1>1. UNCHANGED <<vpc, box, risky>>
  BY DEF CreatePod, RunPod, DeletePod, ForceDeletePod, cloudVars, history
<1>2. \A b \in box : b.pod \in Pods /\ b.uid \in 1..MaxStart /\ b.uid <= starts
  BY DEF BoxType, BoxTickets, BoxRec
<1>3. \A b \in box : pod'[b.pod].uid = b.uid => pod[b.pod].uid = b.uid
  <2>1. ASSUME NEW p \in Pods, NEW n \in Nodes, CreatePod(p, n)
        PROVE  \A b \in box : pod'[b.pod].uid = b.uid => pod[b.pod].uid = b.uid
    BY <1>2, <2>1 DEF CreatePod, PodsType
  <2>2. ASSUME NEW p \in Pods, RunPod(p)
        PROVE  \A b \in box : pod'[b.pod].uid = b.uid => pod[b.pod].uid = b.uid
    BY <1>2, <2>2 DEF RunPod, PodsType, PodRec
  <2>3. ASSUME NEW p \in Pods, DeletePod(p) \/ ForceDeletePod(p)
        PROVE  \A b \in box : pod'[b.pod].uid = b.uid => pod[b.pod].uid = b.uid
    BY <1>2, <2>3 DEF DeletePod, ForceDeletePod, NoPod, PodsType
  <2> QED BY <2>1, <2>2, <2>3
<1> QED BY <1>1, <1>3, ReachKept

(* The moves and releases of an address that has a sandbox.                *)
LEMMA ReachAdd ==
  ASSUME Shape, OwnInv, Reach, NEW n \in Nodes, AddStep(n)
  PROVE  Reach'
<1> USE ShapeParts, StaticAssumption
<1>1. UNCHANGED pod
  BY DEF AddStep, assignPodIP, createVpcIpClaim, uapiDescribeSecondaryIp, uapiMoveSecondaryIPMac,
         markVPCIpClaimAttached, answerAdd, kubeVars
<1>2. CASE assignPodIP(n)
  <2>1. UNCHANGED <<box, risky>>
    BY <1>2 DEF assignPodIP
  <2>2. \A i \in IPs : vpc[i] # None /\ (\A m \in Nodes : i \notin keep[m]) => vpc'[i] = vpc[i]
    BY <1>2 DEF assignPodIP, CloudType, cloudVars
  <2> QED BY <1>1, <2>1, <2>2, SandboxUse, ReachKept
<1>3. CASE createVpcIpClaim(n) \/ markVPCIpClaimAttached(n)
  <2>1. UNCHANGED <<box, risky, vpc>>
    BY <1>3 DEF createVpcIpClaim, markVPCIpClaimAttached, cloudVars
  <2> QED BY <1>1, <2>1, ReachKept
<1>4. CASE uapiDescribeSecondaryIp(n)
  <2>1. UNCHANGED <<box, risky>>
    BY <1>4 DEF uapiDescribeSecondaryIp
  <2>2. \A i \in IPs : vpc[i] # None => vpc'[i] = vpc[i]
    BY <1>4 DEF uapiDescribeSecondaryIp, CloudType
  <2> QED BY <1>1, <2>1, <2>2, SandboxUse, ReachKept
<1>5. CASE uapiMoveSecondaryIPMac(n)
  <2>1. UNCHANGED box /\ risky \subseteq risky' /\ add[n].pc = "move"
    BY <1>5 DEF uapiMoveSecondaryIPMac
  <2>2. add[n].ip \in IPs /\ add[n].pod \in Pods
    BY <2>1, AddHas
  <2>3. ASSUME NEW b \in box, b.ip \notin risky', pod[b.pod].uid = b.uid
        PROVE  vpc'[b.ip] = vpc[b.ip] \/ vpc'[b.ip] = b.node
    <3>1. CASE vpc' = vpc \/ b.ip # add[n].ip
      BY <1>5, <2>2, <3>1, SandboxUse, <2>1, <2>3 DEF uapiMoveSecondaryIPMac, CloudType
    <3>2. CASE vpc' # vpc /\ b.ip = add[n].ip
      <4>1. vpc' = [vpc EXCEPT ![b.ip] = n] /\ pod[add[n].pod].uid = add[n].uid
        BY <1>5, <2>3, <3>2 DEF uapiMoveSecondaryIPMac
      <4>2. PodUse(add[n].pod, b.ip)
        BY <2>1, <3>2 DEF PodUse, Serves, Serving
      <4>3. b.pod = add[n].pod
        BY <2>1, <2>2, <2>3, <4>2, SandboxUse DEF OneUser
      <4>4. pod[add[n].pod].node = n
        BY <2>1, <2>2, <4>1 DEF AddsType, AddTickets
      <4>5. pod[b.pod].node = b.node
        BY <2>2, <2>3, <4>3 DEF BoxType, BoxTickets
      <4>6. vpc'[b.ip] = n
        BY <2>2, <3>2, <4>1 DEF CloudType
      <4> QED BY <4>3, <4>4, <4>5, <4>6
    <3> QED BY <3>1, <3>2
  <2> QED BY <1>1, <2>1, <2>3, ReachKept
<1>6. CASE answerAdd(n)
  <2>1. add[n].ip \in IPs
    BY <1>6, AddHas DEF answerAdd
  <2>2. risky \subseteq risky' /\ \A i \in IPs \ risky' : vpc'[i] = vpc[i]
    BY <1>6, <2>1 DEF answerAdd, checkIPConflict, Drop, CloudType
  <2>3. \A b \in box' : b \in box \/ (b.ip = add[n].ip /\ b.node = n /\ vpc[b.ip] = n /\ vpc' = vpc)
    BY <1>6 DEF answerAdd, checkSecondaryIpExist
  <2>4. \A b \in box : b.ip \in IPs
    BY DEF BoxType, BoxRec
  <2> QED BY <1>1, <2>1, <2>2, <2>3, <2>4 DEF Reach
<1> QED BY <1>2, <1>3, <1>4, <1>5, <1>6 DEF AddStep

LEMMA ReachStep == Shape /\ OwnInv /\ Reach /\ [Next]_vars => Reach'
<1> SUFFICES ASSUME Shape, OwnInv, Reach, [Next]_vars PROVE Reach'
  OBVIOUS
<1> USE ShapeParts, StaticAssumption
<1>1. ASSUME NEW b \in box, setAnnotationForCalicoPolicy(b) \/ DelPodNetwork(b) PROVE Reach'
  <2>1. UNCHANGED pod /\ box' \subseteq box /\ risky \subseteq risky' /\ b.ip \in IPs
    BY <1>1 DEF setAnnotationForCalicoPolicy, DelPodNetwork, Drop, kubeVars, BoxType, BoxRec
  <2>2. \A i \in IPs \ risky' : vpc'[i] = vpc[i]
    BY <1>1, <2>1 DEF setAnnotationForCalicoPolicy, DelPodNetwork, Drop, CloudType
  <2>3. \A c \in box : c.ip \in IPs
    BY DEF BoxType, BoxRec
  <2> QED BY <2>1, <2>2, <2>3, ReachKept
<1>2. ASSUME NEW n \in Nodes, releasePool(n) PROVE Reach'
  <2>1. UNCHANGED <<pod, box>> /\ risky \subseteq risky'
    BY <1>2 DEF releasePool, kubeVars
  <2>2. \A i \in IPs : i \notin keep[n] => vpc'[i] = vpc[i]
    BY <1>2 DEF releasePool, CloudType
  <2> QED BY <2>1, <2>2, SandboxUse, ReachKept
<1>3. ASSUME NEW d \in Deleted, releaseVPCIp(d) PROVE Reach'
  <2>1. UNCHANGED <<pod, box, risky>> /\ d \in vip.release
    BY <1>3 DEF releaseVPCIp, kubeVars
  <2>2. \A i \in IPs : i # d.ip => vpc'[i] = vpc[i]
    BY <1>3 DEF releaseVPCIp, CloudType, Deleted
  <2> QED BY <2>1, <2>2, SandboxUse, ReachKept
<1>4. ASSUME NEW d \in Deleted, onVipDelete(d) PROVE Reach'
  <2>1. UNCHANGED <<pod, box, vpc>> /\ risky \subseteq risky'
    BY <1>4 DEF onVipDelete, cloudVars, kubeVars
  <2> QED BY <2>1, ReachKept
<1>5. ASSUME \/ \E r \in 0..MaxReplicas : ScaleSts(r)
             \/ DeleteSts \/ CreateSts \/ UpdateStep \/ DeleteStep \/ CleanStep \/ CtlRestart
             \/ \E p \in Pods : Expire(p)
             \/ \E n \in Nodes : Crash(n) \/ \E p \in Pods : findStaticIp(n, p)
             \/ UNCHANGED vars
      PROVE  Reach'
  <2>1. UNCHANGED <<pod, box, vpc, risky>>
    BY <1>5 DEF ScaleSts, DeleteSts, CreateSts, UpdateStep, onStsUpdate, GetReplicas, UpdateDetach, UpdateCheck,
         DeleteStep, onStsDelete, DeleteDetach, CleanStep, vipCheckAndClean, CleanDelete, CleanCheck,
         CtlRestart, Expire, Crash, findStaticIp, vars, cloudVars, kubeVars, history
  <2> QED BY <2>1, ReachKept
<1> QED BY <1>1, <1>2, <1>3, <1>4, <1>5, ReachPods, ReachAdd DEF Next, VipStep

(* A running pod can be reached: the address in its sandbox stays attached *)
(* to its node while claims are detached, collected and released, nodes    *)
(* take over pods and anything fails, unless the address is risky.         *)
THEOREM RunningPodReachable == Spec => []RunningReachable
<1>1. Init => Reach
  BY DEF Init, Reach
<1>2. Shape /\ Reach => RunningReachable
  <2> SUFFICES ASSUME Shape, Reach, NEW p \in Pods, pod[p].phase = "Running", NEW b \in OwnBox(p)
               PROVE  b.ip \in risky \/ vpc[b.ip] = b.node
    BY DEF RunningReachable
  <2>1. b \in box /\ b.uid = pod[p].uid
    BY DEF OwnBox
  <2>2. b.pod = p
    BY <2>1, ShapeParts DEF BoxType, BoxTickets
  <2> QED BY <2>1, <2>2 DEF Reach
<1> QED BY <1>1, <1>2, ShapeInit, OwnInit, ShapeStep, OwnStep, ReachStep, PTL DEF Spec

----------------------------------------------------------------------------
(* The claims implement ClaimLife.                                         *)

Bd == [p \in Pods |-> IF claim[p] = None THEN None ELSE claim[p].ip]
Att == {p \in Pods : claim[p] # None /\ claim[p].st # "detached"}
Dm == {p \in Pods : claim[p] # None /\ claim[p].doomed}

(* A step of the promise, in terms of the one claim that it changes.       *)
LEMMA AbstractSame ==
  ASSUME UNCHANGED claim
  PROVE  Bd' = Bd /\ Att' = Att /\ Dm' = Dm
BY DEF Bd, Att, Dm

LEMMA AbstractSet ==
  ASSUME ClaimsType, NEW p \in Pods, NEW c \in ClaimType, claim' = [claim EXCEPT ![p] = c]
  PROVE  /\ Bd' = [Bd EXCEPT ![p] = c.ip]
         /\ Att' = IF c.st # "detached" THEN Att \cup {p} ELSE Att \ {p}
         /\ Dm' = IF c.doomed THEN Dm \cup {p} ELSE Dm \ {p}
<1>1. claim'[p] = c /\ c # None /\ \A q \in Pods \ {p} : claim'[q] = claim[q]
  BY StaticAssumption DEF ClaimsType
<1>2. Bd' = [Bd EXCEPT ![p] = c.ip]
  <2>1. Bd' = [q \in Pods |-> IF claim'[q] = None THEN None ELSE claim'[q].ip]
    BY DEF Bd
  <2>2. [Bd EXCEPT ![p] = c.ip] = [q \in Pods |-> IF q = p THEN c.ip ELSE Bd[q]]
    BY DEF Bd
  <2>3. \A q \in Pods : (IF claim'[q] = None THEN None ELSE claim'[q].ip) = IF q = p THEN c.ip ELSE Bd[q]
    BY <1>1 DEF Bd
  <2> QED BY <2>1, <2>2, <2>3
<1>3. Att' = IF c.st # "detached" THEN Att \cup {p} ELSE Att \ {p}
  BY <1>1 DEF Att
<1>4. Dm' = IF c.doomed THEN Dm \cup {p} ELSE Dm \ {p}
  BY <1>1 DEF Dm
<1> QED BY <1>2, <1>3, <1>4

LEMMA AbstractRemove ==
  ASSUME ClaimsType, NEW p \in Pods, claim' = [claim EXCEPT ![p] = None]
  PROVE  Bd' = [Bd EXCEPT ![p] = None] /\ Att' = Att \ {p} /\ Dm' = Dm \ {p}
<1>1. claim'[p] = None /\ \A q \in Pods \ {p} : claim'[q] = claim[q]
  BY DEF ClaimsType
<1>2. Bd' = [Bd EXCEPT ![p] = None]
  <2>1. Bd' = [q \in Pods |-> IF claim'[q] = None THEN None ELSE claim'[q].ip]
    BY DEF Bd
  <2>2. [Bd EXCEPT ![p] = None] = [q \in Pods |-> IF q = p THEN None ELSE Bd[q]]
    BY DEF Bd
  <2>3. \A q \in Pods : (IF claim'[q] = None THEN None ELSE claim'[q].ip) = IF q = p THEN None ELSE Bd[q]
    BY <1>1 DEF Bd
  <2> QED BY <2>1, <2>2, <2>3
<1> QED BY <1>1, <1>2 DEF Att, Dm

(* The same record in both places: a claim has its address, and keeps it.  *)
LEMMA AbstractClaim ==
  ASSUME ClaimsType, NEW p \in Pods, claim[p] # None
  PROVE  /\ claim[p] \in ClaimType /\ claim[p].doomed \in BOOLEAN
         /\ Bd[p] = claim[p].ip /\ Bd[p] # None
         /\ [Bd EXCEPT ![p] = claim[p].ip] = Bd
         /\ p \in Att <=> claim[p].st # "detached"
         /\ p \in Dm <=> claim[p].doomed
<1>1. claim[p] \in ClaimType /\ claim[p].ip \in IPs /\ claim[p].doomed \in BOOLEAN
  BY DEF ClaimsType, ClaimType
<1>2. Bd[p] = claim[p].ip /\ Bd[p] # None /\ [Bd EXCEPT ![p] = claim[p].ip] = Bd
  BY <1>1, StaticAssumption DEF Bd
<1> QED BY <1>1, <1>2 DEF Att, Dm

LEMMA LifeStutter ==
  ASSUME UNCHANGED <<claim, risky>>
  PROVE  [Life!Next]_(Life!vars)
BY AbstractSame DEF Life!vars, Bd, Att, Dm

LEMMA LifeCompromise ==
  ASSUME UNCHANGED claim, risky \subseteq risky', risky' \subseteq IPs
  PROVE  [Life!Next]_(Life!vars)
BY AbstractSame DEF Life!Next, Life!Compromise, Bd, Att, Dm

(* The creation of a claim binds; nobody else has the address.             *)
LEMMA LifeCreate ==
  ASSUME Shape, OwnInv, NEW n \in Nodes, createVpcIpClaim(n)
  PROVE  [Life!Next]_(Life!vars)
<1> USE ShapeParts, StaticAssumption
<1> PICK p : p = add[n].pod
  OBVIOUS
<1> PICK i : i = add[n].ip
  OBVIOUS
<1> PICK c : c = PodNetworkToVip(i, n)
  OBVIOUS
<1>1. UNCHANGED risky /\ add[n].pc = "create"
  BY DEF createVpcIpClaim
<1>2. i \in IPs /\ p \in Pods /\ NodeUse(n, i)
  BY <1>1, AddHas DEF NodeUse, Makes
<1>3. c \in ClaimType /\ c.ip = i /\ c.st = "new" /\ c.doomed = FALSE
  BY <1>2, CreatedType DEF PodNetworkToVip
<1>4. CASE UNCHANGED claim
  BY <1>1, <1>4, LifeStutter
<1>5. CASE claim[p] = None /\ claim' = [claim EXCEPT ![p] = c]
  <2>1. Bd' = [Bd EXCEPT ![p] = i] /\ Att' = Att \cup {p} /\ Dm' = Dm \ {p}
    BY <1>2, <1>3, <1>5, AbstractSet
  <2>2. Bd[p] = None /\ p \notin Dm
    BY <1>2, <1>5 DEF Bd, Dm
  <2>3. i \in risky \/ \A q \in Pods : Bd[q] # i
    <3>1. ASSUME i \notin risky, NEW q \in Pods PROVE ~Binds(q, i)
      BY <1>2, <3>1 DEF OwnInv, OneUser, PodUse
    <3> QED BY <1>2, <3>1 DEF Bd, Binds
  <2>4. Dm' = Dm
    BY <2>1, <2>2
  <2>5. Life!Bind(p, i)
    BY <1>1, <2>1, <2>2, <2>3, <2>4 DEF Life!Bind, Bd, Att, Dm
  <2> QED BY <1>2, <2>5 DEF Life!Next
<1> QED BY <1>4, <1>5 DEF createVpcIpClaim

LEMMA LifeMark ==
  ASSUME Shape, NEW n \in Nodes, markVPCIpClaimAttached(n)
  PROVE  [Life!Next]_(Life!vars)
<1> USE ShapeParts, StaticAssumption
<1> PICK p : p = add[n].pod
  OBVIOUS
<1> PICK c : c = Attached(claim[p], n, pod[p] # NoPod)
  OBVIOUS
<1>1. UNCHANGED risky /\ p \in Pods
  BY AddHas DEF markVPCIpClaimAttached
<1>2. CASE UNCHANGED claim
  BY <1>1, <1>2, LifeStutter
<1>3. CASE claim[p] # None /\ claim' = [claim EXCEPT ![p] = c]
  <2>1. (pod[p] # NoPod) \in BOOLEAN
    OBVIOUS
  <2>2. c \in ClaimType /\ c.ip = claim[p].ip /\ c.st = "attached" /\ c.doomed = claim[p].doomed
    BY <1>1, <1>3, <2>1, AttachedType, AbstractClaim, ZenonT(60)
  <2>a. Bd' = [Bd EXCEPT ![p] = c.ip] /\ Att' = Att \cup {p}
        /\ Dm' = (IF c.doomed THEN Dm \cup {p} ELSE Dm \ {p})
    BY <1>1, <1>3, <2>2, AbstractSet
  <2>b. [Bd EXCEPT ![p] = c.ip] = Bd /\ Bd[p] # None /\ (p \in Dm <=> c.doomed)
    BY <1>1, <1>3, <2>2, AbstractClaim
  <2>3. Bd' = Bd /\ Bd[p] # None /\ Att' = Att \cup {p}
    BY <2>a, <2>b
  <2>4. Dm' = Dm
    BY <2>a, <2>b
  <2>5. Life!Attach(p)
    BY <1>1, <2>3, <2>4 DEF Life!Attach, Bd, Att, Dm
  <2> QED BY <1>1, <2>5 DEF Life!Next
<1> QED BY <1>2, <1>3 DEF markVPCIpClaimAttached

LEMMA LifeRemove ==
  ASSUME Shape, NEW p \in Pods, claim[p] # None, Remove(p), UNCHANGED risky,
         claim[p].doomed \/ claim[p].st = "detached"
  PROVE  [Life!Next]_(Life!vars)
<1> USE ShapeParts
<1>1. Bd' = [Bd EXCEPT ![p] = None] /\ Att' = Att \ {p} /\ Dm' = Dm \ {p}
  BY AbstractRemove DEF Remove
<1>2. Bd[p] # None /\ (p \in Att => p \in Dm)
  BY AbstractClaim
<1>3. Life!Unbind(p)
  BY <1>1, <1>2 DEF Life!Unbind, Bd, Att, Dm
<1> QED BY <1>3 DEF Life!Next

LEMMA LifeDetach ==
  ASSUME Shape, NEW p \in Pods, markVPCIpClaimDetached(p), UNCHANGED risky
  PROVE  [Life!Next]_(Life!vars)
<1> USE ShapeParts
<1>1. CASE UNCHANGED claim
  BY <1>1, LifeStutter
<1>2. CASE claim[p] # None /\ claim[p].doomed /\ Remove(p)
  BY <1>2, LifeRemove
<1>3. CASE claim[p] # None /\ ~claim[p].doomed
           /\ claim' = [claim EXCEPT ![p].st = "detached", ![p].due = FALSE]
  <2> PICK c : c = [claim[p] EXCEPT !.st = "detached", !.due = FALSE]
    OBVIOUS
  <2>1. claim' = [claim EXCEPT ![p] = c] /\ c \in ClaimType
        /\ c.ip = claim[p].ip /\ c.st = "detached" /\ c.doomed = claim[p].doomed
    BY <1>3 DEF ClaimsType, ClaimType
  <2>2. Bd' = Bd /\ Att' = Att \ {p} /\ Dm' = Dm /\ p \notin Dm
    <3>1. Bd' = [Bd EXCEPT ![p] = c.ip] /\ Att' = Att \ {p} /\ Dm' = Dm \ {p}
      BY <1>3, <2>1, AbstractSet
    <3>2. [Bd EXCEPT ![p] = c.ip] = Bd /\ p \notin Dm
      BY <1>3, <2>1, AbstractClaim
    <3> QED BY <3>1, <3>2
  <2>3. CASE p \in Att
    <3>1. Life!Detach(p)
      BY <2>2, <2>3 DEF Life!Detach, Bd, Att, Dm
    <3> QED BY <3>1 DEF Life!Next
  <2>4. CASE p \notin Att
    <3>1. Att' = Att
      BY <2>2, <2>4
    <3> QED BY <2>2, <3>1 DEF Life!vars, Bd, Att, Dm
  <2> QED BY <2>3, <2>4
<1> QED BY <1>1, <1>2, <1>3 DEF markVPCIpClaimDetached

LEMMA LifeClean ==
  ASSUME Shape, CleanDelete
  PROVE  [Life!Next]_(Life!vars)
<1> USE ShapeParts
<1> PICK p : p = gc.item
  OBVIOUS
<1>1. p \in Pods /\ UNCHANGED risky
  BY DEF CleanDelete, CtlType
<1>2. CASE UNCHANGED claim
  BY <1>1, <1>2, LifeStutter
<1>3. CASE claim[p] # None /\ ~Finalizer(claim[p]) /\ Remove(p)
  BY <1>1, <1>3, LifeRemove DEF Finalizer
<1>4. CASE claim[p] # None /\ Finalizer(claim[p]) /\ claim' = [claim EXCEPT ![p].doomed = TRUE]
  <2> PICK c : c = [claim[p] EXCEPT !.doomed = TRUE]
    OBVIOUS
  <2>1. claim' = [claim EXCEPT ![p] = c] /\ c \in ClaimType
        /\ c.ip = claim[p].ip /\ c.st = claim[p].st /\ c.doomed = TRUE
    BY <1>1, <1>4 DEF ClaimsType, ClaimType
  <2>2. Bd' = [Bd EXCEPT ![p] = c.ip] /\ Att' = Att \cup {p} /\ Dm' = Dm \cup {p}
    BY <1>1, <1>4, <2>1, AbstractSet DEF Finalizer
  <2>3. [Bd EXCEPT ![p] = c.ip] = Bd /\ p \in Att
    BY <1>1, <1>4, <2>1, AbstractClaim DEF Finalizer
  <2>4. Bd' = Bd /\ Att' = Att
    BY <2>2, <2>3
  <2>5. Life!Doom(p)
    BY <1>1, <2>2, <2>3, <2>4 DEF Life!Doom, Bd, Att, Dm
  <2> QED BY <1>1, <2>5 DEF Life!Next
<1> QED BY <1>2, <1>3, <1>4 DEF CleanDelete

LEMMA LifeExpire ==
  ASSUME Shape, NEW p \in Pods, Expire(p)
  PROVE  [Life!Next]_(Life!vars)
<1> USE ShapeParts
<1>1. claim[p] # None /\ claim' = [claim EXCEPT ![p].due = TRUE] /\ UNCHANGED risky
  BY DEF Expire, history
<1> PICK c : c = [claim[p] EXCEPT !.due = TRUE]
  OBVIOUS
<1>2. claim' = [claim EXCEPT ![p] = c] /\ c \in ClaimType
      /\ c.ip = claim[p].ip /\ c.st = claim[p].st /\ c.doomed = claim[p].doomed
  BY <1>1 DEF ClaimsType, ClaimType
<1>3. Bd' = [Bd EXCEPT ![p] = c.ip]
      /\ Att' = (IF c.st # "detached" THEN Att \cup {p} ELSE Att \ {p})
      /\ Dm' = (IF c.doomed THEN Dm \cup {p} ELSE Dm \ {p})
  BY <1>2, AbstractSet
<1>4. [Bd EXCEPT ![p] = c.ip] = Bd /\ (p \in Att <=> c.st # "detached") /\ (p \in Dm <=> c.doomed)
  BY <1>1, <1>2, AbstractClaim
<1>5. Bd' = Bd /\ Att' = Att /\ Dm' = Dm
  BY <1>3, <1>4
<1> QED BY <1>1, <1>5 DEF Life!vars, Bd, Att, Dm

(* Every step of ipamd on some node, of the vip-controller, of the users   *)
(* and of the environment is a step of the promise or leaves it alone.     *)
LEMMA LifeStep == Shape /\ OwnInv /\ [Next]_vars => [Life!Next]_(Life!vars)
<1> SUFFICES ASSUME Shape, OwnInv, [Next]_vars PROVE [Life!Next]_(Life!vars)
  OBVIOUS
<1> USE ShapeParts
<1>1. CASE \E n \in Nodes : createVpcIpClaim(n) \/ markVPCIpClaimAttached(n)
  BY <1>1, LifeCreate, LifeMark
<1>2. CASE CleanDelete \/ \E p \in Pods : Expire(p)
  BY <1>2, LifeClean, LifeExpire
<1>3. CASE UpdateDetach
  <2>1. upd.item \in Pods /\ markVPCIpClaimDetached(upd.item) /\ UNCHANGED risky
    BY <1>3 DEF UpdateDetach, CtlType, UpdRec
  <2> QED BY <2>1, LifeDetach
<1>4. ASSUME NEW p \in Pods, DeleteDetach(p) PROVE [Life!Next]_(Life!vars)
  BY <1>4, LifeDetach DEF DeleteDetach
<1>5. CASE \/ \E n \in Nodes : \/ assignPodIP(n) \/ uapiDescribeSecondaryIp(n) \/ Crash(n)
                               \/ uapiMoveSecondaryIPMac(n) \/ answerAdd(n) \/ releasePool(n)
                               \/ \E p \in Pods : CreatePod(p, n) \/ findStaticIp(n, p)
           \/ \E b \in box : DelPodNetwork(b) \/ setAnnotationForCalicoPolicy(b)
           \/ \E r \in 0..MaxReplicas : ScaleSts(r)
           \/ DeleteSts \/ CreateSts \/ onStsUpdate \/ GetReplicas \/ onStsDelete \/ vipCheckAndClean
           \/ \E p \in Pods : RunPod(p) \/ DeletePod(p) \/ ForceDeletePod(p) \/ UpdateCheck(p) \/ CleanCheck(p)
           \/ VipStep \/ CtlRestart \/ UNCHANGED vars
  <2>1. UNCHANGED claim
    BY <1>5 DEF assignPodIP, uapiDescribeSecondaryIp, Crash, uapiMoveSecondaryIPMac, answerAdd, releasePool,
         CreatePod, findStaticIp, DelPodNetwork, setAnnotationForCalicoPolicy, ScaleSts, DeleteSts,
         CreateSts, onStsUpdate, GetReplicas, onStsDelete, vipCheckAndClean, RunPod, DeletePod, ForceDeletePod,
         UpdateCheck, CleanCheck, VipStep, onVipDelete, releaseVPCIp, CtlRestart, vars, kubeVars
  <2>2. risky \subseteq risky'
    BY <1>5 DEF assignPodIP, uapiDescribeSecondaryIp, Crash, uapiMoveSecondaryIPMac, answerAdd, releasePool,
         CreatePod, findStaticIp, DelPodNetwork, setAnnotationForCalicoPolicy, ScaleSts, DeleteSts,
         CreateSts, onStsUpdate, GetReplicas, onStsDelete, vipCheckAndClean, RunPod, DeletePod, ForceDeletePod,
         UpdateCheck, CleanCheck, VipStep, onVipDelete, releaseVPCIp, CtlRestart, vars, history,
         Drop, checkIPConflict
  <2>3. Shape'
    BY ShapeStep
  <2>4. risky' \subseteq IPs
    BY <2>3 DEF Shape, TypeOK
  <2> QED BY <2>1, <2>2, <2>4, LifeCompromise
<1> QED BY <1>1, <1>2, <1>3, <1>4, <1>5 DEF Next, AddStep, UpdateStep, DeleteStep, CleanStep

(* The claims that all nodes and the vip-controller change implement the   *)
(* promise of a VpcIpClaim: a name keeps its address until the claim was   *)
(* detached, and an address is bound to one name.  Binding is the step     *)
(* that needs the invariant: the address a node is about to bind is not    *)
(* bound to any name.                                                      *)
THEOREM ClaimsKeepPromise == Spec => KeepsPromise
<1>1. Init => Life!Init
  BY DEF Init, Life!Init
<1> QED BY <1>1, ShapeInit, OwnInit, ShapeStep, OwnStep, LifeStep, PTL DEF Spec, KeepsPromise, Life!Spec

----------------------------------------------------------------------------
(* The leak bound.  An attached address is insured as long as a claim      *)
(* binds it, an ADD is about to bind it or to confirm its claim, or the    *)
(* vip-controller is about to release it.  An attached address that is not *)
(* insured is exposed, in somebody's use or not: it has cost a step that   *)
(* lost counts, and its use can only end in insurance, in a release or in  *)
(* a leak that is paid for already.                                        *)
Marks(n, ip) == add[n].pc = "mark" /\ add[n].ip = ip
Returning(ip) == \E v \in vip.queue \cup vip.release : v.ip = ip
Insured(ip) ==
  \/ \E n \in Nodes : Makes(n, ip) \/ Marks(n, ip)
  \/ \E p \in Pods : Binds(p, ip)
  \/ Returning(ip)

Exposed == {ip \in IPs : vpc[ip] # None /\ ~Insured(ip)}
ExposedBound == Cardinality(Exposed) <= lost

LEMMA ExposedSets ==
  /\ Exposed \in SUBSET IPs /\ Exposed' \in SUBSET IPs
  /\ \A S \in SUBSET IPs : IsFiniteSet(S) /\ Cardinality(S) \in Nat
<1>1. Exposed \in SUBSET IPs /\ Exposed' \in SUBSET IPs
  BY DEF Exposed
<1>2. IsFiniteSet(IPs)
  BY StaticAssumption
<1>3. \A S \in SUBSET IPs : IsFiniteSet(S) /\ Cardinality(S) \in Nat
  BY <1>2, FS_Subset, FS_CardinalityType
<1> QED BY <1>1, <1>3

(* A step that exposes no address keeps the bound, *)
LEMMA FreeStep ==
  ASSUME HistType, ExposedBound, Exposed' \subseteq Exposed, lost' \in Nat, lost' >= lost
  PROVE  ExposedBound'
<1> PICK A : A = Exposed
  OBVIOUS
<1> PICK B : B = Exposed'
  OBVIOUS
<1>1. IsFiniteSet(A) /\ Cardinality(A) \in Nat /\ Cardinality(B) \in Nat /\ B \subseteq A
  BY ExposedSets
<1>2. Cardinality(B) <= Cardinality(A)
  BY <1>1, FS_Subset
<1>3. Cardinality(A) <= lost /\ lost \in Nat
  BY DEF ExposedBound, HistType
<1>4. Cardinality(B) <= lost'
  BY <1>1, <1>2, <1>3
<1> QED BY <1>4 DEF ExposedBound

(* and so does one that pays for all it exposes, *)
LEMMA PaidSet ==
  ASSUME HistType, ExposedBound, NEW S \in SUBSET IPs, NEW k \in Nat, Cardinality(S) <= k,
         Exposed' \subseteq Exposed \cup S, lost' = lost + k
  PROVE  ExposedBound'
<1> PICK A : A = Exposed
  OBVIOUS
<1> PICK B : B = Exposed'
  OBVIOUS
<1>1. /\ IsFiniteSet(A) /\ Cardinality(A) \in Nat /\ Cardinality(B) \in Nat
      /\ IsFiniteSet(S) /\ Cardinality(S) \in Nat /\ B \subseteq A \cup S
      /\ Cardinality(A \cap S) \in Nat /\ Cardinality(A \cup S) \in Nat
  <2>1. A \in SUBSET IPs /\ A \cap S \in SUBSET IPs /\ A \cup S \in SUBSET IPs /\ B \in SUBSET IPs
        /\ B \subseteq A \cup S
    BY ExposedSets
  <2> QED BY <2>1, ExposedSets
<1>2. IsFiniteSet(A \cup S) /\ Cardinality(A \cup S) = Cardinality(A) + Cardinality(S) - Cardinality(A \cap S)
  BY <1>1, FS_Union
<1>3. Cardinality(B) <= Cardinality(A \cup S)
  BY <1>1, <1>2, FS_Subset
<1>4. Cardinality(A) <= lost /\ lost \in Nat
  BY DEF ExposedBound, HistType
<1>5. Cardinality(B) <= lost'
  BY <1>1, <1>2, <1>3, <1>4
<1> QED BY <1>5 DEF ExposedBound

(* one address as a rule.                                                  *)
LEMMA PaidStep ==
  ASSUME HistType, ExposedBound, NEW j \in IPs, Exposed' \subseteq Exposed \cup {j}, lost' = lost + 1
  PROVE  ExposedBound'
<1>1. Cardinality({j}) = 1
  BY FS_Singleton
<1> QED BY <1>1, PaidSet

LEMMA NoneExposed ==
  ASSUME \A ip \in IPs : vpc'[ip] # None => Insured(ip)' \/ (vpc[ip] # None /\ ~Insured(ip))
  PROVE  Exposed' \subseteq Exposed
BY DEF Exposed

LEMMA OneExposed ==
  ASSUME NEW j, \A ip \in IPs \ {j} : vpc'[ip] # None => Insured(ip)' \/ (vpc[ip] # None /\ ~Insured(ip))
  PROVE  Exposed' \subseteq Exposed \cup {j}
BY DEF Exposed

(* What the three kinds of step that may cost an address do to lost.       *)
LEMMA LostGrows ==
  ASSUME HistType, NEW k
  PROVE  /\ Fault(k) => lost' = lost + 1
         /\ Failure(k) \/ NoFault => lost' = lost
         /\ lost' = lost \/ lost' = lost + 1 => lost' \in Nat /\ lost' >= lost
BY DEF HistType, Fault, Failure, NoFault

(* Steps that leave the claims, the ADDs and the controller's releases     *)
(* alone, and attach no address.                                           *)
LEMMA BudgetAside ==
  ASSUME HistType, ExposedBound, UNCHANGED <<claim, add, vip>>,
         \A ip \in IPs : vpc'[ip] # None => vpc[ip] # None,
         lost' = lost \/ lost' = lost + 1
  PROVE  ExposedBound'
<1>1. \A ip \in IPs : Insured(ip)' <=> Insured(ip)
  BY DEF Insured, Makes, Marks, Binds, Returning
<1> QED BY <1>1, NoneExposed, FreeStep, LostGrows

(* A step of node n's ADD takes away no insurance but its own.             *)
LEMMA AddInsured ==
  ASSUME AddsType, NEW n \in Nodes, NEW a, add' = [add EXCEPT ![n] = a], NEW ip \in IPs,
         \A p \in Pods : Binds(p, ip) => Binds(p, ip)', Returning(ip) => Returning(ip)'
  PROVE  /\ Insured(ip) => Insured(ip)' \/ Makes(n, ip) \/ Marks(n, ip)
         /\ a.pc \in {"create", "mark"} /\ a.ip = ip => Insured(ip)'
<1>1. \A m \in Nodes \ {n} : add'[m] = add[m]
  BY DEF AddsType
<1>2. add'[n] = a
  BY DEF AddsType
<1>3. \A m \in Nodes \ {n} : (Makes(m, ip) => Makes(m, ip)') /\ (Marks(m, ip) => Marks(m, ip)')
  BY <1>1 DEF Makes, Marks
<1>4. a.pc \in {"create", "mark"} /\ a.ip = ip => Makes(n, ip)' \/ Marks(n, ip)'
  BY <1>2 DEF Makes, Marks
<1>5. Insured(ip) => Insured(ip)' \/ Makes(n, ip) \/ Marks(n, ip)
  BY <1>3 DEF Insured
<1>6. Makes(n, ip)' \/ Marks(n, ip)' => Insured(ip)'
  BY DEF Insured
<1> QED BY <1>4, <1>5, <1>6

LEMMA OthersSame ==
  ASSUME UNCHANGED <<claim, vip>>
  PROVE  \A ip \in IPs : /\ \A p \in Pods : Binds(p, ip) <=> Binds(p, ip)'
                         /\ Returning(ip) <=> Returning(ip)'
BY DEF Binds, Returning

LEMMA BudgetFind ==
  ASSUME Shape, ExposedBound, NEW n \in Nodes, NEW p \in Pods, findStaticIp(n, p)
  PROVE  ExposedBound'
<1> USE ShapeParts
<1>1. UNCHANGED <<vpc, claim, vip, lost>> /\ add[n].pc = "idle"
  BY DEF findStaticIp, cloudVars, kubeVars, ctlVars, history, Idle
<1>2. PICK a : add' = [add EXCEPT ![n] = a]
  BY DEF findStaticIp
<1>3. \A ip \in IPs : Insured(ip) => Insured(ip)'
  BY <1>1, <1>2, AddInsured, OthersSame DEF Makes, Marks
<1>4. Exposed' \subseteq Exposed
  BY <1>1, <1>3, NoneExposed
<1> QED BY <1>1, <1>4, FreeStep, LostGrows

LEMMA BudgetAssign ==
  ASSUME Shape, ExposedBound, NEW n \in Nodes, assignPodIP(n)
  PROVE  ExposedBound'
<1> USE ShapeParts
<1>1. UNCHANGED <<claim, vip>> /\ add[n].pc = "assign"
  BY DEF assignPodIP, kubeVars, ctlVars
<1>2. ASSUME NEW a, add' = [add EXCEPT ![n] = a]
      PROVE  \A ip \in IPs : /\ Insured(ip) => Insured(ip)'
                             /\ a.pc = "create" /\ a.ip = ip => Insured(ip)'
  BY <1>1, <1>2, AddInsured, OthersSame DEF Makes, Marks
<1>3. ASSUME NEW i \in IPs, \A ip \in IPs \ {i} : vpc'[ip] = vpc[ip], NoFault,
             add' = [add EXCEPT ![n].pc = "create", ![n].ip = i]
      PROVE  ExposedBound'
  <2>1. PICK a : a = [add[n] EXCEPT !.pc = "create", !.ip = i]
    OBVIOUS
  <2>2. a.pc = "create" /\ a.ip = i /\ add' = [add EXCEPT ![n] = a]
    BY <1>3, <2>1 DEF AddsType, AddRec
  <2>3. Exposed' \subseteq Exposed
    BY <1>2, <1>3, <2>2, NoneExposed
  <2> QED BY <1>3, <2>3, FreeStep, LostGrows
<1>4. ASSUME NEW i \in IPs, vpc' = [vpc EXCEPT ![i] = n], Fail(n), Fault("api") PROVE ExposedBound'
  <2>1. \A ip \in IPs : Insured(ip) => Insured(ip)'
    BY <1>2, <1>4 DEF Fail
  <2>2. \A ip \in IPs \ {i} : vpc'[ip] = vpc[ip]
    BY <1>4 DEF CloudType
  <2>3. Exposed' \subseteq Exposed \cup {i}
    BY <2>1, <2>2, OneExposed
  <2> QED BY <1>4, <2>3, PaidStep, LostGrows
<1>5. CASE Fail(n) /\ UNCHANGED cloudVars /\ NoFault
  <2>1. \A ip \in IPs : Insured(ip) => Insured(ip)'
    BY <1>2, <1>5 DEF Fail
  <2>2. Exposed' \subseteq Exposed
    BY <1>5, <2>1, NoneExposed DEF cloudVars
  <2> QED BY <1>5, <2>2, FreeStep, LostGrows
<1>6. CASE \E ip \in keep[n] :
             add' = [add EXCEPT ![n].pc = "create", ![n].ip = ip] /\ UNCHANGED vpc /\ NoFault
  BY <1>3, <1>6 DEF CloudType
<1>7. CASE \E ip \in IPs : /\ vpc' = [vpc EXCEPT ![ip] = n]
                           /\ \/ add' = [add EXCEPT ![n].pc = "create", ![n].ip = ip] /\ NoFault
                              \/ Fail(n) /\ Fault("api")
  <2>1. PICK i \in IPs : /\ vpc' = [vpc EXCEPT ![i] = n]
                         /\ \/ add' = [add EXCEPT ![n].pc = "create", ![n].ip = i] /\ NoFault
                            \/ Fail(n) /\ Fault("api")
    BY <1>7
  <2>2. \A ip \in IPs \ {i} : vpc'[ip] = vpc[ip]
    BY <2>1 DEF CloudType
  <2> QED BY <1>3, <1>4, <2>1, <2>2
<1>8. CASE \E m \in Nodes \ {n} : \E ip \in keep[m] :
             vpc' = [vpc EXCEPT ![ip] = n] /\ add' = [add EXCEPT ![n].pc = "create", ![n].ip = ip] /\ NoFault
  <2>1. PICK i \in IPs : vpc' = [vpc EXCEPT ![i] = n] /\ NoFault
                         /\ add' = [add EXCEPT ![n].pc = "create", ![n].ip = i]
    BY <1>8 DEF CloudType
  <2>2. \A ip \in IPs \ {i} : vpc'[ip] = vpc[ip]
    BY <2>1 DEF CloudType
  <2> QED BY <1>3, <2>1, <2>2
<1> QED BY <1>5, <1>6, <1>7, <1>8 DEF assignPodIP

LEMMA BudgetCreate ==
  ASSUME Shape, ExposedBound, NEW n \in Nodes, createVpcIpClaim(n)
  PROVE  ExposedBound'
<1> USE ShapeParts
<1> PICK p : p = add[n].pod
  OBVIOUS
<1> PICK i : i = add[n].ip
  OBVIOUS
<1> PICK c : c = PodNetworkToVip(i, n)
  OBVIOUS
<1>1. UNCHANGED <<vpc, vip>> /\ add[n].pc = "create" /\ p \in Pods /\ i \in IPs /\ c # None /\ c.ip = i
  <2>1. UNCHANGED <<vpc, vip>> /\ add[n].pc = "create"
    BY DEF createVpcIpClaim, ctlVars
  <2>2. p \in Pods /\ i \in IPs
    BY <2>1, AddHas
  <2>3. c \in ClaimType /\ c.ip = i
    BY <2>2, CreatedType DEF PodNetworkToVip
  <2> QED BY <2>1, <2>2, <2>3, StaticAssumption
<1>2. (claim[p] = None /\ claim' = [claim EXCEPT ![p] = c]) \/ claim' = claim
  BY DEF createVpcIpClaim
<1>3. \A ip \in IPs, q \in Pods : Binds(q, ip) => Binds(q, ip)'
  BY <1>1, <1>2 DEF Binds, ClaimsType
<1>4. PICK a : add' = [add EXCEPT ![n] = a]
  <2>1. CASE Fail(n)
    BY <2>1 DEF Fail
  <2>2. CASE add' = [add EXCEPT ![n].pc = "describe", ![n].mac = n]
    BY <2>2
  <2> QED BY <2>1, <2>2 DEF createVpcIpClaim
<1>5. \A ip \in IPs : Returning(ip) => Returning(ip)'
  BY <1>1 DEF Returning
<1>6. \A ip \in IPs : Insured(ip) => Insured(ip)' \/ Makes(n, ip) \/ Marks(n, ip)
  BY <1>3, <1>4, <1>5, AddInsured
<1>7. \A ip \in IPs \ {i} : Insured(ip) => Insured(ip)'
  BY <1>1, <1>6 DEF Makes, Marks
<1>8. CASE claim[p] = None /\ claim' = [claim EXCEPT ![p] = c] /\ NoFault
  <2>1. Binds(p, i)'
    BY <1>1, <1>8 DEF Binds, ClaimsType
  <2>2. Insured(i)'
    BY <1>1, <2>1 DEF Insured
  <2>3. Exposed' \subseteq Exposed
    BY <1>1, <1>7, <2>2, NoneExposed
  <2> QED BY <1>8, <2>3, FreeStep, LostGrows
<1>9. CASE lost' = lost + 1
  <2>1. Exposed' \subseteq Exposed \cup {i}
    BY <1>1, <1>7, OneExposed
  <2> QED BY <1>1, <1>9, <2>1, PaidStep
<1> QED BY <1>8, <1>9 DEF createVpcIpClaim, Fault

LEMMA BudgetDescribe ==
  ASSUME Shape, ExposedBound, NEW n \in Nodes, uapiDescribeSecondaryIp(n)
  PROVE  ExposedBound'
<1> USE ShapeParts
<1> PICK i : i = add[n].ip
  OBVIOUS
<1>1. UNCHANGED <<claim, vip>> /\ add[n].pc = "describe" /\ i \in IPs
  BY AddHas DEF uapiDescribeSecondaryIp, kubeVars, ctlVars
<1>2. ASSUME NEW m, localAttach(n, m)
      PROVE  /\ \A ip \in IPs : Insured(ip) => Insured(ip)'
             /\ m = n => Insured(i)'
  <2>1. PICK a : a = [add[n] EXCEPT !.mac = m, !.pc = IF m = n THEN "mark" ELSE "move"]
    OBVIOUS
  <2>2. add' = [add EXCEPT ![n] = a] /\ a.ip = i /\ (m = n => a.pc = "mark")
    BY <1>2, <2>1 DEF localAttach, AddsType, AddRec
  <2> QED BY <1>1, <2>2, AddInsured, OthersSame DEF Makes, Marks
<1>3. CASE UNCHANGED vpc /\ (NoFault \/ Failure("api")) /\ \E m : localAttach(n, m)
  <2>1. Exposed' \subseteq Exposed
    BY <1>2, <1>3, NoneExposed
  <2> QED BY <1>3, <2>1, FreeStep, LostGrows
<1>4. CASE vpc' = [vpc EXCEPT ![i] = n] /\ localAttach(n, n) /\ NoFault
  <2>1. \A ip \in IPs \ {i} : vpc'[ip] = vpc[ip]
    BY <1>4 DEF CloudType
  <2>2. Exposed' \subseteq Exposed
    BY <1>2, <1>4, <2>1, NoneExposed
  <2> QED BY <1>4, <2>2, FreeStep, LostGrows
<1>5. CASE Fault("api") /\ localAttach(n, None) /\ vpc' \in {vpc, [vpc EXCEPT ![i] = n]}
  <2>1. \A ip \in IPs \ {i} : vpc'[ip] = vpc[ip]
    BY <1>5 DEF CloudType
  <2>2. Exposed' \subseteq Exposed \cup {i}
    BY <1>2, <1>5, <2>1, OneExposed
  <2> QED BY <1>1, <1>5, <2>2, PaidStep, LostGrows
<1> QED BY <1>3, <1>4, <1>5 DEF uapiDescribeSecondaryIp

LEMMA BudgetMove ==
  ASSUME Shape, ExposedBound, NEW n \in Nodes, uapiMoveSecondaryIPMac(n)
  PROVE  ExposedBound'
<1> USE ShapeParts
<1> PICK i : i = add[n].ip
  OBVIOUS
<1>1. UNCHANGED <<claim, vip>> /\ add[n].pc = "move" /\ i \in IPs
  BY AddHas DEF uapiMoveSecondaryIPMac, kubeVars, ctlVars
<1>2. \A ip \in IPs : vpc'[ip] # None => vpc[ip] # None
  <2>1. UNCHANGED vpc \/ (vpc[i] # None /\ vpc' = [vpc EXCEPT ![i] = n])
    BY DEF uapiMoveSecondaryIPMac
  <2> QED BY <1>1, <2>1 DEF CloudType
<1>3. PICK a : add' = [add EXCEPT ![n] = a]
  <2>1. CASE Fail(n)
    BY <2>1 DEF Fail
  <2>2. CASE Go(n, "mark")
    BY <2>2 DEF Go
  <2> QED BY <2>1, <2>2 DEF uapiMoveSecondaryIPMac
<1>4. \A ip \in IPs : Insured(ip) => Insured(ip)'
  BY <1>1, <1>3, AddInsured, OthersSame DEF Makes, Marks
<1>5. lost' = lost
  BY LostGrows DEF uapiMoveSecondaryIPMac
<1>6. Exposed' \subseteq Exposed
  BY <1>2, <1>4, NoneExposed
<1> QED BY <1>5, <1>6, FreeStep, LostGrows

LEMMA BudgetMark ==
  ASSUME Shape, ExposedBound, NEW n \in Nodes, markVPCIpClaimAttached(n)
  PROVE  ExposedBound'
<1> USE ShapeParts
<1> PICK p : p = add[n].pod
  OBVIOUS
<1> PICK i : i = add[n].ip
  OBVIOUS
<1> PICK c : c = Attached(claim[p], n, pod[p] # NoPod)
  OBVIOUS
<1>1. UNCHANGED <<vpc, vip>> /\ add[n].pc = "mark" /\ p \in Pods /\ i \in IPs
  <2>1. UNCHANGED <<vpc, vip>> /\ add[n].pc = "mark"
    BY DEF markVPCIpClaimAttached, cloudVars, ctlVars
  <2> QED BY <2>1, AddHas
<1>2. claim' = claim \/ (claim[p] # None /\ claim' = [claim EXCEPT ![p] = c])
  BY DEF markVPCIpClaimAttached
<1>3. claim[p] # None => c # None /\ c.ip = claim[p].ip
  <2>1. (pod[p] # NoPod) \in BOOLEAN /\ (claim[p] # None => claim[p] \in ClaimType)
    BY <1>1 DEF ClaimsType
  <2>2. claim[p] # None => c \in ClaimType /\ c.ip = claim[p].ip
    BY <2>1, AttachedType
  <2> QED BY <2>2, StaticAssumption
<1>4. \A ip \in IPs, q \in Pods : Binds(q, ip) => Binds(q, ip)'
  BY <1>1, <1>2, <1>3 DEF Binds, ClaimsType
<1>5. PICK a : add' = [add EXCEPT ![n] = a]
  <2>1. CASE Fail(n)
    BY <2>1 DEF Fail
  <2>2. CASE ~Fail(n)
    BY <2>2 DEF markVPCIpClaimAttached
  <2> QED BY <2>1, <2>2
<1>6. \A ip \in IPs : Returning(ip) => Returning(ip)'
  BY <1>1 DEF Returning
<1>7. \A ip \in IPs \ {i} : Insured(ip) => Insured(ip)'
  BY <1>1, <1>4, <1>5, <1>6, AddInsured DEF Makes, Marks
<1>8. CASE lost' = lost + 1
  <2>1. Exposed' \subseteq Exposed \cup {i}
    BY <1>1, <1>7, OneExposed
  <2> QED BY <1>1, <1>8, <2>1, PaidStep
<1>9. CASE claim[p] # None /\ claim[p].ip = i /\ lost' = lost
  <2>1. Binds(p, i)
    BY <1>9 DEF Binds
  <2>2. Insured(i)'
    BY <1>1, <1>4, <2>1 DEF Insured
  <2>3. Exposed' \subseteq Exposed
    BY <1>1, <1>7, <2>2, NoneExposed
  <2> QED BY <1>9, <2>3, FreeStep, LostGrows
<1> QED BY <1>8, <1>9 DEF markVPCIpClaimAttached

LEMMA BudgetAnswer ==
  ASSUME Shape, ExposedBound, NEW n \in Nodes, answerAdd(n)
  PROVE  ExposedBound'
<1> USE ShapeParts
<1>1. UNCHANGED <<claim, vip>> /\ add[n].pc = "check" /\ Fail(n) /\ add[n].ip \in IPs
  BY AddHas DEF answerAdd, kubeVars, ctlVars
<1>2. \A ip \in IPs : vpc'[ip] # None => vpc[ip] # None
  BY <1>1 DEF answerAdd, checkIPConflict, Drop, CloudType
<1>3. \A ip \in IPs : Insured(ip) => Insured(ip)'
  BY <1>1, AddInsured, OthersSame DEF Makes, Marks, Fail
<1>4. lost' = lost \/ lost' = lost + 1
  BY LostGrows DEF answerAdd, checkIPConflict
<1>5. Exposed' \subseteq Exposed
  BY <1>2, <1>3, NoneExposed
<1> QED BY <1>4, <1>5, FreeStep, LostGrows

LEMMA BudgetCrash ==
  ASSUME Shape, ExposedBound, NEW n \in Nodes, Crash(n)
  PROVE  ExposedBound'
<1> USE ShapeParts
<1> PICK i : i = add[n].ip
  OBVIOUS
<1>1. UNCHANGED <<vpc, claim, vip>> /\ add' = [add EXCEPT ![n] = Idle] /\ Fault("crash")
  BY DEF Crash, cloudVars, kubeVars, ctlVars
<1>2. \A ip \in IPs : Insured(ip) => Insured(ip)' \/ ip = i
  BY <1>1, AddInsured, OthersSame DEF Makes, Marks
<1>3. CASE i \in IPs
  <2>1. Exposed' \subseteq Exposed \cup {i}
    BY <1>1, <1>2, OneExposed
  <2> QED BY <1>1, <1>3, <2>1, PaidStep, LostGrows
<1>4. CASE i \notin IPs
  <2>1. Exposed' \subseteq Exposed
    BY <1>1, <1>2, <1>4, NoneExposed
  <2> QED BY <1>1, <2>1, FreeStep, LostGrows
<1> QED BY <1>3, <1>4

(* The vip-controller.  A removed claim goes to the queue of releases.     *)
LEMMA BudgetRemove ==
  ASSUME Shape, ExposedBound, NEW p \in Pods, claim[p] # None, Remove(p), UNCHANGED <<vpc, add, lost>>
  PROVE  ExposedBound'
<1> USE ShapeParts
<1> PICK d : d = [pod |-> p, ip |-> claim[p].ip, mac |-> claim[p].mac]
  OBVIOUS
<1>1. d.ip = claim[p].ip /\ vip'.queue = vip.queue \cup {d} /\ vip'.release = vip.release
  BY DEF Remove, VipType
<1>2. \A ip \in IPs : (Returning(ip) \/ Binds(p, ip)) => Returning(ip)'
  BY <1>1 DEF Returning, Binds
<1>3. \A ip \in IPs, q \in Pods \ {p} : Binds(q, ip) => Binds(q, ip)'
  BY DEF Remove, Binds, ClaimsType
<1>4. \A ip \in IPs, n \in Nodes : (Makes(n, ip) => Makes(n, ip)') /\ (Marks(n, ip) => Marks(n, ip)')
  BY DEF Makes, Marks
<1>5. \A ip \in IPs : Insured(ip) => Insured(ip)'
  BY <1>2, <1>3, <1>4 DEF Insured
<1>6. Exposed' \subseteq Exposed
  BY <1>5, NoneExposed
<1> QED BY <1>6, FreeStep, LostGrows

LEMMA BudgetRelabel ==
  ASSUME Shape, ExposedBound, NEW p \in Pods, NEW c \in ClaimType, claim[p] # None, c.ip = claim[p].ip,
         claim' = [claim EXCEPT ![p] = c], UNCHANGED <<vpc, add, vip, lost>>
  PROVE  ExposedBound'
<1> USE ShapeParts
<1>1. \A ip \in IPs, q \in Pods : Binds(q, ip) => Binds(q, ip)'
  BY StaticAssumption DEF Binds, ClaimsType
<1>2. \A ip \in IPs, n \in Nodes : (Makes(n, ip) => Makes(n, ip)') /\ (Marks(n, ip) => Marks(n, ip)')
  BY DEF Makes, Marks
<1>3. \A ip \in IPs : Insured(ip) => Insured(ip)'
  BY <1>1, <1>2 DEF Insured, Returning
<1>4. Exposed' \subseteq Exposed
  BY <1>3, NoneExposed
<1> QED BY <1>4, FreeStep, LostGrows

LEMMA BudgetDetach ==
  ASSUME Shape, ExposedBound, NEW p \in Pods, markVPCIpClaimDetached(p), UNCHANGED <<vpc, add>>
  PROVE  ExposedBound'
<1> USE ShapeParts
<1>1. lost' = lost
  BY LostGrows DEF markVPCIpClaimDetached
<1>2. CASE UNCHANGED <<claim, vip>>
  BY <1>1, <1>2, BudgetAside
<1>3. CASE claim[p] # None /\ Remove(p)
  BY <1>1, <1>3, BudgetRemove
<1>4. CASE claim[p] # None /\ claim' = [claim EXCEPT ![p].st = "detached", ![p].due = FALSE] /\ UNCHANGED vip
  <2> DEFINE c == [claim[p] EXCEPT !.st = "detached", !.due = FALSE]
  <2>1. claim' = [claim EXCEPT ![p] = c] /\ c.ip = claim[p].ip /\ c \in ClaimType
    BY <1>4 DEF ClaimsType, ClaimType
  <2> HIDE DEF c
  <2> QED BY <1>1, <1>4, <2>1, BudgetRelabel
<1> QED BY <1>2, <1>3, <1>4 DEF markVPCIpClaimDetached

LEMMA BudgetController ==
  ASSUME Shape, ExposedBound, UpdateStep \/ DeleteStep \/ CleanStep \/ \E p \in Pods : Expire(p)
  PROVE  ExposedBound'
<1> USE ShapeParts
<1>1. CASE onStsUpdate \/ GetReplicas \/ (\E p \in Pods : UpdateCheck(p)) \/ onStsDelete \/ vipCheckAndClean
           \/ \E p \in Pods : CleanCheck(p)
  <2>1. UNCHANGED <<vpc, claim, add, vip>>
    BY <1>1 DEF onStsUpdate, GetReplicas, UpdateCheck, onStsDelete, vipCheckAndClean, CleanCheck, cloudVars, kubeVars
  <2>2. lost' = lost \/ lost' = lost + 1
    BY <1>1, LostGrows DEF onStsUpdate, GetReplicas, UpdateCheck, onStsDelete, vipCheckAndClean, CleanCheck, history
  <2> QED BY <2>1, <2>2, BudgetAside
<1>2. CASE UpdateDetach
  <2>1. upd.item \in Pods /\ markVPCIpClaimDetached(upd.item) /\ UNCHANGED <<vpc, add>>
    BY <1>2 DEF UpdateDetach, cloudVars, CtlType, UpdRec
  <2> QED BY <2>1, BudgetDetach
<1>3. ASSUME NEW p \in Pods, DeleteDetach(p) PROVE ExposedBound'
  BY <1>3, BudgetDetach DEF DeleteDetach, cloudVars
<1>4. CASE CleanDelete
  <2>1. gc.item \in Pods /\ UNCHANGED <<vpc, add>>
    BY <1>4 DEF CleanDelete, cloudVars, CtlType
  <2>2. lost' = lost
    BY <1>4, LostGrows DEF CleanDelete
  <2>3. CASE UNCHANGED <<claim, vip>>
    BY <2>1, <2>2, <2>3, BudgetAside
  <2>4. CASE claim[gc.item] # None /\ Remove(gc.item)
    BY <2>1, <2>2, <2>4, BudgetRemove
  <2>5. CASE claim[gc.item] # None /\ claim' = [claim EXCEPT ![gc.item].doomed = TRUE] /\ UNCHANGED vip
    <3> DEFINE c == [claim[gc.item] EXCEPT !.doomed = TRUE]
    <3>1. claim' = [claim EXCEPT ![gc.item] = c] /\ c.ip = claim[gc.item].ip /\ c \in ClaimType
      BY <2>1, <2>5 DEF ClaimsType, ClaimType
    <3> HIDE DEF c
    <3> QED BY <2>1, <2>2, <2>5, <3>1, BudgetRelabel
  <2> QED BY <1>4, <2>3, <2>4, <2>5 DEF CleanDelete
<1>5. ASSUME NEW p \in Pods, Expire(p) PROVE ExposedBound'
  <2>1. claim[p] # None /\ claim' = [claim EXCEPT ![p].due = TRUE] /\ UNCHANGED <<vpc, add, vip, lost>>
    BY <1>5 DEF Expire, cloudVars, ctlVars, history
  <2> DEFINE c == [claim[p] EXCEPT !.due = TRUE]
  <2>2. claim' = [claim EXCEPT ![p] = c] /\ c.ip = claim[p].ip /\ c \in ClaimType
    BY <2>1 DEF ClaimsType, ClaimType
  <2> HIDE DEF c
  <2> QED BY <2>1, <2>2, BudgetRelabel
<1> QED BY <1>1, <1>2, <1>3, <1>4, <1>5 DEF UpdateStep, DeleteStep, CleanStep

(* A release that is left out or fails is paid for; one that works         *)
(* detaches the address.                                                   *)
LEMMA BudgetVip ==
  ASSUME Shape, ExposedBound, NEW v \in Deleted, onVipDelete(v) \/ releaseVPCIp(v)
  PROVE  ExposedBound'
<1> USE ShapeParts
<1> PICK i : i = v.ip
  OBVIOUS
<1>1. i \in IPs /\ UNCHANGED <<claim, add>>
  BY DEF Deleted, onVipDelete, releaseVPCIp, kubeVars
<1>2. \A ip \in IPs : vpc'[ip] # None => vpc[ip] # None
  BY <1>1 DEF onVipDelete, releaseVPCIp, cloudVars, CloudType
<1>3. \A w \in vip.queue \cup vip.release : w # v => w \in vip'.queue \cup vip'.release
  BY DEF onVipDelete, releaseVPCIp, VipType
<1>4. \A ip \in IPs \ {i} : Returning(ip) => Returning(ip)'
  BY <1>3 DEF Returning
<1>5. \A ip \in IPs : (Returning(ip) => Returning(ip)') => (Insured(ip) => Insured(ip)')
  BY <1>1 DEF Insured, Makes, Marks, Binds
<1>6. CASE lost' = lost + 1
  <2>1. Exposed' \subseteq Exposed \cup {i}
    BY <1>2, <1>4, <1>5, OneExposed
  <2> QED BY <1>1, <1>6, <2>1, PaidStep
<1>7. CASE v \in vip'.release /\ lost' = lost
  <2>1. Returning(i)'
    BY <1>7 DEF Returning
  <2>2. Exposed' \subseteq Exposed
    BY <1>2, <1>4, <1>5, <2>1, NoneExposed
  <2> QED BY <1>7, <2>2, FreeStep, LostGrows
<1>8. CASE vpc'[i] = None /\ lost' = lost
  <2>1. Exposed' \subseteq Exposed
    BY <1>2, <1>4, <1>5, <1>8, NoneExposed
  <2> QED BY <1>8, <2>1, FreeStep, LostGrows
<1>9. CASE onVipDelete(v)
  <2>1. (v \in vip'.release /\ lost' = lost) \/ lost' = lost + 1
    BY <1>9, LostGrows DEF onVipDelete
  <2> QED BY <1>6, <1>7, <2>1
<1>10. CASE releaseVPCIp(v)
  <2>1. (vpc'[i] = None /\ lost' = lost) \/ lost' = lost + 1
    BY <1>1, <1>10, LostGrows DEF releaseVPCIp, CloudType
  <2> QED BY <1>6, <1>8, <2>1
<1> QED BY <1>9, <1>10

(* A restart of the vip-controller costs at most one address for each      *)
(* deleted claim it forgets.                                               *)
LEMMA BudgetRestart ==
  ASSUME Shape, ExposedBound, CtlRestart
  PROVE  ExposedBound'
<1> USE ShapeParts
<1> PICK Q : Q = vip.queue \cup vip.release
  OBVIOUS
<1> DEFINE S == {v.ip : v \in Q}
           f == [v \in Q |-> v.ip]
<1>1. IsFiniteSet(Q) /\ S \in SUBSET IPs
  <2>1. PICK A, B : A = vip.queue /\ B = vip.release
    OBVIOUS
  <2>2. IsFiniteSet(A) /\ IsFiniteSet(B) /\ A \subseteq Deleted /\ B \subseteq Deleted
    BY <2>1 DEF VipType
  <2>3. IsFiniteSet(A \cup B)
    BY <2>2, FS_Union
  <2>4. \A v \in Q : v.ip \in IPs
    BY <2>1, <2>2 DEF Deleted
  <2> QED BY <2>1, <2>3, <2>4
<1>2. f \in Surjection(Q, S)
  BY DEF Surjection
<1>3. Cardinality(S) <= Cardinality(Q) /\ Cardinality(Q) \in Nat
  <2> HIDE DEF f, S
  <2> QED BY <1>1, <1>2, FS_Surjection, FS_CardinalityType
<1>4. UNCHANGED <<vpc, claim, add>> /\ lost' = lost + Cardinality(Q)
  BY DEF CtlRestart, cloudVars, kubeVars
<1>5. \A ip \in IPs : Insured(ip) => Insured(ip)' \/ ip \in S
  BY <1>4 DEF Insured, Makes, Marks, Binds, Returning
<1>6. Exposed' \subseteq Exposed \cup S
  BY <1>4, <1>5 DEF Exposed
<1> HIDE DEF S
<1> QED BY <1>1, <1>3, <1>4, <1>6, PaidSet

LEMMA BudgetStep == Shape /\ ExposedBound /\ [Next]_vars => ExposedBound'
<1> SUFFICES ASSUME Shape, ExposedBound, [Next]_vars PROVE ExposedBound'
  OBVIOUS
<1> USE ShapeParts
<1>1. ASSUME \/ \E r \in 0..MaxReplicas : ScaleSts(r)
             \/ DeleteSts \/ CreateSts
             \/ \E p \in Pods, n \in Nodes : CreatePod(p, n)
             \/ \E p \in Pods : RunPod(p) \/ DeletePod(p) \/ ForceDeletePod(p)
             \/ \E b \in box : DelPodNetwork(b)
             \/ UNCHANGED vars
      PROVE  ExposedBound'
  <2>1. UNCHANGED <<vpc, claim, add, vip>>
    BY <1>1 DEF ScaleSts, DeleteSts, CreateSts, CreatePod, RunPod, DeletePod, ForceDeletePod, DelPodNetwork,
         vars, cloudVars, kubeVars, ctlVars
  <2>2. lost' = lost \/ lost' = lost + 1
    BY <1>1, LostGrows DEF ScaleSts, DeleteSts, CreateSts, CreatePod, RunPod, DeletePod, ForceDeletePod,
         DelPodNetwork, vars, history
  <2> QED BY <2>1, <2>2, BudgetAside
<1>2. ASSUME NEW b \in box, setAnnotationForCalicoPolicy(b) PROVE ExposedBound'
  <2>1. UNCHANGED <<claim, add, vip>> /\ Fault("annotate") /\ Drop(b.ip, b.node) /\ b.ip \in IPs
    BY <1>2 DEF setAnnotationForCalicoPolicy, setPodAnnotation, kubeVars, ctlVars, BoxType, BoxRec
  <2>2. \A ip \in IPs : vpc'[ip] # None => vpc[ip] # None
    BY <2>1 DEF Drop, CloudType
  <2> QED BY <2>1, <2>2, BudgetAside, LostGrows
<1>3. ASSUME NEW n \in Nodes, releasePool(n) PROVE ExposedBound'
  <2>1. PICK i \in IPs : vpc' = [vpc EXCEPT ![i] = IF @ = n THEN None ELSE @]
    BY <1>3 DEF releasePool, CloudType
  <2>2. \A ip \in IPs : vpc'[ip] # None => vpc[ip] # None
    BY <2>1 DEF CloudType
  <2>3. UNCHANGED <<claim, add, vip>> /\ (lost' = lost \/ lost' = lost + 1)
    BY <1>3, LostGrows DEF releasePool, kubeVars, ctlVars
  <2> QED BY <2>2, <2>3, BudgetAside
<1>4. ASSUME NEW n \in Nodes, AddStep(n) PROVE ExposedBound'
  BY <1>4, BudgetAssign, BudgetCreate, BudgetDescribe, BudgetMove, BudgetMark, BudgetAnswer DEF AddStep
<1> QED BY <1>1, <1>2, <1>3, <1>4, BudgetFind, BudgetCrash, BudgetController, BudgetVip, BudgetRestart
        DEF Next, VipStep

(* Static addresses leak no faster than calls fail, claims go under an ADD *)
(* or a sandbox, and the vip-controller gives up or forgets deleted        *)
(* claims: every address that is attached in the VPC and that nobody will  *)
(* release is exposed, and every exposed address has been paid for.        *)
THEOREM StaticLeaksBounded == Spec => []StaticLeakBound
<1>1. Init => ExposedBound
  <2> SUFFICES ASSUME Init PROVE ExposedBound
    OBVIOUS
  <2>1. Exposed = {} /\ lost = 0
    BY DEF Init, Exposed
  <2>2. Cardinality({}) = 0
    BY FS_EmptySet
  <2> QED BY <2>1, <2>2 DEF ExposedBound
<1>2. Shape /\ ExposedBound => StaticLeakBound
  <2> SUFFICES ASSUME Shape, ExposedBound PROVE StaticLeakBound
    OBVIOUS
  <2> PICK A : A = Exposed
    OBVIOUS
  <2> PICK L : L = Leaked
    OBVIOUS
  <2>1. L \subseteq A
    <3> SUFFICES ASSUME NEW ip \in Leaked PROVE ip \in Exposed
      OBVIOUS
    <3>1. /\ ip \in IPs /\ vpc[ip] # None /\ Owners(ip) = {}
          /\ \A n \in Nodes : add[n].ip # ip
          /\ \A v \in vip.queue \cup vip.release : v.ip # ip
      BY DEF Leaked
    <3>2. \A p \in Pods : ~Binds(p, ip)
      BY <3>1 DEF Owners, Binds
    <3>3. ~Insured(ip)
      BY <3>1, <3>2 DEF Insured, Makes, Marks, Returning
    <3> QED BY <3>1, <3>3 DEF Exposed
  <2>2. IsFiniteSet(A) /\ Cardinality(A) \in Nat /\ Cardinality(L) \in Nat
    <3>1. L \in SUBSET IPs
      BY DEF Leaked
    <3> QED BY <3>1, ExposedSets
  <2>3. Cardinality(L) <= Cardinality(A)
    BY <2>1, <2>2, FS_Subset
  <2>4. Cardinality(A) <= lost /\ lost \in Nat
    BY ShapeParts DEF ExposedBound, HistType
  <2>5. Cardinality(L) <= lost
    BY <2>2, <2>3, <2>4
  <2> QED BY <2>5 DEF StaticLeakBound
<1> QED BY <1>1, <1>2, ShapeInit, ShapeStep, BudgetStep, PTL DEF Spec
=============================================================================
