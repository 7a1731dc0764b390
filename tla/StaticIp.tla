------------------------------ MODULE StaticIp ------------------------------
(***************************************************************************)
(* Addresses that stay with a StatefulSet pod.  ipamd on each node binds   *)
(* an address to the pod's name in a VpcIpClaim (pkg/ipamd/vpcclaim.go,    *)
(* pool.go) and moves it to the node of the pod at every ADD; the          *)
(* vip-controller (cmd/vip-controller) detaches the claims of pods that a  *)
(* StatefulSet no longer wants, deletes detached claims whose release time *)
(* has come, and returns the addresses of deleted claims to the VPC.       *)
(* Every call to the Kubernetes API and to the VPC is a step of its own.   *)
(* The pool and the cooldown of a node are one set here (Ipamd has them    *)
(* apart), and a node has one network interface.                           *)
(***************************************************************************)
EXTENDS Integers, FiniteSets

CONSTANTS
  Nodes, IPs,
  MaxReplicas,  \* bound: the pods of the StatefulSet are 0..MaxReplicas-1
  MaxScale,     \* bound: how often users scale, delete or create the StatefulSet
  MaxStart,     \* bound: how many pods are created
  Limit,        \* the page size of the garbage collector's List
  FaultKinds,   \* the kinds of fault the environment may inject
  MaxFaults,    \* bound: how many faults it injects
  None

Pods == 0..(MaxReplicas - 1)

(* A VpcIpClaim: address, interface, the label and status of attachment,   *)
(* whether it has a release time and that time has come, and whether its   *)
(* deletion waits for the finalizer.                                       *)
ClaimType == [ip : IPs, mac : Nodes, st : {"new", "attached", "detached"},
              timed : BOOLEAN, due : BOOLEAN, doomed : BOOLEAN]

ASSUME StaticAssumption ==
  /\ MaxReplicas \in Nat /\ MaxScale \in Nat /\ MaxStart \in Nat
  /\ Limit \in Nat /\ MaxFaults \in Nat
  /\ IsFiniteSet(IPs) /\ IsFiniteSet(Nodes)
  /\ None \notin Nodes \cup IPs \cup Pods \cup ClaimType /\ Nodes \cap Pods = {}

VARIABLES
  vpc,      \* VPC: the node each address is attached to
  keep,     \* each node's pool and cooldown
  claim,    \* the VpcIpClaim of each pod name
  pod,      \* the pod of each name at the API server
  box,      \* the sandboxes that hold an address on some node
  add,      \* the manager goroutine of each node's ipamd, inside an ADD
  sts,      \* the StatefulSet: whether it exists, and its replicas
  upd,      \* StsController, update queue and worker
  dels,     \* StsController, delete queue and worker
  gc,       \* reconcileDetachedVip
  vip,      \* VipController, delete queue and workers
  scales, starts, faults,   \* bounded counters
  lost,     \* history: how many steps so far may each cost an address
  risky     \* history: the addresses an unguarded step has touched

cloudVars == <<vpc, keep>>
kubeVars == <<claim, pod, sts>>
ctlVars == <<upd, dels, gc, vip>>
boundVars == <<scales, starts>>
history == <<faults, lost, risky>>
vars == <<cloudVars, kubeVars, box, add, ctlVars, boundVars, history>>

Idle == [pc |-> "idle", pod |-> None, uid |-> 0, ip |-> None, mac |-> None, fresh |-> FALSE]
NoPod == [phase |-> "none", node |-> None, uid |-> 0]
IdleWorker == [todo |-> {}, item |-> None]
NoUpdate == [queued |-> FALSE, stuck |-> FALSE, listed |-> FALSE, todo |-> {}, item |-> None]
Deleted == [pod : Pods, ip : IPs, mac : Nodes]

TypeOK ==
  /\ vpc \in [IPs -> Nodes \cup {None}]
  /\ keep \in [Nodes -> SUBSET IPs]
  /\ claim \in [Pods -> ClaimType \cup {None}]
  /\ pod \in [Pods -> [phase : {"none", "Pending", "Running"}, node : Nodes \cup {None},
                   uid : 0..MaxStart]]
  /\ box \subseteq [pod : Pods, uid : 1..MaxStart, node : Nodes, ip : IPs]
  /\ add \in [Nodes -> [pc : {"idle", "assign", "create", "describe", "move", "mark", "check"},
                        pod : Pods \cup {None}, uid : 0..MaxStart, ip : IPs \cup {None},
                        mac : Nodes \cup {None}, fresh : BOOLEAN]]
  /\ sts \in [exists : BOOLEAN, replicas : 0..MaxReplicas]
  /\ upd \in [queued : BOOLEAN, stuck : BOOLEAN, listed : BOOLEAN, todo : SUBSET Pods, item : Pods \cup {None}]
  /\ dels \in [queued : BOOLEAN, todo : SUBSET Pods]
  /\ gc \in [todo : SUBSET Pods, item : Pods \cup {None}]
  /\ vip \in [queue : SUBSET Deleted, release : SUBSET Deleted]
  /\ scales \in 0..MaxScale /\ starts \in 0..MaxStart /\ faults \in 0..MaxFaults
  /\ lost \in Nat /\ risky \subseteq IPs

Init ==
  /\ vpc = [ip \in IPs |-> None]
  /\ keep = [n \in Nodes |-> {}]
  /\ claim = [p \in Pods |-> None]
  /\ pod = [p \in Pods |-> NoPod]
  /\ box = {}
  /\ add = [n \in Nodes |-> Idle]
  /\ sts = [exists |-> TRUE, replicas |-> MaxReplicas]
  /\ upd = NoUpdate
  /\ dels = [queued |-> FALSE, todo |-> {}]
  /\ gc = IdleWorker
  /\ vip = [queue |-> {}, release |-> {}]
  /\ scales = 0 /\ starts = 0 /\ faults = 0
  /\ lost = 0 /\ risky = {}

(* A call that fails, or a process that dies.                              *)
Fault(k) ==
  /\ k \in FaultKinds /\ faults < MaxFaults
  /\ faults' = faults + 1
  /\ lost' = lost + 1
(* A failure that leaves no address behind.                                *)
Failure(k) ==
  /\ k \in FaultKinds /\ faults < MaxFaults
  /\ faults' = faults + 1
  /\ UNCHANGED lost
NoFault == UNCHANGED <<faults, lost>>

-----------------------------------------------------------------------------
(* The StatefulSet and its pods, as users, the StatefulSet controller and  *)
(* the kubelets drive them.  A pod above the replicas may linger: an       *)
(* ordered scale-down waits for the pods below it.  needHandleVpcIpClaim   *)
(* holds of this StatefulSet, so that every update of it, the status       *)
(* update after a pod is gone included, queues its key.                    *)

Notify == upd' = [upd EXCEPT !.queued = @ \/ sts'.exists]

ScaleSts(r) ==
  /\ sts.exists /\ scales < MaxScale
  /\ sts' = [sts EXCEPT !.replicas = r]
  /\ scales' = scales + 1
  /\ Notify
  /\ UNCHANGED <<cloudVars, claim, pod, box, add, dels, gc, vip, starts, history>>

DeleteSts ==
  /\ sts.exists /\ scales < MaxScale /\ ~dels.queued
  /\ sts' = [exists |-> FALSE, replicas |-> 0]
  /\ scales' = scales + 1
  /\ dels' = [dels EXCEPT !.queued = TRUE]
  /\ UNCHANGED <<cloudVars, claim, pod, box, add, upd, gc, vip, starts, history>>

CreateSts ==
  /\ ~sts.exists
  /\ sts' = [exists |-> TRUE, replicas |-> MaxReplicas]
  /\ UNCHANGED <<cloudVars, claim, pod, box, add, ctlVars, boundVars, history>>

CreatePod(p, n) ==
  /\ sts.exists /\ p < sts.replicas
  /\ pod[p] = NoPod /\ starts < MaxStart
  /\ pod' = [pod EXCEPT ![p] = [phase |-> "Pending", node |-> n, uid |-> starts + 1]]
  /\ starts' = starts + 1
  /\ UNCHANGED <<cloudVars, claim, sts, box, add, ctlVars, scales, history>>

OwnBox(p) == {b \in box : b.uid = pod[p].uid}

RunPod(p) ==
  /\ pod[p].phase = "Pending" /\ OwnBox(p) # {}
  /\ pod' = [pod EXCEPT ![p].phase = "Running"]
  /\ UNCHANGED <<cloudVars, claim, sts, box, add, ctlVars, boundVars, history>>

(* A kubelet removes the pod after it has torn down its sandbox.           *)
DeletePod(p) ==
  /\ pod[p] # NoPod /\ OwnBox(p) = {} /\ add[pod[p].node].uid # pod[p].uid
  /\ pod' = [pod EXCEPT ![p] = NoPod]
  /\ UNCHANGED sts /\ Notify
  /\ UNCHANGED <<cloudVars, claim, box, add, dels, gc, vip, boundVars, history>>

(* A pod of a lost node is removed by force; its sandbox may live on.      *)
ForceDeletePod(p) ==
  /\ pod[p] # NoPod /\ Fault("force")
  /\ pod' = [pod EXCEPT ![p] = NoPod]
  /\ UNCHANGED sts /\ Notify
  /\ UNCHANGED <<cloudVars, claim, box, add, dels, gc, vip, boundVars, risky>>

-----------------------------------------------------------------------------
(* ipamd: the static branch of getPodIp, in the manager goroutine, which   *)
(* serves one request at a time.                                           *)

Go(n, pc) == add' = [add EXCEPT ![n].pc = pc]
Fail(n) == add' = [add EXCEPT ![n] = Idle]

(* The pod is at the API server; it belongs to the StatefulSet and has the *)
(* annotation, as every pod of this module, and claims can be listed.      *)
podEnableStaticIP(n, p) == pod[p].node = n

(* A failure of either lookup leaves no trace, and kubelet calls again.    *)
findStaticIp(n, p) ==
  /\ add[n] = Idle
  /\ podEnableStaticIP(n, p) /\ OwnBox(p) = {}
  /\ add' = [add EXCEPT ![n] =
       IF claim[p] = None
       THEN [Idle EXCEPT !.pc = "assign", !.pod = p, !.uid = pod[p].uid, !.fresh = TRUE]
       ELSE [pc |-> "describe", pod |-> p, uid |-> pod[p].uid,
             ip |-> claim[p].ip, mac |-> claim[p].mac, fresh |-> FALSE]]
  /\ UNCHANGED <<cloudVars, kubeVars, box, ctlVars, boundVars, history>>

(* An address from the pool, else a new one from the VPC, else one that    *)
(* another node lends (borrowIP, whose steps are those of Ipamd).          *)
OutOfIP == \A ip \in IPs : vpc[ip] # None

assignPodIP(n) ==
  LET Got(ip) == add' = [add EXCEPT ![n].pc = "create", ![n].ip = ip] IN
  /\ add[n].pc = "assign"
  /\ \/ \E ip \in keep[n] :
          keep' = [keep EXCEPT ![n] = @ \ {ip}] /\ Got(ip) /\ UNCHANGED vpc /\ NoFault
     \/ \E ip \in IPs :
          /\ keep[n] = {} /\ vpc[ip] = None
          /\ vpc' = [vpc EXCEPT ![ip] = n]
          /\ (Got(ip) /\ NoFault) \/ (Fail(n) /\ Fault("api"))
          /\ UNCHANGED keep
     \/ \E m \in Nodes \ {n} : \E ip \in keep[m] :
          /\ keep[n] = {} /\ OutOfIP /\ vpc[ip] = m
          /\ vpc' = [vpc EXCEPT ![ip] = n]
          /\ keep' = [keep EXCEPT ![m] = @ \ {ip}]
          /\ Got(ip) /\ NoFault
     \/ keep[n] = {} /\ OutOfIP /\ Fail(n) /\ UNCHANGED cloudVars /\ NoFault
  /\ UNCHANGED <<kubeVars, box, ctlVars, boundVars, risky>>

PodNetworkToVip_NoMac(ip, n) ==
  [ip |-> ip, mac |-> None, st |-> "new", timed |-> FALSE, due |-> FALSE, doomed |-> FALSE]
PodNetworkToVip(ip, n) ==
  [ip |-> ip, mac |-> n, st |-> "new", timed |-> FALSE, due |-> FALSE, doomed |-> FALSE]

(* A definite rejection puts the address back, an ambiguous error (the     *)
(* claim may exist) does not.  AlreadyExists counts as ambiguous.          *)
Definite_Any == {"reject", "ambiguous"}
Definite == {"reject"}

createVpcIpClaim(n) ==
  LET p == add[n].pod
      created == [claim EXCEPT ![p] = PodNetworkToVip(add[n].ip, n)]
  IN
  /\ add[n].pc = "create"
  /\ \/ claim[p] = None /\ claim' = created /\ UNCHANGED keep /\ NoFault
        /\ add' = [add EXCEPT ![n].pc = "describe", ![n].mac = n]
     \/ claim[p] # None /\ lost' = lost + 1 /\ Fail(n) /\ UNCHANGED <<claim, keep, faults>>
     \/ \E e \in {"reject", "ambiguous"} :
          /\ claim[p] = None /\ Fault(e) /\ Fail(n)
          /\ claim' \in (IF e = "ambiguous" THEN {claim, created} ELSE {claim})
          /\ keep' = IF e \in Definite THEN [keep EXCEPT ![n] = @ \cup {add[n].ip}] ELSE keep
  /\ UNCHANGED <<vpc, pod, sts, box, ctlVars, boundVars, risky>>

(* The address comes from m, as far as is known; without a move it is      *)
(* taken to be here.                                                       *)
localAttach(n, m) ==
  add' = [add EXCEPT ![n].mac = m, ![n].pc = IF m = n THEN "mark" ELSE "move"]

(* Where the VPC has the address.  One that is gone is asked for again;    *)
(* the error of that call is only logged, and the interface is unknown.    *)
uapiDescribeSecondaryIp(n) ==
  LET ip == add[n].ip IN
  /\ add[n].pc = "describe"
  /\ \/ vpc[ip] # None /\ localAttach(n, vpc[ip]) /\ UNCHANGED vpc /\ NoFault
     \/ vpc[ip] = None /\ vpc' = [vpc EXCEPT ![ip] = n] /\ localAttach(n, n) /\ NoFault
     \/ /\ vpc[ip] = None /\ Fault("api") /\ localAttach(n, None)
        /\ vpc' \in {vpc, [vpc EXCEPT ![ip] = n]}
     \/ Failure("api") /\ localAttach(n, add[n].mac) /\ UNCHANGED vpc
  /\ UNCHANGED <<keep, kubeVars, box, ctlVars, boundVars, risky>>

(* The VPC moves an address only from the interface that has it.  A node   *)
(* that the pod has left may still be inside its ADD.                      *)
uapiMoveSecondaryIPMac(n) ==
  LET ip == add[n].ip
      Moved == /\ vpc[ip] = add[n].mac /\ vpc[ip] # None
               /\ vpc' = [vpc EXCEPT ![ip] = n]
               /\ risky' = IF pod[add[n].pod].uid = add[n].uid THEN risky ELSE risky \cup {ip}
  IN
  /\ add[n].pc = "move"
  /\ \/ Moved /\ Go(n, "mark") /\ NoFault
     \/ (Moved \/ UNCHANGED <<vpc, risky>>) /\ Failure("api") /\ Fail(n)
     \/ (vpc[ip] # add[n].mac \/ vpc[ip] = None) /\ Fail(n) /\ UNCHANGED <<vpc, risky>> /\ NoFault
  /\ UNCHANGED <<keep, kubeVars, box, ctlVars, boundVars>>

Attached(c, n, timed) ==
  [c EXCEPT !.st = "attached", !.mac = n, !.timed = timed]

VipToPodNetwork(a, c) == [a EXCEPT !.ip = c.ip, !.mac = c.mac]

(* markVPCIpClaimAttached works on the latest claim of that name; the      *)
(* finalizer is back.  The release time is the pod's, or Never if the pod  *)
(* cannot be read.  Then the claim is read again for the answer.  A claim  *)
(* that was deleted and made again under this ADD binds another address.   *)
markVPCIpClaimAttached(n) ==
  LET p == add[n].pod
      marked == [claim EXCEPT ![p] = Attached(@, n, pod[p] # NoPod)]
      Kept == lost' = IF claim[p].ip = add[n].ip THEN lost ELSE lost + 1
  IN
  /\ add[n].pc = "mark"
  /\ \/ /\ claim[p] # None /\ claim' = marked
        /\ LET a == [add[n] EXCEPT !.pc = "check"] IN
           add' = [add EXCEPT ![n] = IF a.fresh THEN a ELSE VipToPodNetwork(a, claim'[p])]
        /\ Kept /\ UNCHANGED faults
     \/ /\ claim[p] # None /\ claim' \in {claim, marked} /\ Fail(n)
        /\ Kept /\ "api" \in FaultKinds /\ faults < MaxFaults /\ faults' = faults + 1
     \/ claim[p] = None /\ Fail(n) /\ lost' = lost + 1 /\ UNCHANGED <<claim, faults>>
  /\ UNCHANGED <<cloudVars, pod, sts, box, ctlVars, boundVars, risky>>

(* uapiDeleteSecondaryIp, of which an error is only logged, although a     *)
(* claim binds the address.                                                *)
Drop(ip, n) ==
  /\ vpc' \in {vpc, [vpc EXCEPT ![ip] = IF @ = n THEN None ELSE @]}
  /\ risky' = risky \cup {ip}

checkSecondaryIpExist(n) == vpc[add[n].ip] = n

(* Another machine answers for the address.                                *)
checkIPConflict(n) ==
  /\ checkSecondaryIpExist(n) /\ Fault("conflict")
  /\ Drop(add[n].ip, n)

(* The checks of getPodIp, then the answer.                                *)
answerAdd(n) ==
  LET p == add[n].pod
      ip == add[n].ip
  IN
  /\ add[n].pc = "check"
  /\ Fail(n)
  /\ \/ /\ checkSecondaryIpExist(n)
        /\ box' = box \cup {[pod |-> p, uid |-> add[n].uid, node |-> n, ip |-> ip]}
        /\ UNCHANGED <<vpc, risky>> /\ NoFault
     \/ ~checkSecondaryIpExist(n) /\ UNCHANGED <<vpc, box, risky>> /\ NoFault
     \/ Failure("api") /\ UNCHANGED <<vpc, box, risky>>
     \/ checkIPConflict(n) /\ UNCHANGED box
  /\ UNCHANGED <<keep, kubeVars, ctlVars, boundVars>>

(* A pod that is not Running may still be in its ADD, and the patch of its *)
(* annotations may fail.                                                   *)
setPodAnnotation(b) ==
  pod[b.pod].uid = b.uid /\ pod[b.pod].phase = "Pending" /\ Fault("annotate")

(* After the manager's answer the handler of the request writes the        *)
(* annotation for calico; if it cannot, ADD fails after all.               *)
setAnnotationForCalicoPolicy(b) ==
  /\ b \in box /\ setPodAnnotation(b)
  /\ Drop(b.ip, b.node)
  /\ box' = box \ {b}
  /\ UNCHANGED <<keep, kubeVars, add, ctlVars, boundVars>>

(* DEL.  staticIpPodExists asks for a claim of that pod name, whatever its *)
(* address; any error of the lookup counts as "no claim".                  *)
staticIpPodExists_Never(p) == FALSE
staticIpPodExists(p) == claim[p] # None

cooldownIP(b) == keep' = [keep EXCEPT ![b.node] = @ \cup {b.ip}]

DelPodNetwork(b) ==
  /\ b \in box /\ add[b.node] = Idle
  /\ box' = box \ {b}
  /\ \/ /\ staticIpPodExists(b.pod)
        /\ lost' = IF claim[b.pod].ip = b.ip THEN lost ELSE lost + 1
        /\ UNCHANGED <<keep, risky, faults>>
     \/ /\ ~staticIpPodExists(b.pod)
        /\ cooldownIP(b)
        /\ risky' = IF claim[b.pod] = None THEN risky \cup {b.ip} ELSE risky
        /\ NoFault
     \/ /\ staticIpPodExists(b.pod) /\ Fault("lookup")
        /\ cooldownIP(b)
        /\ risky' = risky \cup {b.ip}
  /\ UNCHANGED <<vpc, kubeVars, add, ctlVars, boundVars>>

(* The pool is above its watermark.  If the answer to the delete is lost,  *)
(* the address goes back into the pool.                                    *)
releasePool(n) ==
  \E ip \in keep[n] :
    /\ add[n] = Idle
    /\ vpc' = [vpc EXCEPT ![ip] = IF @ = n THEN None ELSE @]
    /\ \/ keep' = [keep EXCEPT ![n] = @ \ {ip}] /\ NoFault /\ UNCHANGED risky
       \/ vpc[ip] = n /\ Fault("lostdelete") /\ risky' = risky \cup {ip} /\ UNCHANGED keep
    /\ UNCHANGED <<kubeVars, box, add, ctlVars, boundVars>>

(* ipamd dies inside an ADD.                                               *)
Crash(n) ==
  /\ add[n] # Idle /\ Fault("crash")
  /\ add' = [add EXCEPT ![n] = Idle]
  /\ UNCHANGED <<cloudVars, kubeVars, box, ctlVars, boundVars, risky>>

-----------------------------------------------------------------------------
(* The vip-controller.                                                     *)

(* A pod that is not in phase Running counts as not running, even if its   *)
(* sandbox already has the address.                                        *)
ensureStaticIpPodNotRunning_Ignored(p) == TRUE
ensureStaticIpPodNotRunning(p) == pod[p].phase # "Running"

(* The finalizer cni-vpc-ipamd is there from the start, goes with a detach *)
(* and comes back with an attach.                                          *)
Finalizer_NotRestored(c) == c.st = "new"
Finalizer(c) == c.st # "detached"

(* A claim without finalizer disappears, and DeleteFunc queues it.         *)
Remove_Unnoticed(p) ==
  /\ claim' = [claim EXCEPT ![p] = None]
  /\ UNCHANGED vip
Remove(p) ==
  /\ claim' = [claim EXCEPT ![p] = None]
  /\ vip' = [vip EXCEPT !.queue = @ \cup {[pod |-> p, ip |-> claim[p].ip, mac |-> claim[p].mac]}]

(* Its callers ignore an error.                                            *)
markVPCIpClaimDetached(p) ==
  \/ claim[p] = None /\ UNCHANGED <<claim, vip>> /\ NoFault
  \/ claim[p] # None /\ claim[p].doomed /\ Remove(p) /\ NoFault
  \/ /\ claim[p] # None /\ ~claim[p].doomed
     /\ claim' = [claim EXCEPT ![p].st = "detached", ![p].due = FALSE]
     /\ UNCHANGED vip /\ NoFault
  \/ claim[p] # None /\ Failure("k8s") /\ UNCHANGED <<claim, vip>>

AboveReplicas_OffByOne(p) == p > sts.replicas
AboveReplicas(p) == p > sts.replicas - 1

(* processUpdate takes the key and lists the claims that are attached.     *)
(* After an error the key is never Done: it stays in processing, and the   *)
(* queue never hands it out again.                                         *)
AttachedClaims == {p \in Pods : claim[p] # None /\ claim[p].st # "detached"}
onStsUpdate ==
  /\ upd.queued /\ ~upd.stuck /\ ~upd.listed /\ upd.todo = {} /\ upd.item = None
  /\ \/ /\ upd' = [upd EXCEPT !.queued = FALSE, !.todo = AttachedClaims, !.listed = AttachedClaims # {}]
        /\ NoFault
     \/ upd' = [upd EXCEPT !.queued = FALSE, !.stuck = TRUE] /\ Fault("list")
  /\ UNCHANGED <<cloudVars, kubeVars, box, add, dels, gc, vip, boundVars, risky>>

(* The replicas are read after the list (which matters only when there are *)
(* claims); a StatefulSet that is gone ends the update.                    *)
GetReplicas ==
  /\ upd.listed
  /\ upd' = [upd EXCEPT !.listed = FALSE,
                        !.todo = IF sts.exists THEN {p \in @ : AboveReplicas(p)} ELSE {}]
  /\ NoFault
  /\ UNCHANGED <<cloudVars, kubeVars, box, add, dels, gc, vip, boundVars, risky>>

UpdateCheck(p) ==
  /\ ~upd.listed /\ upd.item = None /\ p \in upd.todo
  /\ \/ /\ upd' = [upd EXCEPT !.todo = @ \ {p},
                              !.item = IF ensureStaticIpPodNotRunning(p) THEN p ELSE None]
        /\ NoFault
     \/ upd' = [upd EXCEPT !.todo = @ \ {p}] /\ Failure("k8s")
  /\ UNCHANGED <<cloudVars, kubeVars, box, add, dels, gc, vip, boundVars, risky>>

UpdateDetach ==
  /\ upd.item # None
  /\ upd' = [upd EXCEPT !.item = None]
  /\ markVPCIpClaimDetached(upd.item)
  /\ UNCHANGED <<cloudVars, pod, sts, box, add, dels, gc, boundVars, risky>>

(* All claims of a deleted StatefulSet, whatever their pods do.  An error  *)
(* loses the event.                                                        *)
onStsDelete ==
  /\ dels.queued /\ dels.todo = {}
  /\ \/ dels' = [queued |-> FALSE, todo |-> {p \in Pods : claim[p] # None}] /\ NoFault
     \/ dels' = [dels EXCEPT !.queued = FALSE] /\ Fault("list")
  /\ UNCHANGED <<cloudVars, kubeVars, box, add, upd, gc, vip, boundVars, risky>>

DeleteDetach(p) ==
  /\ p \in dels.todo
  /\ dels' = [dels EXCEPT !.todo = @ \ {p}]
  /\ markVPCIpClaimDetached(p)
  /\ UNCHANGED <<cloudVars, pod, sts, box, add, upd, gc, boundVars, risky>>

(* The release time of a detached claim passes.                            *)
Expire(p) ==
  /\ claim[p] # None /\ claim[p].st = "detached" /\ claim[p].timed /\ ~claim[p].due
  /\ claim' = [claim EXCEPT ![p].due = TRUE]
  /\ UNCHANGED <<cloudVars, pod, sts, box, add, ctlVars, boundVars, history>>

(* One page of the claims labelled attached=false, in name order; the next *)
(* pages are never read.                                                   *)
DetachedPage_Second ==
  LET detached == {p \in Pods : claim[p] # None /\ claim[p].st = "detached"} IN
  {p \in detached : Cardinality({q \in detached : q < p}) >= Limit}
DetachedPage ==
  LET detached == {p \in Pods : claim[p] # None /\ claim[p].st = "detached"} IN
  {p \in detached : Cardinality({q \in detached : q < p}) < Limit}

vipCheckAndClean ==
  /\ gc = IdleWorker
  /\ gc' = [gc EXCEPT !.todo = {p \in DetachedPage : claim[p].timed /\ claim[p].due}]
  /\ gc'.todo # {}
  /\ UNCHANGED <<cloudVars, kubeVars, box, add, upd, dels, vip, boundVars, history>>

CleanCheck(p) ==
  /\ gc.item = None /\ p \in gc.todo
  /\ \/ /\ gc' = [todo |-> gc.todo \ {p},
                  item |-> IF ensureStaticIpPodNotRunning(p) THEN p ELSE None]
        /\ NoFault
     \/ gc' = [gc EXCEPT !.todo = @ \ {p}] /\ Failure("k8s")
  /\ UNCHANGED <<cloudVars, kubeVars, box, add, upd, dels, vip, boundVars, risky>>

(* Delete by name: a claim with its finalizer stays, marked for deletion.  *)
CleanDelete ==
  LET p == gc.item IN
  /\ p # None
  /\ gc' = [gc EXCEPT !.item = None]
  /\ \/ claim[p] = None /\ UNCHANGED <<claim, vip>> /\ NoFault
     \/ claim[p] # None /\ ~Finalizer(claim[p]) /\ Remove(p) /\ NoFault
     \/ /\ claim[p] # None /\ Finalizer(claim[p])
        /\ claim' = [claim EXCEPT ![p].doomed = TRUE] /\ UNCHANGED vip /\ NoFault
     \/ claim[p] # None /\ Failure("k8s") /\ UNCHANGED <<claim, vip>>
  /\ UNCHANGED <<cloudVars, pod, sts, box, add, upd, dels, boundVars, risky>>

(* A sandbox has the address, or is about to get it.                       *)
InSandbox(ip) == (\E b \in box : b.ip = ip) \/ \E n \in Nodes : add[n].ip = ip

(* A deleted claim: no release while the pod runs, and no second attempt.  *)
onVipDelete(v) ==
  /\ v \in vip.queue
  /\ \/ /\ ensureStaticIpPodNotRunning(v.pod)
        /\ vip' = [queue |-> vip.queue \ {v}, release |-> vip.release \cup {v}]
        /\ risky' = IF pod[v.pod].phase = "Pending" \/ (pod[v.pod] = NoPod /\ InSandbox(v.ip))
                    THEN risky \cup {v.ip} ELSE risky
        /\ NoFault
     \/ /\ ~ensureStaticIpPodNotRunning(v.pod)
        /\ vip' = [vip EXCEPT !.queue = @ \ {v}]
        /\ lost' = lost + 1 /\ UNCHANGED <<faults, risky>>
     \/ Fault("api") /\ vip' = [vip EXCEPT !.queue = @ \ {v}] /\ UNCHANGED risky
  /\ UNCHANGED <<cloudVars, kubeVars, box, add, upd, dels, gc, boundVars>>

(* The VPC finds the address by address and interface.                     *)
releaseVPCIp(v) ==
  /\ v \in vip.release
  /\ vip' = [vip EXCEPT !.release = @ \ {v}]
  /\ \/ /\ vpc' = [vpc EXCEPT ![v.ip] = IF @ = v.mac THEN None ELSE @]
        /\ lost' = IF vpc[v.ip] \in {v.mac, None} THEN lost ELSE lost + 1
        /\ UNCHANGED faults
     \/ Fault("api") /\ vpc' \in {vpc, [vpc EXCEPT ![v.ip] = IF @ = v.mac THEN None ELSE @]}
  /\ UNCHANGED <<keep, kubeVars, box, add, upd, dels, gc, boundVars, risky>>

(* The vip-controller restarts.  Queues and workers are gone; the          *)
(* informers start from the present objects, so that what was deleted      *)
(* before stays unnoticed.                                                 *)
CtlRestart ==
  /\ "ctl" \in FaultKinds /\ faults < MaxFaults
  /\ faults' = faults + 1
  /\ lost' = lost + Cardinality(vip.queue \cup vip.release)
  /\ upd' = NoUpdate
  /\ dels' = [queued |-> FALSE, todo |-> {}]
  /\ gc' = IdleWorker
  /\ vip' = [queue |-> {}, release |-> {}]
  /\ UNCHANGED <<cloudVars, kubeVars, box, add, boundVars, risky>>

-----------------------------------------------------------------------------
AddStep(n) ==
  \/ assignPodIP(n) \/ createVpcIpClaim(n) \/ uapiDescribeSecondaryIp(n)
  \/ uapiMoveSecondaryIPMac(n) \/ markVPCIpClaimAttached(n) \/ answerAdd(n)
UpdateStep == onStsUpdate \/ GetReplicas \/ UpdateDetach \/ \E p \in Pods : UpdateCheck(p)
DeleteStep == onStsDelete \/ \E p \in Pods : DeleteDetach(p)
CleanStep == vipCheckAndClean \/ CleanDelete \/ \E p \in Pods : CleanCheck(p)
VipStep == \E v \in Deleted : onVipDelete(v) \/ releaseVPCIp(v)

Next ==
  \/ \E r \in 0..MaxReplicas : ScaleSts(r)
  \/ DeleteSts \/ CreateSts
  \/ \E p \in Pods, n \in Nodes : CreatePod(p, n) \/ findStaticIp(n, p)
  \/ \E p \in Pods : RunPod(p) \/ DeletePod(p) \/ ForceDeletePod(p) \/ Expire(p)
  \/ \E n \in Nodes : AddStep(n) \/ releasePool(n) \/ Crash(n)
  \/ \E b \in box : DelPodNetwork(b) \/ setAnnotationForCalicoPolicy(b)
  \/ UpdateStep \/ DeleteStep \/ CleanStep \/ VipStep \/ CtlRestart

Spec == Init /\ [][Next]_vars

(* The goroutines of ipamd and of the vip-controller keep running, the     *)
(* garbage collector's ticker keeps ticking, and time passes.              *)
Fairness ==
  /\ \A n \in Nodes : WF_vars(AddStep(n))
  /\ WF_vars(UpdateStep) /\ WF_vars(DeleteStep) /\ WF_vars(CleanStep) /\ WF_vars(VipStep)
  /\ \A p \in Pods : WF_vars(Expire(p))
FairSpec == Spec /\ Fairness

-----------------------------------------------------------------------------
(* Everyone who may hand out or use an address: a node that keeps it, a    *)
(* node that is about to bind it, and the pod name it is bound to or whose *)
(* sandbox has it.                                                         *)
Owners(ip) ==
  {n \in Nodes : ip \in keep[n] \/ (add[n].pc = "create" /\ add[n].ip = ip)}
    \cup {p \in Pods : claim[p] # None /\ claim[p].ip = ip}
    \cup {b.pod : b \in {c \in box : c.ip = ip}}

(* An address has one owner, on all nodes together, whatever fails and     *)
(* whenever ipamd or the vip-controller stop; the exceptions, in risky,    *)
(* are an address of a static pod that DEL puts into cooldown              *)
(* (staticIpPodExists), a delete of releasePool whose answer is lost, the  *)
(* release of an address while its pod starts (not Running yet), a claimed *)
(* address that ADD deletes from the VPC, and a late move by a node that   *)
(* the pod has left.                                                       *)
Exclusive == \A ip \in IPs \ risky : Cardinality(Owners(ip)) <= 1

(* The address of a running pod is attached to the node of the pod: no     *)
(* detach, garbage collection or release takes it away, and no other node  *)
(* moves it (localAttach, onVipDelete, releaseVPCIp).                      *)
RunningReachable ==
  \A p \in Pods : pod[p].phase = "Running" =>
    \A b \in OwnBox(p) : b.ip \in risky \/ vpc[b.ip] = b.node

Leaked ==
  {ip \in IPs : /\ vpc[ip] # None /\ Owners(ip) = {}
                /\ \A n \in Nodes : add[n].ip # ip
                /\ \A v \in vip.queue \cup vip.release : v.ip # ip}

(* Addresses that are attached in the VPC and that nobody will ever        *)
(* release are no more than the failed calls, the claims that were deleted *)
(* or made again under an ADD or a sandbox, and the deleted claims that    *)
(* the controller gave up (processDelete never tries again) or forgot at a *)
(* restart.                                                                *)
StaticLeakBound == Cardinality(Leaked) <= lost

(* The promise of a claim, with the claims of this module for the bindings *)
(* of the abstract one.                                                    *)
Life == INSTANCE ClaimLife WITH
  Unbound <- None,
  bound <- [p \in Pods |-> IF claim[p] = None THEN None ELSE claim[p].ip],
  attached <- {p \in Pods : claim[p] # None /\ claim[p].st # "detached"},
  doomed <- {p \in Pods : claim[p] # None /\ claim[p].doomed},
  compromised <- risky

(* The claims, as ipamd on all nodes and the goroutines of vip-controller  *)
(* change them, keep the promise of ClaimLife: a pod name keeps its        *)
(* address until its claim was detached, and an address is never bound to  *)
(* two names.                                                              *)
KeepsPromise == Life!Spec

(* As long as nothing fails, the claim of a pod that a scale-down removed  *)
(* is detached, unless the StatefulSet grows or goes: the status update    *)
(* after the last pod is gone queues the key once more (onStsUpdate).      *)
ScaleDownDetaches ==
  \A p \in Pods :
    (claim[p] # None /\ p >= sts.replicas /\ pod[p] = NoPod)
      ~> (\/ claim[p] = None \/ claim[p].st = "detached"
          \/ p < sts.replicas \/ ~sts.exists \/ faults > 0)

(* A detached claim with a release time and no pod is deleted in the end,  *)
(* unless a pod of that name comes back.                                   *)
Reclaimed ==
  \A p \in Pods :
    (claim[p] # None /\ claim[p].st = "detached" /\ claim[p].timed /\ pod[p] = NoPod)
      ~> (claim[p] = None \/ claim[p].st # "detached" \/ pod[p] # NoPod)

=============================================================================
