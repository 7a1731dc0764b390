------------------------------- MODULE Ipamd -------------------------------
(***************************************************************************)
(* The IP pools of the ipamd daemons of one cluster (pkg/ipamd), for the   *)
(* addresses of one VPC subnet.                                            *)
(*                                                                         *)
(* Every node runs one ipamd.  A single goroutine per daemon, the          *)
(* watermark manager, serves ADD and DEL requests, returns cooled-down     *)
(* addresses to the pool, releases the surplus above the high watermark    *)
(* and publishes the pool size in a custom resource (CR).  BorrowIP calls  *)
(* of other daemons run in gRPC goroutines beside the manager and pop from *)
(* the same bolt bucket.  Pool and cooldown set survive a crash; what a    *)
(* goroutine holds in memory does not.                                     *)
(*                                                                         *)
(* One action is one database transaction or one remote call with the      *)
(* local code around it, so that other goroutines, other nodes and crashes *)
(* come between any two of them.  The MAC address of a node stands for the *)
(* node, and the VPC is the table from addresses to MACs.                  *)
(***************************************************************************)
EXTENDS Integers, FiniteSets

CONSTANTS
  Node,           \* the nodes of the cluster, one ipamd each
  IP,             \* the addresses of the subnet, numbered in bolt key order
  Pod,            \* the pods (one sandbox at a time each)
  PodNode,        \* the node each pod runs on
  InitPool,       \* the pools of a cluster that is already running
  HighWatermark,  \* AvailablePodIPHighWatermark
  FaultKinds,     \* the kinds of fault the environment may inject
  MaxFaults,      \* bound: how many faults it injects
  NoNode, NoPod   \* model values: no MAC owns the address, no request

NoIP == 0

ASSUME ConstAssumption ==
  /\ IsFiniteSet(Node) /\ NoNode \notin Node
  /\ IsFiniteSet(IP) /\ IP \subseteq Nat \ {NoIP}
  /\ NoPod \notin Pod
  /\ PodNode \in [Pod -> Node]
  /\ InitPool \in [Node -> SUBSET IP]
  /\ \A m, n \in Node : m # n => InitPool[m] \cap InitPool[n] = {}
  /\ HighWatermark \in Nat
  /\ MaxFaults \in Nat

VARIABLES
  vpc,       \* VPC backend: address -> MAC it is attached to, or NoNode
  checked,   \* history: addresses that passed a GARP check since they were attached
  pool,      \* poolDB bucket of each node: the keys stored in it
  recycled,  \* poolDB bucket: the keys whose stored value has Recycled = true
  cool,      \* cooldownDB bucket of each node
  over,      \* the cooldown entries whose CooldownOver has passed
  opened,    \* the nodes whose daemon has the pool in its poolDB map
  cr,        \* ipamd CR of each node: Status.Current, or NoCR
  pc,        \* ipPoolWatermarkManager goroutine of each node: its next step,
  hand,      \* ... the pod network it has popped, allocated or borrowed,
  req,       \* ... the pod whose ADD request it serves,
  left,      \* ... the number of addresses it still has to release,
  cands,     \* ... the CRs it may still borrow from,
  peer,      \* ... and the lender whose answer it waits for
  lend,      \* lend[l][b]: the goroutine at l that serves BorrowIP for b
  pod,       \* the gRPC request of each pod and the address it got
  faults,    \* number of injected faults
  hazards    \* history: the hazardous events that have happened

vpcVars  == <<vpc, checked>>
poolVars == <<pool, recycled, opened>>
coolVars == <<cool, over>>
history  == <<faults, hazards>>
job      == <<req, left>>
borrow   == <<cands, peer>>
mgrVars  == <<pc, hand, job, borrow>>
vars == <<vpcVars, poolVars, coolVars, cr, mgrVars, lend, pod, history>>

NoCR == -1

MgrPC == {"idle", "view", "del", "alloc", "borrow", "try", "rpc", "check",
          "garp", "release", "recycle", "put", "status", "down"}
LendPC == {"idle", "view", "del", "move", "ok", "err"}
PodState == {"idle", "want", "wait", "annot", "up", "del"}
Tag == {"new", "recycled"}
Hazard == {"popRace", "lostDelete", "lostDelReply"}

PodNetwork == [ip : IP \cup {NoIP}, tag : Tag]
LendState == [pc : LendPC, ip : IP \cup {NoIP}, tag : Tag]
Candidates == [Node -> Nat \cup {NoCR}]

NoCands == [n \in Node |-> NoCR]
NoNetwork == [ip |-> NoIP, tag |-> "new"]
LendIdle == [pc |-> "idle", ip |-> NoIP, tag |-> "new"]
PodIdle == [st |-> "idle", ip |-> NoIP]

VpcType ==
  /\ vpc \in [IP -> Node \cup {NoNode}]
  /\ checked \in SUBSET IP
PoolType ==
  /\ pool \in [Node -> SUBSET IP]
  /\ recycled \in [Node -> SUBSET IP]
  /\ opened \in SUBSET Node
CoolType ==
  /\ cool \in [Node -> SUBSET IP]
  /\ over \in [Node -> SUBSET IP]
MgrType ==
  /\ pc \in [Node -> MgrPC]
  /\ hand \in [Node -> PodNetwork]
  /\ req \in [Node -> Pod \cup {NoPod}]
  /\ left \in [Node -> Nat]
  /\ cands \in [Node -> Candidates]
  /\ peer \in [Node -> Node \cup {NoNode}]
LendType == lend \in [Node -> [Node -> LendState]]
PodType == pod \in [Pod -> [st : PodState, ip : IP \cup {NoIP}]]

TypeOK ==
  /\ VpcType /\ PoolType /\ CoolType
  /\ cr \in [Node -> Nat \cup {NoCR}]
  /\ MgrType /\ LendType /\ PodType
  /\ faults \in 0..MaxFaults
  /\ hazards \in SUBSET Hazard

(* A running cluster: the daemons with addresses in their pool have served *)
(* pods before and published a CR, the others have just joined.            *)
Init ==
  /\ vpc = [i \in IP |-> IF \E n \in Node : i \in InitPool[n]
                         THEN CHOOSE n \in Node : i \in InitPool[n] ELSE NoNode]
  /\ checked = UNION {InitPool[n] : n \in Node}
  /\ pool = InitPool
  /\ recycled = InitPool
  /\ cool = [n \in Node |-> {}]
  /\ over = [n \in Node |-> {}]
  /\ opened = {n \in Node : InitPool[n] # {}}
  /\ cr = [n \in Node |-> IF InitPool[n] = {} THEN NoCR ELSE Cardinality(InitPool[n])]
  /\ pc = [n \in Node |-> "idle"]
  /\ hand = [n \in Node |-> NoNetwork]
  /\ req = [n \in Node |-> NoPod]
  /\ left = [n \in Node |-> 0]
  /\ cands = [n \in Node |-> NoCands]
  /\ peer = [n \in Node |-> NoNode]
  /\ lend = [l \in Node |-> [b \in Node |-> LendIdle]]
  /\ pod = [p \in Pod |-> PodIdle]
  /\ faults = 0
  /\ hazards = {}

----------------------------------------------------------------------------
(* Faults, and what the external calls do.                                 *)

(* The environment spends one of its faults of kind k. *)
Fault(k) ==
  /\ k \in FaultKinds
  /\ faults < MaxFaults
  /\ faults' = faults + 1

(* A mutating VPC call succeeds, fails before it took effect, or is        *)
(* executed while the caller sees an error ("lost").                       *)
Outcome == {"ok", "fail", "lost"}
Spend(o) ==
  \/ o = "ok" /\ UNCHANGED faults
  \/ o = "fail" /\ Fault("api")
  \/ o = "lost" /\ Fault("lost")

(* The VPC attaches address i to the MAC of m; earlier GARP checks of i no *)
(* longer count.                                                           *)
Attach(i, m) ==
  /\ vpc' = [vpc EXCEPT ![i] = m]
  /\ checked' = checked \ {i}

(* uapiDeleteSecondaryIp of node n: it looks the address up under n's MAC  *)
(* first, so that it never deletes an address of another node.             *)
uapiDeleteSecondaryIp_NotFound(n, i, o) == UNCHANGED vpcVars
uapiDeleteSecondaryIp(n, i, o) ==
  IF vpc[i] = n /\ o # "fail" THEN Attach(i, NoNode) ELSE UNCHANGED vpcVars

(* Release of an address the caller can do nothing else with.  What made   *)
(* the caller give up may make the release fail too.                       *)
backupReleaseSecondaryIP(n, i) ==
  \E o \in {"ok", "fail"} : uapiDeleteSecondaryIp(n, i, o)

(* getPool(create = true) and the Put transaction, for pod network i. *)
PoolPut_Recycled(n, i, tag) ==
  /\ pool' = [pool EXCEPT ![n] = @ \cup {i}]
  /\ recycled' = [recycled EXCEPT ![n] = @ \cup {i}]
  /\ opened' = opened \cup {n}
PoolPut(n, i, tag) ==
  /\ pool' = [pool EXCEPT ![n] = @ \cup {i}]
  /\ recycled' = [recycled EXCEPT ![n] = IF tag = "recycled" THEN @ \cup {i} ELSE @ \ {i}]
  /\ opened' = opened \cup {n}

(* putIpToPool; o tells whether the database accepts the write. *)
putIpToPool(n, i, tag, o) ==
  \/ o = "ok" /\ PoolPut(n, i, tag) /\ UNCHANGED vpcVars
  \/ o = "fail" /\ backupReleaseSecondaryIP(n, i) /\ UNCHANGED poolVars

(* backupPushSecondaryIP: the same without a release when it fails. *)
backupPushSecondaryIP(n, i, tag, o) ==
  \/ o = "ok" /\ PoolPut(n, i, tag)
  \/ o = "fail" /\ UNCHANGED poolVars

(* The database may fail besides the fault an action already suffers. *)
Write == {"ok"} \cup {o \in {"fail"} : "db" \in FaultKinds}

TagOf(n, i) == IF i \in recycled[n] THEN "recycled" ELSE "new"

(* The Delete transaction of Pop: the second of its two transactions, run  *)
(* for the key whose value (tag) the first one read.  Nothing tells the    *)
(* caller whether the entry it read is the one it deletes; when it is not, *)
(* the Pop was overtaken by another one.                                   *)
PopDelete_Kept(n, i, tag) == UNCHANGED <<pool, recycled, hazards>>
PopDelete(n, i, tag) ==
  /\ pool' = [pool EXCEPT ![n] = @ \ {i}]
  /\ recycled' = [recycled EXCEPT ![n] = @ \ {i}]
  /\ hazards' = IF i \in pool[n] /\ TagOf(n, i) = tag
                THEN hazards ELSE hazards \cup {"popRace"}

(* bolt's cursor.First: the smallest key of the bucket. *)
IsFirst(i, S) == i \in S /\ \A j \in S : i <= j

Goto(n, s) == pc' = [pc EXCEPT ![n] = s]

SetLend(l, b, s) == lend' = [lend EXCEPT ![l][b] = s]

ResetLocals(n) ==
  /\ hand' = [hand EXCEPT ![n] = NoNetwork]
  /\ req' = [req EXCEPT ![n] = NoPod]
  /\ left' = [left EXCEPT ![n] = 0]
  /\ cands' = [cands EXCEPT ![n] = NoCands]
  /\ peer' = [peer EXCEPT ![n] = NoNode]

(* End of a select case: the manager goes on to publish its status. *)
Finish(n) == Goto(n, "status") /\ ResetLocals(n)

(* The answer the manager gives to the ADD request it serves. *)
ReplyError(n) ==
  /\ pod' = [pod EXCEPT ![req[n]] = PodIdle]
  /\ Finish(n)
ReplyIP(n) ==
  /\ pod' = [pod EXCEPT ![req[n]] = [st |-> "annot", ip |-> hand[n].ip]]
  /\ Finish(n)

----------------------------------------------------------------------------
(* ADD: AddPodNetwork -> chanAddPodIP -> getPodIp -> assignPodIP.          *)

AddPodNetwork(p) ==
  /\ pod[p].st = "idle"
  /\ pod' = [pod EXCEPT ![p].st = "want"]
  /\ UNCHANGED <<vpcVars, poolVars, coolVars, cr, mgrVars, lend, history>>

(* The manager takes the request; a failing podEnableStaticIP ends it. *)
RecvAdd(n, p) ==
  /\ pc[n] = "idle"
  /\ PodNode[p] = n
  /\ pod[p].st = "want"
  /\ \/ /\ Goto(n, "view")
        /\ req' = [req EXCEPT ![n] = p]
        /\ pod' = [pod EXCEPT ![p].st = "wait"]
        /\ opened' = opened \cup {n}
        /\ UNCHANGED <<hand, left, borrow, faults>>
     \/ /\ Fault("k8s")
        /\ pod' = [pod EXCEPT ![p] = PodIdle]
        /\ Finish(n)
        /\ UNCHANGED opened
  /\ UNCHANGED <<vpcVars, pool, recycled, coolVars, cr, lend, hazards>>

(* The View transaction of Pop, for an ADD or for releasePool. *)
MgrPopView(n) ==
  /\ pc[n] = "view"
  /\ \/ \E i \in pool[n] :
          /\ IsFirst(i, pool[n])
          /\ Goto(n, "del")
          /\ hand' = [hand EXCEPT ![n] = [ip |-> i, tag |-> TagOf(n, i)]]
          /\ UNCHANGED <<job, borrow>>
     \/ /\ pool[n] = {} /\ req[n] # NoPod
        /\ Goto(n, "alloc")
        /\ UNCHANGED <<hand, job, borrow>>
     \/ pool[n] = {} /\ req[n] = NoPod /\ Finish(n)
  /\ UNCHANGED <<vpcVars, poolVars, coolVars, cr, lend, pod, history>>

MgrPopDelete(n) ==
  /\ pc[n] = "del"
  /\ PopDelete(n, hand[n].ip, hand[n].tag)
  /\ Goto(n, IF req[n] = NoPod THEN "release" ELSE "check")
  /\ UNCHANGED <<vpcVars, opened, coolVars, cr, hand, job, borrow, lend, pod, faults>>

(* Either transaction of Pop fails: the key stays in the bucket. *)
MgrPopError(n) ==
  /\ pc[n] \in {"view", "del"}
  /\ Fault("db")
  /\ IF req[n] = NoPod THEN Finish(n) /\ UNCHANGED pod ELSE ReplyError(n)
  /\ UNCHANGED <<vpcVars, poolVars, coolVars, cr, lend, hazards>>

(* The pool is empty: allocate from the VPC.  Only ErrOutOfIP leads to     *)
(* borrowing.                                                              *)
uapiAllocateSecondaryIP(n) ==
  /\ pc[n] = "alloc"
  /\ \/ /\ \A i \in IP : vpc[i] # NoNode
        /\ Goto(n, "borrow")
        /\ UNCHANGED <<vpcVars, hand, job, borrow, pod, faults>>
     \/ \E i \in IP :
          /\ vpc[i] = NoNode
          /\ Attach(i, n)
          /\ \/ /\ Goto(n, "check")
                /\ hand' = [hand EXCEPT ![n] = [ip |-> i, tag |-> "new"]]
                /\ UNCHANGED <<job, borrow, pod, faults>>
             \/ Fault("lost") /\ ReplyError(n)
     \/ Fault("api") /\ ReplyError(n) /\ UNCHANGED vpcVars
  /\ UNCHANGED <<poolVars, coolVars, cr, lend, hazards>>

(* getPodIp looks the address up under this node's MAC before it hands it  *)
(* out: an address that left this node is dropped.                         *)
checkSecondaryIpExist_NoLookup(n) ==
  /\ pc[n] = "check"
  /\ IF hand[n].tag = "recycled"
     THEN ReplyIP(n)
     ELSE Goto(n, "garp") /\ UNCHANGED <<hand, job, borrow, pod>>
  /\ UNCHANGED <<vpcVars, poolVars, coolVars, cr, lend, history>>
checkSecondaryIpExist(n) ==
  /\ pc[n] = "check"
  /\ \/ /\ Fault("api")
        /\ \E o \in Write : putIpToPool(n, hand[n].ip, hand[n].tag, o)
        /\ ReplyError(n)
     \/ /\ vpc[hand[n].ip] # n
        /\ ReplyError(n)
        /\ UNCHANGED <<vpcVars, poolVars, faults>>
     \/ /\ vpc[hand[n].ip] = n
        /\ IF hand[n].tag = "recycled"
           THEN ReplyIP(n)
           ELSE Goto(n, "garp") /\ UNCHANGED <<hand, job, borrow, pod>>
        /\ UNCHANGED <<vpcVars, poolVars, faults>>
  /\ UNCHANGED <<coolVars, cr, lend, hazards>>

(* Gratuitous ARP for an address that is not recycled.  A conflict with    *)
(* another host may be reported at any time.                               *)
checkIPConflict(n) ==
  /\ pc[n] = "garp"
  /\ \/ /\ checked' = checked \cup {hand[n].ip}
        /\ ReplyIP(n)
        /\ UNCHANGED <<vpc, faults>>
     \/ \E o \in Outcome :
          /\ Spend(o)
          /\ uapiDeleteSecondaryIp(n, hand[n].ip, o)
          /\ ReplyError(n)
  /\ UNCHANGED <<poolVars, coolVars, cr, lend, hazards>>

(* The rest of AddPodNetwork, in the gRPC goroutine: write the annotation  *)
(* and answer the CNI plugin.  Without the annotation the address is       *)
(* released; without the answer nobody knows it any more.                  *)
AnswerAdd(p) ==
  /\ pod[p].st = "annot"
  /\ \/ /\ pod' = [pod EXCEPT ![p].st = "up"]
        /\ UNCHANGED <<vpcVars, faults>>
     \/ /\ Fault("k8s")
        /\ pod' = [pod EXCEPT ![p] = PodIdle]
        /\ backupReleaseSecondaryIP(PodNode[p], pod[p].ip)
     \/ /\ Fault("reply")
        /\ pod' = [pod EXCEPT ![p] = PodIdle]
        /\ UNCHANGED vpcVars
  /\ UNCHANGED <<poolVars, coolVars, cr, mgrVars, lend, hazards>>

----------------------------------------------------------------------------
(* DEL: DelPodNetwork -> chanDelPodIP -> cooldownIP.                       *)

DelPodNetwork(p) ==
  /\ pod[p].st = "up"
  /\ pod' = [pod EXCEPT ![p].st = "del"]
  /\ UNCHANGED <<vpcVars, poolVars, coolVars, cr, mgrVars, lend, history>>

(* The address enters cooldown, or is released when the write fails.  When *)
(* the answer gets lost the CNI plugin keeps its record and repeats DEL.   *)
RecvDel(n, p) ==
  /\ pc[n] = "idle"
  /\ PodNode[p] = n
  /\ pod[p].st = "del"
  /\ LET i == pod[p].ip IN
     \/ /\ cool' = [cool EXCEPT ![n] = @ \cup {i}]
        /\ over' = [over EXCEPT ![n] = @ \ {i}]
        /\ \/ /\ pod' = [pod EXCEPT ![p] = PodIdle]
              /\ UNCHANGED history
           \/ /\ Fault("reply")
              /\ pod' = [pod EXCEPT ![p].st = "up"]
              /\ hazards' = hazards \cup {"lostDelReply"}
        /\ UNCHANGED vpcVars
     \/ /\ Fault("db")
        /\ backupReleaseSecondaryIP(n, i)
        /\ pod' = [pod EXCEPT ![p] = PodIdle]
        /\ UNCHANGED <<coolVars, hazards>>
  /\ Finish(n)
  /\ UNCHANGED <<poolVars, cr, lend>>

----------------------------------------------------------------------------
(* The tickers of the manager.                                             *)

(* How many addresses releasePool lets go of a pool of that size. *)
toRelease_Swapped(size) == HighWatermark - size
toRelease(size) == size - HighWatermark

(* tk: release what exceeds the high watermark.  Only the pools in the     *)
(* poolDB map are looked at.                                               *)
WatermarkTick(n) ==
  /\ pc[n] = "idle"
  /\ n \in opened
  /\ LET size == Cardinality(pool[n]) IN
     \/ /\ size > HighWatermark
        /\ Goto(n, "view")
        /\ left' = [left EXCEPT ![n] = toRelease(size)]
        /\ UNCHANGED <<hand, req, borrow>>
     \/ size <= HighWatermark /\ Finish(n)
  /\ UNCHANGED <<vpcVars, poolVars, coolVars, cr, lend, pod, history>>

(* releasePool, one popped address: release it, or push it back and stop. *)
releasePool(n) ==
  /\ pc[n] = "release"
  /\ \E o \in Outcome :
       /\ Spend(o)
       /\ uapiDeleteSecondaryIp(n, hand[n].ip, o)
       /\ \/ /\ o = "ok"
             /\ IF left[n] > 1
                THEN /\ Goto(n, "view")
                     /\ hand' = [hand EXCEPT ![n] = NoNetwork]
                     /\ left' = [left EXCEPT ![n] = @ - 1]
                     /\ UNCHANGED <<req, borrow>>
                ELSE Finish(n)
             /\ UNCHANGED <<poolVars, hazards>>
          \/ /\ o # "ok"
             /\ \E w \in Write : backupPushSecondaryIP(n, hand[n].ip, hand[n].tag, w)
             /\ hazards' = IF o = "lost" THEN hazards \cup {"lostDelete"} ELSE hazards
             /\ Finish(n)
  /\ UNCHANGED <<coolVars, cr, lend, pod>>

(* Time passes: the cooldown of an entry is over.  recycleCooldownIP reads *)
(* the clock once, so entries that ripen during a pass wait for the next.  *)
CooldownOver(n, i) ==
  /\ i \in cool[n] \ over[n]
  /\ pc[n] \notin {"recycle", "put"}
  /\ over' = [over EXCEPT ![n] = @ \cup {i}]
  /\ UNCHANGED <<vpcVars, poolVars, cool, cr, mgrVars, lend, pod, history>>

CooldownTick_OpenedOnly(n) ==
  /\ pc[n] = "idle" /\ n \in opened
  /\ Goto(n, "recycle")
  /\ UNCHANGED <<vpcVars, poolVars, coolVars, cr, hand, job, borrow, lend, pod, history>>
CooldownTick(n) ==
  /\ pc[n] = "idle"
  /\ Goto(n, "recycle")
  /\ UNCHANGED <<vpcVars, poolVars, coolVars, cr, hand, job, borrow, lend, pod, history>>

(* recycleCooldownIP, per entry: delete it from cooldownDB ... *)
RecycleDelete(n) ==
  /\ pc[n] = "recycle"
  /\ \/ \E i \in over[n] :
          /\ IsFirst(i, over[n])
          /\ cool' = [cool EXCEPT ![n] = @ \ {i}]
          /\ over' = [over EXCEPT ![n] = @ \ {i}]
          /\ Goto(n, "put")
          /\ hand' = [hand EXCEPT ![n] = [ip |-> i, tag |-> "recycled"]]
          /\ UNCHANGED <<job, borrow, faults>>
     \/ over[n] = {} /\ Finish(n) /\ UNCHANGED <<coolVars, faults>>
     \/ over[n] # {} /\ Fault("db") /\ Finish(n) /\ UNCHANGED coolVars
  /\ UNCHANGED <<vpcVars, poolVars, cr, lend, pod, hazards>>

(* ... and put it into the pool, or release it when that fails. *)
RecyclePut(n) ==
  /\ pc[n] = "put"
  /\ \/ putIpToPool(n, hand[n].ip, hand[n].tag, "ok") /\ UNCHANGED faults
     \/ putIpToPool(n, hand[n].ip, hand[n].tag, "fail") /\ Fault("db")
  /\ Goto(n, "recycle")
  /\ hand' = [hand EXCEPT ![n] = NoNetwork]
  /\ UNCHANGED <<coolVars, cr, job, borrow, lend, pod, hazards>>

(* updateStatus for the pools in the map, after every select case. *)
updateStatus(n) ==
  /\ pc[n] = "status"
  /\ \/ /\ cr' = [cr EXCEPT ![n] = IF n \in opened THEN Cardinality(pool[n]) ELSE @]
        /\ UNCHANGED faults
     \/ n \in opened /\ Fault("k8s") /\ UNCHANGED cr
  /\ Goto(n, "idle")
  /\ UNCHANGED <<vpcVars, poolVars, coolVars, hand, job, borrow, lend, pod, hazards>>

----------------------------------------------------------------------------
(* Borrowing: borrowIP at the borrower n, lendIP at the lender l.          *)

Published == {n \in Node : cr[n] # NoCR}

(* The CRs that are not dry (Current > 0) and not the borrower's own. *)
borrowCandidates(n) == [m \in Node |-> IF m # n /\ cr[m] > 0 THEN cr[m] ELSE NoCR]

(* List the CRs and keep the candidates; the pod network is still unset. *)
ListIpamds(n) ==
  /\ pc[n] = "borrow"
  /\ \/ /\ Cardinality(Published) > 1
        /\ \E m \in Node : borrowCandidates(n)[m] # NoCR
        /\ Goto(n, "try")
        /\ cands' = [cands EXCEPT ![n] = borrowCandidates(n)]
        /\ UNCHANGED <<hand, job, peer, pod, faults>>
     \/ /\ \/ Cardinality(Published) <= 1
           \/ \A m \in Node : borrowCandidates(n)[m] = NoCR
        /\ ReplyError(n)
        /\ UNCHANGED faults
     \/ Fault("k8s") /\ ReplyError(n)
  /\ UNCHANGED <<vpcVars, poolVars, coolVars, cr, lend, hazards>>

(* The candidates that come next in the order of decreasing Current. *)
NextLender(n, c) ==
  /\ cands[n][c] # NoCR
  /\ \A m \in Node : cands[n][m] <= cands[n][c]

(* Go on to the candidate after c. *)
Skip_KeepsCandidate(n, c) ==
  /\ Goto(n, "try")
  /\ peer' = [peer EXCEPT ![n] = NoNode]
  /\ UNCHANGED <<hand, job, cands>>
Skip(n, c) ==
  /\ Goto(n, "try")
  /\ cands' = [cands EXCEPT ![n][c] = NoCR]
  /\ peer' = [peer EXCEPT ![n] = NoNode]
  /\ UNCHANGED <<hand, job>>

(* Call BorrowIP of the next candidate, or give up when there is none.     *)
(* Bound: a lender serves at most one call of each borrower at a time.     *)
BorrowCall(n) ==
  /\ pc[n] = "try"
  /\ \/ \E c \in Node :
          /\ NextLender(n, c)
          /\ \/ /\ pc[c] = "down"
                /\ Skip(n, c)
                /\ UNCHANGED lend
             \/ /\ pc[c] # "down" /\ lend[c][n].pc = "idle"
                /\ Goto(n, "rpc")
                /\ peer' = [peer EXCEPT ![n] = c]
                /\ SetLend(c, n, [LendIdle EXCEPT !.pc = "view"])
                /\ UNCHANGED <<hand, job, cands>>
          /\ UNCHANGED pod
     \/ /\ \A c \in Node : cands[n][c] = NoCR
        /\ ReplyError(n)
        /\ UNCHANGED lend
  /\ UNCHANGED <<vpcVars, poolVars, coolVars, cr, history>>

(* The pod network the borrower takes over from the answer: Recycled is    *)
(* reset, so that getPodIp runs its GARP check.                            *)
Borrowed_AsLent(answer) == [ip |-> answer.ip, tag |-> answer.tag]
Borrowed(answer) == [ip |-> answer.ip, tag |-> "new"]

(* The lender answers in time. *)
BorrowReturn(n) ==
  /\ pc[n] = "rpc"
  /\ LET c == peer[n] IN
     /\ \/ /\ lend[c][n].pc = "ok"
           /\ Goto(n, "check")
           /\ hand' = [hand EXCEPT ![n] = Borrowed(lend[c][n])]
           /\ cands' = [cands EXCEPT ![n] = NoCands]
           /\ peer' = [peer EXCEPT ![n] = NoNode]
           /\ UNCHANGED job
        \/ lend[c][n].pc = "err" /\ Skip(n, c)
     /\ SetLend(c, n, LendIdle)
  /\ UNCHANGED <<vpcVars, poolVars, coolVars, cr, pod, history>>

(* The connection breaks because the lender crashed, or the deadline of    *)
(* one second passes while the goroutine of the lender goes on.            *)
BorrowTimeout(n) ==
  /\ pc[n] = "rpc"
  /\ \/ lend[peer[n]][n].pc = "idle" /\ UNCHANGED faults
     \/ Fault("timeout")
  /\ Skip(n, peer[n])
  /\ UNCHANGED <<vpcVars, poolVars, coolVars, cr, lend, pod, hazards>>

(* lendIP: getPool(create = false) and the View transaction of Pop. *)
LendPopView(l, b) ==
  /\ lend[l][b].pc = "view"
  /\ \/ \E i \in pool[l] :
          /\ l \in opened /\ IsFirst(i, pool[l])
          /\ SetLend(l, b, [pc |-> "del", ip |-> i, tag |-> TagOf(l, i)])
     \/ /\ l \notin opened \/ pool[l] = {}
        /\ SetLend(l, b, [LendIdle EXCEPT !.pc = "err"])
  /\ UNCHANGED <<vpcVars, poolVars, coolVars, cr, mgrVars, pod, history>>

LendPopDelete(l, b) ==
  /\ lend[l][b].pc = "del"
  /\ PopDelete(l, lend[l][b].ip, lend[l][b].tag)
  /\ SetLend(l, b, [lend[l][b] EXCEPT !.pc = "move"])
  /\ UNCHANGED <<vpcVars, opened, coolVars, cr, mgrVars, pod, faults>>

(* Either transaction of Pop fails. *)
LendPopError(l, b) ==
  /\ lend[l][b].pc \in {"view", "del"}
  /\ Fault("db")
  /\ SetLend(l, b, [LendIdle EXCEPT !.pc = "err"])
  /\ UNCHANGED <<vpcVars, poolVars, coolVars, cr, mgrVars, pod, hazards>>

(* MoveSecondaryIPMac to the borrower.  The VPC refuses it when the        *)
(* address is not attached to the lender any more.  After an error the     *)
(* lender puts the address back; if that fails and the address has moved   *)
(* already, putIpToPool finds nothing to release under the lender's MAC.   *)
uapiMoveSecondaryIPMac(l, b) ==
  /\ lend[l][b].pc = "move"
  /\ LET i == lend[l][b].ip
         failed == SetLend(l, b, [LendIdle EXCEPT !.pc = "err"])
     IN \/ /\ vpc[i] = l
           /\ Attach(i, b)
           /\ SetLend(l, b, [lend[l][b] EXCEPT !.pc = "ok"])
           /\ UNCHANGED <<poolVars, faults>>
        \/ /\ vpc[i] = l
           /\ Fault("lost")
           /\ Attach(i, b)
           /\ \E o \in Write : backupPushSecondaryIP(l, i, lend[l][b].tag, o)
           /\ failed
        \/ /\ \/ vpc[i] # l /\ UNCHANGED faults
              \/ Fault("api")
           /\ \E o \in Write : putIpToPool(l, i, lend[l][b].tag, o)
           /\ failed
  /\ UNCHANGED <<coolVars, cr, mgrVars, pod, hazards>>

(* The goroutine returns and nobody waits for its answer any more. *)
LendDropped(l, b) ==
  /\ lend[l][b].pc \in {"ok", "err"}
  /\ ~(pc[b] = "rpc" /\ peer[b] = l)
  /\ SetLend(l, b, LendIdle)
  /\ UNCHANGED <<vpcVars, poolVars, coolVars, cr, mgrVars, pod, history>>

----------------------------------------------------------------------------
(* Crash and restart of a daemon.  The buckets survive; the poolDB map is  *)
(* empty until getPool is asked to create the pool again.                  *)

Crash(n) ==
  /\ pc[n] # "down"
  /\ Fault("crash")
  /\ Goto(n, "down")
  /\ ResetLocals(n)
  /\ opened' = opened \ {n}
  /\ lend' = [lend EXCEPT ![n] = [b \in Node |-> LendIdle]]
  /\ pod' = [p \in Pod |-> CASE PodNode[p] = n /\ pod[p].st \in {"want", "wait", "annot"} -> PodIdle
                             [] PodNode[p] = n /\ pod[p].st = "del" -> [pod[p] EXCEPT !.st = "up"]
                             [] OTHER -> pod[p]]
  /\ UNCHANGED <<vpcVars, pool, recycled, coolVars, cr, hazards>>

Restart(n) ==
  /\ pc[n] = "down"
  /\ Goto(n, "idle")
  /\ UNCHANGED <<vpcVars, poolVars, coolVars, cr, hand, job, borrow, lend, pod, history>>

----------------------------------------------------------------------------

(* A select case the manager takes when it is idle. *)
Select(n) ==
  \/ \E p \in Pod : RecvAdd(n, p) \/ RecvDel(n, p)
  \/ WatermarkTick(n) \/ CooldownTick(n)

(* A step of the manager inside a select case. *)
MgrStep(n) ==
  \/ MgrPopView(n) \/ MgrPopDelete(n) \/ MgrPopError(n)
  \/ uapiAllocateSecondaryIP(n) \/ checkSecondaryIpExist(n) \/ checkIPConflict(n)
  \/ releasePool(n) \/ RecycleDelete(n) \/ RecyclePut(n) \/ updateStatus(n)
  \/ ListIpamds(n) \/ BorrowCall(n) \/ BorrowReturn(n) \/ BorrowTimeout(n)

LendStep(l, b) ==
  \/ LendPopView(l, b) \/ LendPopDelete(l, b) \/ LendPopError(l, b)
  \/ uapiMoveSecondaryIPMac(l, b) \/ LendDropped(l, b)

PodStep(p) == AddPodNetwork(p) \/ AnswerAdd(p) \/ DelPodNetwork(p)

Next ==
  \/ \E n \in Node : Select(n) \/ MgrStep(n) \/ Crash(n) \/ Restart(n)
  \/ \E n \in Node, i \in IP : CooldownOver(n, i)
  \/ \E l, b \in Node : LendStep(l, b)
  \/ \E p \in Pod : PodStep(p)

Spec == Init /\ [][Next]_vars

(* Fairness.  A goroutine that can go on goes on, a crashed daemon is      *)
(* restarted by its DaemonSet, and time passes.  The select statement of   *)
(* the manager chooses among its ready cases at random, so a case that is  *)
(* ready again and again is taken in the end.  Faults are never owed, and  *)
(* neither are new pods or their deletion.                                 *)
Fairness ==
  /\ \A n \in Node :
       /\ WF_vars(MgrStep(n)) /\ WF_vars(Restart(n))
       /\ SF_vars(WatermarkTick(n)) /\ SF_vars(CooldownTick(n))
       /\ \A i \in IP : SF_vars(CooldownOver(n, i))
  /\ \A l, b \in Node : WF_vars(LendStep(l, b))
  /\ \A p \in Pod : SF_vars(RecvAdd(PodNode[p], p)) /\ WF_vars(AnswerAdd(p))

FairSpec == Spec /\ Fairness

----------------------------------------------------------------------------
(* Safety.                                                                 *)

(* Who holds address i: a pool, a cooldown set, a manager, a lending       *)
(* goroutine or a pod.  Between the two transactions of a Pop the address  *)
(* is still the pool's.                                                    *)
InHand(n, i) == hand[n].ip = i /\ pc[n] # "del"
Lending(l, b, i) == lend[l][b].ip = i /\ lend[l][b].pc # "del"

PoolHolders(i) == {<<"pool", n>> : n \in {m \in Node : i \in pool[m]}}
CoolHolders(i) == {<<"cool", n>> : n \in {m \in Node : i \in cool[m]}}
HandHolders(i) == {<<"hand", n>> : n \in {m \in Node : InHand(m, i)}}
LendHolders(i) == {<<"lend", lb>> : lb \in {x \in Node \X Node : Lending(x[1], x[2], i)}}
PodHolders(i) == {<<"pod", p>> : p \in {q \in Pod : pod[q].ip = i}}
Holders(i) == PoolHolders(i) \cup CoolHolders(i) \cup HandHolders(i)
              \cup LendHolders(i) \cup PodHolders(i)

(* Addresses that are attached to some node while no daemon and no pod     *)
(* knows of them any more.                                                 *)
Leaked == {i \in IP : vpc[i] # NoNode /\ Holders(i) = {}}

(* No address is given to two pods (getPodIp, lendIP, recycleCooldownIP),  *)
(* unless one of the three hazardous events has happened.                  *)
PodExclusive ==
  hazards = {} => \A p, q \in Pod : pod[p].ip = pod[q].ip /\ pod[p].ip # NoIP => p = q

(* The address of a pod is attached to the MAC of the pod's node for as    *)
(* long as the pod has it: no lender moves it, no releasePool deletes it.  *)
PodRouted ==
  hazards = {} => \A p \in Pod : pod[p].ip # NoIP => vpc[pod[p].ip] = PodNode[p]

(* A pod only gets an address that passed a GARP check on its node after   *)
(* the address was attached to it: Recycled is never carried to another    *)
(* node or over a new allocation.                                          *)
PodChecked ==
  hazards = {} => \A p \in Pod : pod[p].ip # NoIP => pod[p].ip \in checked

(* Every fault loses at most one address; without faults none is lost:     *)
(* each error path puts the address back or releases it.  (A crash may     *)
(* lose one address per goroutine and is not counted here.)                *)
LeakBound ==
  hazards = {} /\ "crash" \notin FaultKinds => Cardinality(Leaked) <= faults

----------------------------------------------------------------------------
(* Liveness, under FairSpec.                                               *)

(* Every ADD that waits for the manager is answered: getPodIp ends on      *)
(* every path, borrowIP included, and the manager returns to its select.   *)
AddAnswered == \A p \in Pod : pod[p].st = "want" ~> pod[p].st \in {"idle", "up"}

(* Every address in cooldownDB leaves it again, restarts or not.           *)
CooldownRecycled == \A n \in Node, i \in IP : i \in cool[n] ~> i \notin cool[n]

(* A pool in the poolDB map that exceeds the high watermark is reduced to  *)
(* it, as long as the daemon does not crash.                               *)
SurplusReleased ==
  \A n \in Node :
    n \in opened /\ Cardinality(pool[n]) > HighWatermark
      ~> n \notin opened \/ Cardinality(pool[n]) <= HighWatermark

----------------------------------------------------------------------------
(* What a comment of the code says and the code does not do.               *)

(* Pop returns an entry and deletes it, so the manager and the lending     *)
(* goroutines never hand out the same address (database.go, Pop).          *)
UniquePodIP == \A p, q \in Pod : pod[p].ip = pod[q].ip /\ pod[p].ip # NoIP => p = q

----------------------------------------------------------------------------
(* Strengthening to an inductive invariant.  What the local variables of   *)
(* the goroutines are at each of their steps: *)
MgrLocal ==
  \A n \in Node :
    /\ hand[n].ip # NoIP <=> pc[n] \in {"del", "check", "garp", "release", "put"}
    /\ pc[n] \in {"alloc", "borrow", "try", "rpc", "check", "garp"} => req[n] # NoPod
    /\ pc[n] \in {"idle", "release", "recycle", "put", "status", "down"} => req[n] = NoPod
    /\ pc[n] \in {"view", "del", "release"} /\ req[n] = NoPod => left[n] > 0
    /\ pc[n] = "rpc" => peer[n] \in Node
ReqLocal ==
  \A n \in Node : req[n] # NoPod => PodNode[req[n]] = n /\ pod[req[n]].st = "wait"
LendLocal ==
  \A l, b \in Node : lend[l][b].ip # NoIP <=> lend[l][b].pc \in {"del", "move", "ok"}
PodLocal ==
  \A p \in Pod : pod[p].ip # NoIP <=> pod[p].st \in {"annot", "up", "del"}
LocalInv == MgrLocal /\ ReqLocal /\ LendLocal /\ PodLocal

(* No address has two holders, *)
Exclusive == \A i \in IP : \A x, y \in Holders(i) : x = y

(* an address that is free in the VPC has none, *)
FreeUnheld == \A i \in IP : vpc[i] = NoNode => Holders(i) = {}

(* an address that is (or will be) used without a new GARP check is        *)
(* attached to the node and has been checked since,                        *)
PodsUsed == \A p \in Pod : pod[p].ip # NoIP => vpc[pod[p].ip] = PodNode[p] /\ pod[p].ip \in checked
CoolUsed == \A n \in Node : \A i \in cool[n] : vpc[i] = n /\ i \in checked
HandUsed ==
  \A n \in Node :
    /\ pc[n] \in {"garp", "put"} => vpc[hand[n].ip] = n
    /\ pc[n] = "put" => hand[n].tag = "recycled" /\ hand[n].ip \in checked
UsedInv == PodsUsed /\ CoolUsed /\ HandUsed

(* and an address marked Recycled that is still attached to the node has   *)
(* been checked on it.                                                     *)
PoolMarked == \A n \in Node : \A i \in recycled[n] : i \in pool[n] /\ (vpc[i] = n => i \in checked)
HandMarked ==
  \A n \in Node : pc[n] \in {"check", "release"} /\ hand[n].tag = "recycled" /\ vpc[hand[n].ip] = n
                    => hand[n].ip \in checked
LendMarked ==
  \A l, b \in Node : lend[l][b].pc = "move" /\ lend[l][b].tag = "recycled" /\ vpc[lend[l][b].ip] = l
                       => lend[l][b].ip \in checked
RecycledInv == PoolMarked /\ HandMarked /\ LendMarked

(* Only entries of the cooldown set can be past their time, and no daemon  *)
(* borrows from itself.                                                    *)
OverInv == \A n \in Node : over[n] \subseteq cool[n]
NoSelf == \A n \in Node : cands[n][n] = NoCR /\ lend[n][n].pc = "idle"

SafeInv == Exclusive /\ FreeUnheld /\ UsedInv /\ RecycledInv

(* The inductive invariant: every address has one holder, and what the     *)
(* holders believe about it is true, until a hazardous event happens.      *)
IInv ==
  /\ TypeOK
  /\ LocalInv
  /\ OverInv /\ NoSelf
  /\ hazards = {} => SafeInv
=============================================================================
