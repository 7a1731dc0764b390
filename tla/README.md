# A TLA+ verification of uk8s-cni-vpc

uk8s-cni-vpc gives every pod of a UCloud Kubernetes cluster an address of the
VPC.  The addresses are a shared resource: one VPC backend attaches each of
them to the MAC of one node, a daemon per node keeps a pool of attached
addresses, daemons lend addresses to each other when the subnet is used up, and
a CNI plugin process per pod request takes them from the daemon.  This project
models that life of an address, checks it with TLC and proves its main safety
properties with TLAPS.

## 1. Inventory

| Component | State | Operations | What makes it correct |
|---|---|---|---|
| ipamd pool manager (`pkg/ipamd/pool.go`) | bolt buckets: pool per subnet, cooldown set; in memory: the `poolDB` map | one goroutine: ADD, DEL, watermark tick, cooldown tick, status | an address is in one place only; it is attached here when a pod gets it; a surplus is released |
| borrowing (`borrowIP`, `lendIP`) | ipamd CRs, one gRPC goroutine per call at the lender | list, choose, call, move the MAC, answer | no address is given away twice, lost, or used without a new conflict check |
| VPC API calls (`pkg/ipamd/uapi.go`) | the VPC backend | describe, allocate, move, delete | calls fail before or after they took effect |
| bolt database (`pkg/database`) | buckets in one file | Put, Get, Delete, Pop, List, Count | Pop returns an entry and deletes it |
| ipamd start (`pkg/ipamd/svc.go`) | the file survives, maps and goroutines do not | init, migration of the v1 pool, signal handler | nothing is forgotten that is still attached |
| CNI plugin (`cmd/cnivpc/main.go`, `rpc.go`) | a process per request under a file lock; records of (pod, sandbox) -> address | cmdAdd, cmdDel with rollbacks; falls back to the VPC when ipamd is unavailable | a pod's address is recorded while the pod runs and released once |
| record reconciler (`pkg/ipamd/resource.go`) | the same records | every three minutes: delete the records of pods that are gone | never deletes the record of a live pod |
| static IPs (`pkg/ipamd/vpcclaim.go`, `cmd/vip-controller`) | VpcIpClaim resources, StatefulSets, work queues | claim, attach, release after the StatefulSet is gone | an address stays with its pod name, and is released once at the end |
| pod networking (`ensureSubnetUNI`) | UNIs of the host, subnets | choose a subnet, create, attach, wait | a UNI is reused or created once, and deleted after a failure |
| NAT gateway outgoing (`nat_outgoing.go`, `if.go`) | kernel ipset, iptables chains | add, delete, migrate, install the bypass rule | the rule is installed only when the set is complete |
| host networking of a pod (`veth.go`, `if.go`) | interfaces, routes, ip rules, sysctls | set up and torn down command by command | a running pod's packets take the right way; nothing of an earlier pod misleads them |
| port mapping (`pkg/portmap`) | nat chains | forward, unforward, check | a host port leads to the sandbox that has it, and to nobody when it is gone |
| device plugin (`pkg/deviceplugin`) | a socket file, a registration at kubelet | start, register, watch | kubelet has the plugin, whichever of the two restarts |
| conflict detection (`pkg/arping`) | sockets | gratuitous ARP | external verdict |
| installers, HTTP endpoints, generated clients | files, sockets | I/O | not modelled (section 9) |

Hard behaviours: the lender's goroutines run beside the manager on the same
bucket; every VPC call can fail with its effect in place; a daemon can crash
between any two transactions; the borrower has a deadline the lender does not
know of; CRs are stale; kubelet repeats DEL; two nodes serve one StatefulSet pod
while the vip-controller works on its claim; a plugin process may die between
any two commands to the kernel.  `PROJECT.json` lists each hazard
at its line, with the properties that cover it.

## 2. Modules

| Module | Content |
|---|---|
| `Ipamd` | all daemons of a cluster, the pods' requests, the CRs and the VPC, for one subnet; specification, properties, inductive invariant |
| `MCIpamd` | the instances of `Ipamd` for TLC |
| `IpamdProofs` | its types, its inductive invariant, the three safety properties that follow and the bound of the leaks, proved |
| `CniPlugin` | the plugin of one node, the pod network records, the reconciler; ipamd's pool is what the plugin sees of it |
| `CniPluginProofs` | its types and its four safety invariants, proved |
| `NatRules` | the iptables chains and the ipset of one node, rule by rule, with the migration |
| `NatRulesProofs` | its three safety invariants, proved |
| `SubnetUni` | the choice of a subnet and the creation of its interface |
| `SubnetUniProofs` | its three safety invariants, proved |
| `ClaimLife` | abstract: what a VpcIpClaim promises a StatefulSet |
| `StaticIp` | static addresses: ADD and DEL of StatefulSet pods on all nodes, the claims, the vip-controller; implements `ClaimLife` |
| `StaticIpProofs` | its types, its three safety invariants and the refinement of `ClaimLife`, proved |
| `HostNet` | interfaces, routes, ip rules and port forwarding chains of one node, kernel command by kernel command |
| `HostNetProofs` | its two safety invariants about routing, and what is left of the ip rules, proved |
| `HostNetPortProofs` | its types, the bound of what is left behind, the delivery of host ports and the action property about them, proved |
| `IpamdLife` | the life of an ipamd process: migration of the v1 pool, device plugin, kubelet restarts |
| `IpamdLifeProofs` | its types and its two safety invariants, proved |
| `MCCniPlugin`, `MCNatRules`, `MCSubnetUni`, `MCStaticIp`, `MCHostNet`, `MCIpamdLife` | their instances for TLC |

`CniPlugin` uses ipamd's `AddPodNetwork` and `DelPodNetwork`, whose inside is
`Ipamd`; a pod of `CniPlugin` is a pod of `Ipamd` whose calls the plugin makes.
`NatRules` and `SubnetUni` are the inside of the part of `assignPodIp` that
handles a PodNetworking (`initPodNetworking`), and `NatRules` repeats of ADD and
DEL what touches the ipset and the records.  `StaticIp` is the branch of ADD that
`Ipamd` leaves out; it has pool and cooldown of a node as one set and borrowing
as one step, the steps inside being those of `Ipamd`.  `HostNet` is the inside of
`setupPodVethNetwork`, `portmapCmdAdd` and `DelInterface` of `CniPlugin`, and of
what `initPodNetworking` does after `SubnetUni` has found an interface.

### Ipamd: state

| Variable | Code |
|---|---|
| `vpc`, `checked` | the backend's table address -> MAC (the MAC of a node stands for the node); history: passed a GARP check since it was attached |
| `pool`, `recycled` | the poolDB bucket of each node: its keys, and those stored with `Recycled = true` |
| `opened` | the daemon has the pool in its `poolDB` map (`getPool` with create) |
| `cool`, `over` | cooldownDB, and its entries whose `CooldownOver` has passed |
| `cr` | `Status.Current` of the node's ipamd CR |
| `pc`, `hand`, `req`, `left`, `cands`, `peer` | `ipPoolWatermarkManager`: its next step, the pod network it holds, the request it serves, how much `releasePool` still has to release, the candidates of `borrowIP` and the lender it calls |
| `lend[l][b]` | the goroutine at `l` that serves `BorrowIP` for `b` |
| `pod` | the AddPodNetwork/DelPodNetwork call of each pod and its address |
| `faults`, `hazards` | injected faults so far; hazardous events so far |

### Ipamd: actions

One action is one database transaction or one remote call with the local code
around it.  ADD is `AddPodNetwork`, `RecvAdd`, `MgrPopView`, `MgrPopDelete`,
`uapiAllocateSecondaryIP` (pool empty), `ListIpamds`/`BorrowCall`/
`BorrowReturn`/`BorrowTimeout` (subnet empty), `checkSecondaryIpExist`,
`checkIPConflict`, `AnswerAdd`.  DEL is `DelPodNetwork`, `RecvDel`.  The tickers
are `WatermarkTick` (then `MgrPopView`, `MgrPopDelete`, `releasePool` per
address), `CooldownTick` (then `RecycleDelete`, `RecyclePut` per entry);
every select case ends in `updateStatus`.  The lender runs `LendPopView`,
`LendPopDelete`, `uapiMoveSecondaryIPMac`.  `Crash` and `Restart` keep the
buckets and lose the rest.

Faults are chosen by the environment from `FaultKinds`, at most `MaxFaults` of
them: `api` (a VPC call fails without effect), `lost` (it fails with its effect
in place), `db` (a transaction fails), `k8s`, `timeout` (the borrower's
deadline), `reply` (an answer to the CNI plugin is lost), `crash`.

Three events break what the code relies on and are recorded in `hazards`:
`popRace` (a Pop deleted an entry it had not read: another Pop overtook it),
`lostDelete` (`releasePool` puts an address back that the VPC has deleted),
`lostDelReply` (kubelet will repeat a DEL that was executed).  The safety
properties hold up to the first of them; the run `pop_race` shows that the
first one alone, without any fault, breaks them.

Abstractions: one subnet; one BorrowIP call per lender and borrower at a time;
the nodes of all CRs exist; pods with a static IP are left out; a failing VPC
call takes effect before its error returns or never; local steps between two
transactions are merged with the transaction.

### CniPlugin: state and actions

| Variable | Code |
|---|---|
| `api`, `sb` | the pod objects at the API server; kubelet's view of each sandbox |
| `net` | the address configured in the sandbox |
| `rec` | the record database, by pod and sandbox; `uid`: `PodUID` is filled in |
| `attached`, `pool`, `cool`, `up` | the addresses the VPC attaches to this node; ipamd's pool and cooldown set; ipamd answers Ping |
| `nat` | the ipset UCLOUD-NATGW-OUTGOING |
| `proc` | the one plugin process that has the file lock, with its next step |
| `gc` | `doReconcile`, with the lists it has read |
| `faults`, `losses`, `freed`, `natDirty`, `hazards` | injected faults and history |

ADD is `StartAdd`, `assignPodIp`, `checkMasterInterface`, `syncNATGWOutgoingIP`,
`setupPodVethNetwork`, `addPodNetworkRecord`, `portmapCmdAdd`; its failures go
through `innerRelease` (the releases inside `setupPodVethNetwork` and
`setNodePortRange`) and `rollbackReleaseIP`.  DEL is `StartDel`,
`getPodNetworkRecord`, `cleanUpIPRoutePolicy`, `DelRelease`,
`delPodNetworkRecord`, `DelInterface`.  `tickSuicide` ends a process anywhere.
`IpamdSwitch` takes ipamd away or brings it back between any two calls, so that
an address taken from one side may be released to the other.  Faults: `api`,
`lost`, `db`, `host` (netlink, netns, iptables), `ipset`, `kill`, `redel`
(kubelet repeats a DEL that succeeded), `force` (a pod object is deleted while
its sandbox runs).

Two events are recorded in `hazards`: `secondRelease` (a release of an address
that this sandbox has released before, when it may be another pod's) and
`staleList` (the reconciler works with a list of pods that lacks one with a
record).  `UniqueUse` and `RecordKept` hold up to them (section 8 has what they
lead to).

### NatRules: state and actions

`chain` is the list of rules of each of the five chains, `ipset` its members,
`pol` the `NATGWOutgoingEnabled` of each PodNetworking, `rec` and `live` the
records and the pod objects, `want` what the plugin last decided for a pod.
`RunRule` is one round of `updateIptablesRules`: an exists check and an insert,
append or delete.  `RulesDone` is the order of `updateRules`;
`tryEnableNATGWOutgoing` and `migrateLegacyNATGWOutgoingIPs` compute and apply
the difference between ipset and records before the bypass rule.  A node starts
empty or with the chains and a pod of an older plugin.  `Kill`, `Reboot` and an
error of any command interrupt an update.

After the address is assigned ADD is `syncNATGWOutgoingIP`, `finishAdd` (veth,
`addPodNetworkRecord`, port mapping) and, when that fails,
`rollbackNATGWOutgoingIP`.  DEL is `StartDel`, `DelNAT`, `releasePodIp`,
`delPodNetworkRecord` and `finishDel`, one step per call: the release may fail or
lose its answer, the deletion of the record may fail (which is only logged), and
the process may die between the two, so a record may name an address that ipamd
has already given to another pod.  `ReconcileDelete` and `ReconcilePut` are
ipamd's reconciler, which does not take the plugin's lock: it deletes the records
of pods that are gone, that of a pod created after it listed the pods, and writes
back a record that DEL has deleted meanwhile.  Only the reads of one
`tryEnableNATGWOutgoing` (records, pods, PodNetworkings, ipset) are one step: the
code reads pods and PodNetworkings record by record, so an edit in between, which
it sees for some pods and not for others, is abstracted.

`risky` has the address of each fault after which the ipset and the records can
disagree with who has the address: an entry that could not be deleted, a release
whose answer was lost, a record that outlives a release (a failed deletion, a kill
between the two, a record written back) or that is missing for a running pod.

### SubnetUni: state and actions

`uni` is the VPC's table of interfaces, `meta` what the metadata server shows of
it (`MetaFollows` brings it up to date at any time), `avail` the free addresses
of each subnet, which other nodes take and return (`OthersUse`).
`ensureSubnetUNI` reads the metadata, `getSubnetAvailableIPs` asks for one
subnet at a time, `chooseUNI` decides, `createNetworkInterface`,
`attachNetworkInterface` and `cleanUpNewUNI` are the calls, `ReloadMeta` and
`waitTimeout` the wait of 90 seconds, `describeNetworkInterface` the deferred
lookup.

### StaticIp: state and actions

| Variable | Code |
|---|---|
| `vpc`, `keep` | the node each address is attached to; each node's pool and cooldown |
| `claim` | the VpcIpClaim of each pod name: address, MAC, `st` (new, attached, detached: the label), `timed`/`due` (a release time, and it has passed), `doomed` (a deletion timestamp) |
| `pod`, `sts`, `box` | the pod objects, the StatefulSet, the sandboxes that were given an address |
| `add` | the manager goroutine of each node inside a static ADD |
| `upd`, `dels` | the update and the delete queue of `StsController` with their workers; `stuck`: the key was never `Done` after an error |
| `gc`, `vip` | `vipCheckAndClean` with its page; deleted claims that wait for `onVipDelete` and `releaseVPCIp` |
| `lost`, `risky` | history: the steps that may each cost an address; the addresses the promise no longer covers |

ADD is `findStaticIp`, then for a pod without a claim `assignPodIP` and
`createVpcIpClaim`, then `uapiDescribeSecondaryIp`, `uapiMoveSecondaryIPMac` and
`markVPCIpClaimAttached` (together `localAttach`), `answerAdd`, and
`setAnnotationForCalicoPolicy` in the handler.  DEL is `DelPodNetwork`.  The
vip-controller is `onStsUpdate` (the list of claims), `GetReplicas` (the
StatefulSet from the informer's cache, read as current), `UpdateCheck`,
`UpdateDetach` (scale-down),
`onStsDelete`, `DeleteDetach`, `vipCheckAndClean`, `CleanCheck`, `CleanDelete`
(garbage collection), `onVipDelete`, `releaseVPCIp`, and `CtlRestart`.  Checks
and the writes that rely on them are separate steps, on every node and in every
worker.

An address enters `risky` by one of five steps which the code does not guard:
DEL puts a static address into cooldown because the lookup of its claim failed
or found none; the answer to a delete of `releasePool` is lost; the controller
releases an address while its pod starts and is not yet Running (or lives on
after a forced delete); ADD deletes a claimed address after a conflict or a
failed annotation; a node that the pod has left completes its move.

`KeepsPromise` is the refinement: `StaticIp` implements `ClaimLife` under the
mapping `bound` <- the address of each claim, `attached` <- the claims not
detached, `doomed` <- the claims with a deletion timestamp, `compromised` <-
`risky`.

### HostNet: state and actions

`net`, `veth`, `route`, `dst` and `src` are the addresses inside the sandboxes,
the host interfaces, the routes of the main table and the `to` and `from` rules
of each address; `uni` is what has been set on a secondary interface and
`shared` what `initPodNetworking` has set on the node; `chains` and `nat` are
the nat table; `rec` and `own` the record of a sandbox and the address it was
given; `proc` the one plugin process.  One action is one command.  A chain is
the record that `genDnatChain` and its sisters build, `setup` turns it into a
sequence of commands, and `portmapCmdAdd` runs them one at a time with
`insertUnique`; DEL is `portmapCmdDel`, `ClearChain`, `DeleteEntries` one by
one, `DeleteChain`, `DelInterface`.  Ports, protocols and host addresses are
kept; interface names, marks and masks are not.  Faults: any netlink, iptables,
database or release call, a record that cannot be looked up or that the
reconciler deletes first, an interface that cannot be found, a kill, a reboot.

`risky` has the addresses that an error of the code's own making exempts: a rule
whose deletion failed silently (if.go:94), an address set up on the master
interface because its own was not found, an address given out while a sandbox
that an earlier failure left still refers to it.

### IpamdLife: state and actions

`old`, `new` and `held` are the v1 pool, the new pool and the address between
them; `me`, `server`, `socks` and `endpoint` the name of the plugin's socket, the
gRPC server on it, the files in kubelet's directory and the stream kubelet has.
`kubelet` is down, empties the directory, or listens.  `Launch`, `migratePop`,
`migratePut`, `startDevicePlugin` are the main goroutine; `StartClean`,
`StartListen`, `Register`, `RegisterFails` and `watchKubeletRestart` the plugin.
Every error of the plugin ends the process (`Exit`), as `ulog.Fatalf` does.

## 3. Properties

`Ipamd`:

* `PodExclusive`: no address is given to two pods.
* `PodRouted`: a pod's address is attached to the pod's node for as long as the
  pod has it.
* `PodChecked`: a pod's address passed a conflict check after it was last
  attached; the Recycled flag never vouches for another node.
* `LeakBound`: each fault loses at most one address; error paths without a
  fault lose none.
* `AddAnswered`, `CooldownRecycled`, `SurplusReleased`: liveness.
* `IInv`: the inductive invariant (section 6).

`CniPlugin`:

* `UniqueUse`: the address of a running pod is attached, not free in ipamd's
  eyes, and neither another running pod's nor the ADD's in progress.
* `RecordKept`: the record of a running pod names its address.
* `LeakBound`: what fails on the host costs no address (rollback, repeated DEL);
  a lost answer, a dead process, a failing release or database costs at most one.
* `NatMatches`: a running pod is in the ipset exactly if its PodNetworking says so.
* `TeardownEnds`: a sandbox that is torn down is gone in the end.

`NatRules`:

* `ReturnsFirst`: no partial update puts a RETURN after the rule it protects from.
* `AttachedReady`: the jump into the chain exists only while the chain is complete.
* `BypassExact`: while the bypass is installed it acts on exactly the pods for
  which the plugin decided so, pods of an older plugin included, but for the
  addresses in `risky`, of which there is at most one per fault.

`SubnetUni`:

* `OneUniPerSubnet`, `WithinLimit`: decisions on delayed metadata create no
  second interface of a subnet and none beyond the limit, as long as no call
  ends before the metadata shows what it attached (`gaveUp`).
* `UniLeakBound`: an interface that is created ends up attached or deleted,
  unless an answer is lost, a delete fails or the process dies.
* `CallEnds`: every call returns.

`StaticIp`:

* `Exclusive`: outside `risky`, an address has one owner on all nodes together:
  a pool, a node about to bind it, or a pod name.
* `RunningReachable`: outside `risky`, the address of a running pod is attached to
  the pod's node; no detach, deletion, release or move takes it away.
* `StaticLeakBound`: every attached address without an owner is accounted for by
  a step that may lose one (a failed call, a claim created twice, or deleted or
  made again under an ADD or a sandbox, a release given up, a restart of the
  controller).
* `KeepsPromise`: the claims implement `ClaimLife`.
* `ScaleDownDetaches`, `Reclaimed`: liveness of detach and garbage collection.

`HostNet`:

* `Delivers`: every host port of a running sandbox leads to it, with the marks
  for hairpin and local traffic, or to another claimant; `portmapCmdCheck` agrees.
* `NoCapture`: only the sandbox that is being set up may take a port from the one
  that receives it: no teardown, no failed or dying ADD and no third sandbox does.
  Which of two claimants wins it leaves open (section 8).
* `UniReady`: an interface with a default route, by which ADD decides to skip the
  setup, is set up completely.
* `PodRouted`: a running pod's packets take the right way in and out, whatever an
  earlier ADD with that address has left.
* `LeftoverBound`: forwarding rules and ip rules outlive a teardown only after a
  failure, one per failure.

`IpamdLife`:

* `WatchSuffices`: while the watch sees its socket, kubelet has the plugin.
* `ServesMigrated`: ipamd serves with an empty v1 pool; an address is in one pool
  and is lost only by an exit between pop and put.
* `Registered`: in the end the plugin is registered for good.

## 4. Runs and bounds

| Run | Instance | Shows |
|---|---|---|
| `faults` | 2 nodes, 2 pods, 2 addresses, high watermark 1, one fault of any kind | `TypeOK`, `PodExclusive`, `PodRouted`, `PodChecked`, `IInv` |
| `leak` | 2 nodes, 2 addresses, the pod of the second node; three faults of any kind but crashes | `LeakBound` |
| `live` | 2 nodes, 1 address that the pod must borrow, high watermark 0; one API or disk error, timeout or crash | `AddAnswered`, `CooldownRecycled`, `SurplusReleased` |
| `pop_race` | no faults | `UniquePodIP` is violated (finding) |
| `cni_faults` | 2 pods with one sandbox each, 2 addresses, one in the pool, the first pod behind the NAT gateway; two faults of any kind | `TypeOK`, `UniqueUse`, `RecordKept`, `LeakBound`, `NatMatches` |
| `cni_teardown` | the same with one address; two API, lost-answer, database, host or kill faults, with fairness | `TeardownEnds` |
| `nat_faults` | 3 pods (one of an older plugin), 2 PodNetworkings, 2 addresses, one CIDR, one fault of any kind and one edit of a policy (2,751,239 states) | `ReturnsFirst`, `AttachedReady`, `BypassExact` |
| `uni_faults` | 2 subnets, 2 interfaces, 2 ADDs, nodes with 2 and 4 vCPUs (limits 2 and 3), one fault, with fairness | `OneUniPerSubnet`, `WithinLimit`, `UniLeakBound`, `CallEnds` |
| `static_nodes` | 2 nodes, 2 addresses, 2 pod names, 3 pods created, one fault of any kind (446,895 states) | `TypeOK`, `Exclusive` |
| `static_ctl` | 2 nodes, 2 addresses, 1 pod name, 2 pods created, one scale, delete or creation; one list, API, lookup or controller fault, with fairness (428,237 states) | `Exclusive`, `RunningReachable`, `StaticLeakBound`, `KeepsPromise`, `ScaleDownDetaches`, `Reclaimed` |
| `host_faults` | 2 pods with 3 sandboxes on two secondary interfaces and the master interface, 2 addresses, 3 host ports of which the pods share one, one port per entry rule, one fault of any kind (355,913 states) | `TypeOK`, `Delivers`, `NoCapture`, `UniReady`, `PodRouted`, `LeftoverBound` |
| `life` | 2 addresses, 2 faults, 2 kubelet restarts, with fairness (6,921 states) | `TypeOK`, `WatchSuffices`, `ServesMigrated`, `Registered` |

All addresses start in the pool of the first node, so the second pod finds its
pool and the subnet empty and borrows; the high watermark of 1 makes the first
node release the other address at the same time.  Two addresses are the least
with a surplus and a loan; the proofs cover every other number.  The state
constraint `NoHazardYet` stops after the first hazardous event, where the
properties claim nothing any more.  The cooldown period is one event,
`CooldownOver`, which happens at any time.

In `CniPlugin` two addresses make the second pod get the one that the first has
released, which is when a late or repeated release does harm.  In `NatRules`
one CIDR is enough to tell the order of the return rules and the rule they
protect from, and to leave a chain incomplete; two addresses for three pods make
one pod inherit another's, and the third one's ADD is the migration that reads
the stale record.  In `SubnetUni` the limits 2 and 3
give room for one interface and for one per subnet.

In `static_nodes` the third pod is the second of its name, on the other node or
the same; with two addresses for two names a second address for one name leaves
none for the other, which is when a wrong owner shows.  In `static_ctl` one name
is enough: claims of different names meet only in the pools, which `static_nodes`
has.  A page of two claims makes `Reclaimed` true for the code; with more
detached claims that never expire than a page holds (main.go:123) it is not.
In `host_faults` the second sandbox of a pod comes with another interface and
the address of a torn-down one; a limit of one port per entry (`Multiport`, 15 in
the code) makes the entry rules several.  In `life` two restarts are enough for a
second one to meet every step of the recovery from the first.

## 5. Fairness

`FairSpec` assumes that a goroutine that can go on does (weak fairness of
`MgrStep`, `LendStep`, `AnswerAdd`), that a crashed daemon is restarted
(`Restart`: ipamd is a DaemonSet), that time passes, and that a select case
that is ready again and again is taken (strong fairness of the ticks and of
`RecvAdd`: Go's select chooses among ready cases at random).  Faults, new pods
and their deletion are never owed.

`CniPlugin`'s `FairSpec`: a process that can go on does, and kubelet repeats a
DEL that has not succeeded.  `SubnetUni`'s: the process goes on, and its
90-second timer fires.  `StaticIp`'s (for `static_ctl`): the goroutines of ipamd
and of the vip-controller go on (`AddStep`, `UpdateStep`, `DeleteStep`,
`CleanStep`, `VipStep`: worker loops, and the ticker of the garbage collector),
and a release time passes (`Expire`).  `IpamdLife`'s: the DaemonSet starts ipamd
again and its main goroutine goes on (`Main`), the plugin's goroutine goes on and
looks every 30 seconds (`Plugin`), and kubelet is started again
(`KubeletStart`).  `NatRules` and `HostNet` have no liveness property.

## 6. Proofs

The theorems hold for every value of the constants that satisfies the named
assumption of the component's module, and rest on nothing else.  Every proof has
the same shape: an inductive invariant, which TLC checked on the run's instance
(and on larger ones) before it was proved, lemmas that say what each action does
to the part of the state the invariant speaks of, one lemma per conjunct and
action, and a last temporal step.

### Ipamd

Assumptions (`ConstAssumption`): finitely many nodes and addresses, addresses
are positive numbers, the initial pools are disjoint, the watermark and the
fault budget are natural numbers.

`TypeCorrect`: `Spec => [](TypeOK /\ LocalInv)`.  The types alone are not
inductive: `BorrowReturn` uses the peer, `RecvDel` the address of a pod.
`LocalInv` says which local variables are set at which step.

`Inductive`: `Spec => []IInv`.  `PodExclusive` alone is not inductive: an
address in a pool is about to be a pod's.  `IInv` adds, until a hazardous event:

* `Exclusive` and `FreeUnheld`: an address has at most one holder among pools,
  cooldown sets, managers, lenders and pods, and none while it is free in the
  VPC.  A Pop moves the holder with its delete transaction, which is where
  `popRace` is the only way out;
* `UsedInv`: what is used without another check (pods, cooldown, the address
  about to be pooled again) is attached to the node and checked;
* `RecycledInv`: an address marked Recycled that is still attached to the node
  has been checked there.  It may have moved away (a lost answer of
  MoveSecondaryIPMac), which is what `checkSecondaryIpExist` catches;
* `OverInv`, `NoSelf`: due cooldown entries are entries, and no daemon lends to
  itself (else a failed loan would be put back unchecked).

The proof has one step per action.  Holder sets change by small lemmas (an
address is dropped by one holder, taken by another); an address that an action
touches has a single holder, so everything about other addresses stays.

`PodsExclusive`, `PodsRouted`, `PodsChecked` follow from `IInv`.

`LeaksBounded`: `Spec => []LeakBound`.  A loss shows long after its cause: a loan
that the borrower gave up is an address lost only when the lender's goroutine
completes the move.  So `Budget` counts causes and losses together.  `Astray` has
the addresses that are attached and held by nobody on the node they are attached
to, `Orphans` the BorrowIP goroutines that still work while nobody waits for
them; `Cardinality(Astray) + Cardinality(Orphans) <= faults` is inductive as long
as no hazardous event and no crash happened.  A timeout turns a loan into an
orphan, the end of an orphan may turn it into an astray address, every other
error path puts the address back; and since an address has one holder (`IInv`),
no step makes two of them stray.

### CniPlugin

Assumption (`PluginAssumption`): finitely many addresses, each sandbox has a pod,
ipamd's initial pool has addresses of the subnet.

`PluginTypes` is `TypeOK`, from `Shape`, which adds which fields of `proc` and `gc`
are set at which step.  The others hold until a hazardous event, and so does the
rest of the invariant:

* `OwnInv`: the address that a namespace, a record, the list of the reconciler or
  the running process knows as that of a sandbox not yet released is attached,
  not in ipamd's hands and no other sandbox's.  `PodsHaveTheirAddress`
  (`UniqueUse`) follows;
* `RecInv`: what the reconciler has read and will write back is still the address
  of that sandbox.  `RecordsNameTheAddress` (`RecordKept`) follows;
* `NatInv`: what is in the ipset is attached and not in ipamd's hands, or is the
  address of an ADD that is about to remove it; the address of an ADD is in it
  just if that ADD has put it there.  `SetMatchesPods`
  (`NatMatches`) follows, as long as ipset calls succeed;
* `LeakInv`: the addresses lost so far, and the one that an ADD whose pod was
  deleted by force will lose, are together no more than `losses`, which counted
  the deletion when it happened.  `LeaksAreBounded`
  (`LeakBound`) follows.

### StaticIp

Assumption (`StaticAssumption`): finitely many addresses and nodes, which are
neither pods nor `None`.

* `StaticTypes`: `TypeOK`, from `Shape`.
* `OneOwner` (`Exclusive`): not inductive, since an ADD goes on with an address
  whose claim has been deleted, and the vip-controller holds deleted claims whose
  pod may still have a sandbox.  `OwnInv` counts all of them as uses of the pod
  name: an address outside `risky` is used by one node's pool, or by one pod
  name, or, if it is free in the VPC, by nobody.
* `RunningPodReachable` (`RunningReachable`): `OwnInv`, and that the address in
  the sandbox of a running pod is attached to the node of the sandbox.
* `ClaimsKeepPromise` (`KeepsPromise`): `Spec => Life!Spec`.  Initial states map
  to initial states, every step to a step of `ClaimLife` or a stutter.  The
  binding of an address is the one that needs `OwnInv`: the address that a node
  is about to write into a claim is bound to no name.
* `StaticLeaksBounded` (`StaticLeakBound`): an attached address is `Insured` while
  a claim binds it, an ADD is about to bind it or to mark its claim attached, or
  the vip-controller has yet to release it.  `Exposed` has the others, in use or
  not, and `ExposedBound`, that they are no more than `lost`, is inductive.  An
  insurance ends only by a step that `lost` counts, and what follows (an ADD
  that puts the address into a sandbox or gives up, a DEL without a claim) cannot
  raise the number again.  The attempt to prove it on an earlier form of the
  model failed for a good reason: a claim that is deleted and made again under
  an ADD that its pod has left costs that ADD's address, and `lost` did not count
  the step that discovers it (`markVPCIpClaimAttached`, vpcclaim.go).  It takes
  three addresses to see.

### SubnetUni

Assumption (`UniAssumption`): finitely many interfaces; the bounds are natural
numbers.

`NoSecondUni` (`OneUniPerSubnet`), `LimitIsKept` (`WithinLimit`) and
`UniLeaksAreBounded` (`UniLeakBound`).  That a new interface is the only one of
its subnet, and one too many for the node never, follows from the metadata read
several calls earlier.  `KnownInv` carries it from there to the attach: the call
works on a subnet for which it saw no interface and below the limit, and the
metadata shows every attached interface while no call has ended too early.

### NatRules

Assumption (`NatAssumption`): the pods of an older plugin have different
addresses; the CIDRs are none of the other rules.

`ReturnsStayFirst` (`ReturnsFirst`), `ChainsReadyWhenAttached` (`AttachedReady`)
and `BypassIsExact` (`BypassExact`).  Chains are written one rule at a time, so
`ReadyInv` says that each is complete up to the rules still to be written.

`BypassExact` needs to know whose an address is, over a DEL that stops anywhere
and a reconciler that edits the records meanwhile.  A pod `Holds` its address
while it runs, until its DEL has released it, and as long as a record names it:

* `NodeShape`: outside `risky`, an address that a pod holds is taken, no other
  pod holds it, and it is in the record of a pod that runs.  Without the
  exemption this is false, since a record can outlive the release;
* `SetInv`: the ipset has only addresses that are taken, risky or about to be
  rolled back; an address given to a pod is in nobody's hands, and in the ipset
  just as decided for that pod;
* `PlanInv`: what the migration still has to do makes the ipset agree with the
  decision for every running pod, and the bypass rule is written only after that;
* `RiskBound`: `risky` is no larger than `faults`.  A process that dies between
  release and record charges one address (`Unfinished`), the one it worked on.

### HostNet

Assumptions.  `HostAssumption`: finitely many sandboxes and addresses, each
sandbox has a pod and an interface, and the primary address of an interface
(for which the interface itself stands) is none of the addresses given to pods.
`PortAssumption`: the port mappings of a pod are a list of entries with a protocol
and a port number, and an entry rule takes at least one port.  `NameAssumption`:
the chain of a sandbox, which has a hash in its name, is not a chain of the
kernel or of the plugin, and neither it nor an address is one of the targets.
The routing theorems use the first one only.

`InterfacesReady` (`UniReady`).  `UniInv` follows the seven commands for an
interface: before command k everything of the commands before it is there, the
default route is not, and the kernel's own route is gone once it was flushed,
unless that flush failed.  A plugin that dies in between leaves no default route,
so the next ADD repeats all of it.

`PodsRoutedRight` (`PodRouted`).  What a running pod needs was set up by its ADD
many commands earlier, while other pods come and go:

* `AddUni`, `AddLink`, `AddRule` say what the ADD in progress has achieved so far;
  at its end that is `RunInv`, which is `PodRouted` without the bound;
* `VethInv` and `RouteInv`: a host interface belongs to a sandbox of its pod and a
  route leads to the sandbox that has the address, so a network namespace that is
  removed late takes nothing of the pod's new sandbox with it;
* `Alone`: an address has one owner; unless it is `risky`, no other sandbox has it
  or a record of it, and no DEL of another one is about to release it.  So no DEL
  deletes the rules of a running pod;
* `BudgetInv`: `risky` and `Exposed` together are no more than `faults`.  `Exposed`
  has the addresses whose next owner may meet something old: a sandbox still has
  one without owning it, or there is a rule from one that nobody owns.  DEL gives
  an address back before it removes record and interface, so its sandbox is
  exempt until it is through, and every way out of that is a fault.
  `ReleaseInv` (no rules are left at the release) and `FreshInv` (no address
  before the ADD asks for one) complete it.

`HostTyped` (`TypeOK`) needs to know what the operators on sequences return, for
every list of port mappings: `groupByProto`, `splitPortList`, `setup` and
`forwardPorts` are folds and flattened sequences, and lemmas say what they
contain and in which order (`Joined`, `EntryFacts`, `DnatFacts`, `LayoutFacts`).
What is an induction over the length is done there with the least counterexample:
`Least` takes it from the library's well-foundedness of the naturals.  The chains
stay duplicate-free (`NatShape`), because `insertUnique` looks before it inserts.

`LeftoversBounded` (`LeftoverBound`) has two budgets:

* `RuleBudget`: the addresses with an ip rule that no DEL will remove (no live
  sandbox has the address, the rollback is giving it back, or its sandbox has no
  record) are no more than `faults`.  A DEL finds the address of its sandbox by the
  record, so `RecordInv` says when a record and the address given to a sandbox
  agree.  That a DEL removes all the rules of an address needs that no table
  is named twice in them (`SrcOnce`);
* `ForwardBudget`: the sandboxes whose forwarding is `Abandoned` (a chain or an
  entry is there, and DEL is over or will be without having removed it, since the
  record is gone) are no more than `lost`.  What the DEL in progress
  is about to remove (`Cleaning`) does not count until that DEL fails.

`PortsDelivered` (`Delivers`).  `ForwardInv` follows the program of an ADD command by
command and keeps what it has achieved while other programs run:

* `Progress`: the commands of the ADD in progress before its current one are done:
  their chains exist and their rules are in them.  `RunsForwarded`: so are all the
  commands of a running sandbox.  Other sandboxes add rules to the shared
  chains; a DEL removes only rules that jump to its own chain, and only its own
  chain;
* `ChainInv`: a rule of a sandbox's chain that rewrites leads to the address of
  that sandbox and has both of its marks before it;
* `TopEntries` and `EntryLast`: an entry jumps to the chain of a sandbox, and it is
  there only when that chain is complete.

Then a packet to a host port has a first rewrite, again by least elements
(`FirstExists`), and it is in the chain of this sandbox, or of another one that
is alive or was not cleaned up.

`PortsNotCaptured` (`NoCapture`), the action property.  `Leads(s, t)` says that the
first entry that takes a packet for `t` to a rewrite is one of `s`; it is the same
as `Receiver(t) = s`.  A step changes it only if it puts an entry before that
one, or makes an earlier one serve `t`.  ADD appends entries, `insertUnique` adds
to a chain before its entry exists, and DEL only takes away what belongs to a
sandbox that does not run (`LeadsStay`).  The lemma `ReceiverStays` is what the
code does, and stronger than the theorem: not even the sandbox being set up takes
the port.

### IpamdLife

Assumption (`LifeAssumption`): finitely many addresses and socket names, and more
names than processes.

`LifeTypes` (`TypeOK`), `WatchIsEnough` (`WatchSuffices`) and
`MigrationIsComplete` (`ServesMigrated`).  `ServerInv` says that the server of a
process exists only while it serves and has its own name when it registers;
`MigratedInv` that the plugin starts only on an empty v1 pool.

### Only model-checked

* The liveness properties: fairness and ENABLED are beyond the prover.
* `UniquePodIP`, which the code violates (`pop_race`).

Every safety invariant and every safety action property of the passing runs is
the statement of a theorem.

## 7. Plan

Done: `Ipamd`, `CniPlugin`, `NatRules`, `SubnetUni`, `ClaimLife`, `StaticIp`,
`HostNet`, `IpamdLife`, and proofs about all of them.

Of the properties the runs check the liveness properties are left to TLC.  The
parts of section 9 would come next: several subnets per node, whose pools
`recycleStatus` removes, and the IPv6 and conditional port mappings.

## 8. Observations

What the models show of the code beside the finding of `pop_race`.  Where a
property would fail, it exempts the event, and the module says so.

* A loan that completes after the borrower's deadline leaves an address attached
  to the borrower and in no pool (pool.go:617): the one address that `LeakBound`
  grants to a timeout.
* A restarted daemon does not look at a pool bucket until a request opens it
  (svc.go:247), which is why `SurplusReleased` speaks of opened pools.
* A daemon whose own CR is not published yet takes another daemon's single CR for
  its own and does not borrow (pool.go:567).
* A DEL that dies between the release (main.go:276) and the deletion of the
  record releases the address again when it is repeated; it may be another pod's
  then.  The comment at main.go:267 counts on a repeated DEL doing nothing.
* When the deletion of a record fails (main.go:280, only logged) or the process
  dies before it, the record goes on naming a released address.  If the pod still
  has its API object and its PodNetworking the gateway enabled, the next migration
  puts that address into the ipset, and a pod that has it by then bypasses the
  node's SNAT against its own PodNetworking (nat_outgoing.go:148).  `BypassExact`
  exempts the one address.
* The reconciler lists the pods before the records (resource.go:79 and 85), so
  the record of a pod created in between is deleted; the comment at
  resource.go:68 speaks of resources that should not exist.  It also deletes the
  record of a pod removed by force without releasing its address
  (resource.go:116), which `LeakBound` of `CniPlugin` counts as a loss.
* An interrupted update can leave the restore rule in front of the jump
  (if.go:466), against the order that the comment at if.go:451 wants.
* The wait for a new interface ends with a nil interface and a nil error
  (rpc.go:410), and the caller uses the interface (rpc.go:282).
* Port entries are appended, so the first sandbox that claims a host port keeps
  it for as long as its entries are there (the lemma `ReceiverStays`).  The
  package comment at portmap/cmd.go:23 says the opposite, that another container
  claiming the port will capture the traffic ("last-write-wins").  `NoCapture` and
  `Delivers` hold under either reading.
* forwardPorts only adds; the idempotent teardown of the comment at
  portmap.go:104 is left to DEL.  `checkPorts` returns nil when the chain is
  missing (portmap.go:130), so `Delivers` asks for the chain as well.
* The source of a hairpin rule is the pod's address with its mask, so traffic of
  the whole subnet to the port is masqueraded.
* `uapiAllocateSpecifiedSecondaryIp` only logs its error (uapi.go:149); the move
  that follows fails, and with it the ADD.
* An update that fails leaves its key in processing for ever (sts.go:124), which
  is why `ScaleDownDetaches` holds only until a call fails; and a deleted claim
  whose pod runs, or whose release fails, is never looked at again
  (vpcipclaim.go:96), the main part of `StaticLeakBound`.
* ListAndWatch reads `m.stop` while Start and Stop replace it
  (deviceplugin.go:167): a stream may wait on the new channel.  The stream's
  connection ends with its server in any case, which is what `IpamdLife` has.
* `updateStatus` does not refresh `Spec.Addr` of an existing CR (pool.go:404), and
  the comment at svc.go:316 promises a removal of pre-allocated addresses that
  the handler does not do.

## 9. Not modelled

Packet I/O (`pkg/arping`: its verdict is a nondeterministic choice), several
subnets per node and with them `getPool` and `recycleStatus` (pool.go:418), which
deletes the CRs of pools that are gone; RPS, proxy ARP and the DNS file of
`cmd/cnivpc`; of the port mapping IPv6, `snat: false`, conditions and the chains
of old versions; the retry loop of the lock file; HTTP endpoints, metadata and
API clients, generated code, installers.
