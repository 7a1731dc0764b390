------------------------------ MODULE HostNet ------------------------------
(***************************************************************************)
(* What the CNI plugin leaves in the kernel of its node: the routes and    *)
(* rules of a secondary interface and of every pod (cmd/cnivpc/if.go,      *)
(* veth.go) and the port forwarding chains (pkg/portmap).  One plugin      *)
(* process runs at a time (the lock file), every command it gives the      *)
(* kernel is a step of its own, any of them may fail, and the process may  *)
(* die between any two.  The addresses come from and go back to ipamd or   *)
(* the VPC, whose inside is in Ipamd and CniPlugin; SubnetUni chooses the  *)
(* secondary interface and NatRules has the SNAT and mark chains.          *)
(***************************************************************************)
EXTENDS Integers, FiniteSets, SequencesExt

CONSTANTS
  Pod,          \* pods: a namespace and a name
  Sandbox,      \* sandbox IDs, each used for one ADD
  PodOf,        \* the pod of a sandbox
  Uni,          \* the secondary interfaces of the node, each with its route table
  NicOf,        \* the interface PodNetworking gives a sandbox: in Uni, or Master
  PortMaps,     \* the port mappings of a pod, a sequence of PortMapEntry
  Addr,         \* the addresses of the subnet the interfaces share
  Multiport,    \* how many ports one entry rule can match (15)
  FaultKinds,   \* the kinds of fault the environment may inject
  MaxFaults,    \* bound: how many faults it injects
  Master, None

HostPort == 1 .. 65535
PortMapEntry == [proto : {"tcp", "udp"}, port : HostPort, host : {"", "v4", "v6"}]
Port == {<<e.proto, e.port>> : e \in UNION {ToSet(PortMaps[p]) : p \in Pod}}

Builtin == {"PREROUTING", "OUTPUT", "POSTROUTING"}
Common == Builtin \cup {"SETMARK", "MASQ", "TOP", "KUBE-MARK-MASQ"}
Chain == Common \cup Sandbox
Target == {"MARK", "MASQUERADE", "RETURN"}

ASSUME HostAssumption ==
  /\ PodOf \in [Sandbox -> Pod]
  /\ NicOf \in [Sandbox -> Uni \cup {Master}]
  /\ MaxFaults \in Nat
  /\ IsFiniteSet(Sandbox) /\ IsFiniteSet(Addr)
  /\ Master \notin Uni /\ None \notin Addr \cup Pod \cup Sandbox /\ Addr \cap Uni = {}

ASSUME PortAssumption == PortMaps \in [Pod -> Seq(PortMapEntry)] /\ Multiport \in Nat \ {0}

(* The chain of a sandbox has a hash in its name.                          *)
ASSUME NameAssumption ==
  /\ Sandbox \cap (Common \cup Target) = {}
  /\ Addr \cap (Chain \cup Target \cup {"any", "localhost"}) = {}

VARIABLES
  external,  \* plugin configuration: externalSetMarkChain is set
  sb,        \* kubelet's view of each sandbox
  rec,       \* the pod network record of each sandbox
  own,       \* the address ipamd or the VPC has given to each sandbox
  net,       \* the address configured inside each sandbox
  veth,      \* the sandbox at the far end of the host interface of each pod
  route,     \* main table: the pod whose host interface each address goes to
  dst,       \* the addresses with a rule "to address: table main"
  src,       \* the tables of the rules "from address", a Uni standing for its own
  uni,       \* what has been configured on each secondary interface
  shared,    \* what initPodNetworking has set on the node
  chains,    \* nat table: the chains that exist
  nat,       \* nat table: the rules of each chain
  proc,      \* the plugin process that holds the lock
  faults,    \* number of injected faults
  lost,      \* ... and of those that may leave forwarding rules behind
  risky      \* history: the addresses and interfaces a failure has left unsound

kubeVars == <<sb, rec, own>>
linkVars == <<net, veth, route>>
ruleVars == <<dst, src>>
uniVars  == <<uni, shared>>
natVars  == <<chains, nat>>
history  == <<faults, lost, risky>>
vars == <<external, kubeVars, linkVars, ruleVars, uniVars, natVars, proc, history>>

NoProc == [op |-> "none", sb |-> None, pc |-> "idle", k |-> 1, ip |-> None, nic |-> Master]
NoRule == [on |-> {}, from |-> "any", to |-> "RETURN"]
Rule == [on : SUBSET Port, from : {"any", "localhost"} \cup Addr,
         to : Chain \cup Addr \cup Target]

Live == {"adding", "running", "deleting"}
UniSetting == {"mtu", "addr", "up", "stray", "rp_filter", "gateway", "default"}

(* insertUnique and the ensure functions never leave a rule twice.         *)
TypeOK ==
  /\ external \in BOOLEAN
  /\ sb \in [Sandbox -> {"none", "stopped", "gone"} \cup Live]
  /\ rec \in [Sandbox -> Addr \cup {None}] /\ own \in [Sandbox -> Addr \cup {None}]
  /\ net \in [Sandbox -> Addr \cup {None}]
  /\ veth \in [Pod -> Sandbox \cup {None}] /\ route \in [Addr -> Pod \cup {None}]
  /\ dst \in SUBSET Addr
  /\ \A a \in Addr \cup Uni : src[a] \in Seq(Uni) /\ IsInjective(src[a])
  /\ uni \in [Uni -> SUBSET UniSetting]
  /\ shared \in SUBSET {"rp_filter", "connmark"}
  /\ chains \in SUBSET Chain /\ Builtin \subseteq chains
  /\ \A c \in Chain : nat[c] \in Seq(Rule) /\ IsInjective(nat[c])
  /\ \A c \in Chain \ chains : nat[c] = <<>>
  /\ proc.op \in {"none", "ADD", "DEL"} /\ proc.sb \in Sandbox \cup {None}
  /\ proc.ip \in Addr \cup {None} /\ proc.nic \in Uni \cup {Master} /\ proc.k \in Nat \ {0}
  /\ faults \in 0..MaxFaults /\ lost \in 0..faults
  /\ risky \in SUBSET (Addr \cup Uni)

Init ==
  /\ external \in BOOLEAN
  /\ sb = [s \in Sandbox |-> "none"]
  /\ rec = [s \in Sandbox |-> None] /\ own = rec /\ net = rec
  /\ veth = [p \in Pod |-> None]
  /\ route = [a \in Addr |-> None]
  /\ dst = {} /\ src = [a \in Addr \cup Uni |-> <<>>]
  /\ uni = [u \in Uni |-> {}] /\ shared = {}
  /\ chains = Builtin \cup {"KUBE-MARK-MASQ"} /\ nat = [c \in Chain |-> <<>>]
  /\ proc = NoProc
  /\ faults = 0 /\ lost = 0 /\ risky = {}

(* A command that fails.  An ADD that fails before it forwards ports has   *)
(* no rule to leave, one that fails later has a record for DEL to find.    *)
Fault(k) ==
  /\ k \in FaultKinds /\ faults < MaxFaults
  /\ faults' = faults + 1
  /\ lost' = IF k = "gc" \/ (proc.op = "DEL" /\ k \in {"iptables", "lookup", "kill"})
             THEN lost + 1 ELSE lost
Sound == UNCHANGED <<faults, lost>>

At(op, pc) == proc.op = op /\ proc.pc = pc
Goto(pc) == proc' = [proc EXCEPT !.pc = pc, !.k = 1]
Again == proc' = [proc EXCEPT !.k = @ + 1]
ThisPod == PodOf[proc.sb]

(* kubelet tears down a sandbox whose ADD failed, and repeats a DEL that   *)
(* failed.                                                                 *)
AddFails == proc' = NoProc /\ sb' = [sb EXCEPT ![proc.sb] = "deleting"]
AddOK == proc' = NoProc /\ sb' = [sb EXCEPT ![proc.sb] = "running"]
DelFails == proc' = NoProc /\ UNCHANGED sb
DelOK == proc' = NoProc /\ sb' = [sb EXCEPT ![proc.sb] = "stopped"]

-----------------------------------------------------------------------------
(* ADD: the secondary interface.                                           *)

StartAdd(s) ==
  /\ proc = NoProc /\ sb[s] = "none"
  /\ \A r \in Sandbox : PodOf[r] = PodOf[s] => sb[r] \notin {"adding", "running"}
  /\ sb' = [sb EXCEPT ![s] = "adding"]
  /\ LET nic == NicOf[s] IN
     proc' = [NoProc EXCEPT !.op = "ADD", !.sb = s, !.nic = nic,
                            !.pc = IF nic = Master THEN "assign" ELSE "primary"]
  /\ UNCHANGED <<external, rec, own, linkVars, ruleVars, uniVars, natVars, history>>

(* The rules of a are scanned in order up to the first that leads to table *)
(* u; the others met on the way are deleted.                               *)
Scanned(a, u) ==
  IF Contains(src[a], u) THEN SubSeq(src[a], SelectInSeq(src[a], LAMBDA t : t = u), Len(src[a]))
  ELSE <<u>>

(* The error of RuleDel is dropped: the wrong rule stays in front.         *)
ensureSrcIPRoutePolicy_KeepsOther(a, u) ==
  /\ src' = [src EXCEPT ![a] = IF Contains(@, u) THEN @ ELSE Append(@, u)]
  /\ Sound /\ UNCHANGED risky
ensureSrcIPRoutePolicy(a, u) ==
  \/ /\ src' = [src EXCEPT ![a] = Scanned(a, u)]
     /\ Sound /\ UNCHANGED risky
  \/ /\ src[a] # <<>> /\ Head(src[a]) # u /\ Fault("netlink")
     /\ src' = [src EXCEPT ![a] = <<Head(@)>> \o Scanned(a, u)]
     /\ risky' = risky \cup {a}

(* ... and what is left of them when listing or adding fails.              *)
SrcFails(a, u) ==
  /\ Fault("netlink")
  /\ \E left \in {src[a], IF Contains(src[a], u) THEN Scanned(a, u) ELSE <<>>} :
       src' = [src EXCEPT ![a] = left]
  /\ UNCHANGED risky

(* The routes of the interface cannot be listed; its rule is in place.      *)
RouteListFails(u) ==
  /\ Fault("netlink")
  /\ src' = [src EXCEPT ![u] = Scanned(u, u)]
  /\ UNCHANGED risky

(* A default route in the interface's table is taken to mean that the rest *)
(* has been done.                                                          *)
ensureUNIPrimaryIPRoute ==
  LET u == proc.nic IN
  /\ At("ADD", "primary")
  /\ \/ /\ ensureSrcIPRoutePolicy(u, u)
        /\ Goto(IF "default" \in uni[u] THEN "rp_filter" ELSE "uni")
        /\ UNCHANGED sb
     \/ (SrcFails(u, u) \/ RouteListFails(u)) /\ AddFails
  /\ UNCHANGED <<external, rec, own, linkVars, dst, uniVars, natVars>>

UniSteps_DefaultFirst == <<"default", "mtu", "addr", "up", "flush", "rp_filter", "gateway">>
UniSteps == <<"mtu", "addr", "up", "flush", "rp_filter", "gateway", "default">>

(* With its address set and the link up, the kernel adds a route to the    *)
(* subnet in the main table; "flush" lists the routes, which may end the   *)
(* ADD, and deletes this one: an error of the deletion is dropped.         *)
UniEffect(step) ==
  CASE step = "up" -> {"up", "stray"}
    [] step = "flush" -> {}
    [] OTHER -> {step}

UniStep ==
  LET u == proc.nic
      step == UniSteps[proc.k]
      Proceed == (IF proc.k = Len(UniSteps) THEN Goto("rp_filter") ELSE Again) /\ UNCHANGED sb
  IN
  /\ At("ADD", "uni")
  /\ \/ /\ uni' = [uni EXCEPT ![u] = (IF step = "flush" THEN @ \ {"stray"} ELSE @)
                                     \cup UniEffect(step)]
        /\ Proceed /\ Sound /\ UNCHANGED risky
     \/ /\ step = "flush" /\ Fault("netlink")
        /\ risky' = risky \cup {u}
        /\ Proceed /\ UNCHANGED uni
     \/ /\ Fault("netlink")
        /\ AddFails /\ UNCHANGED <<uni, risky>>
  /\ UNCHANGED <<external, rec, own, linkVars, ruleVars, shared, natVars>>

(* The master interface accepts what comes back another way.               *)
ensureMasterInterfaceRpFilter ==
  At("ADD", "rp_filter") /\ shared' = shared \cup {"rp_filter"} /\ Goto("connmark")

(* Packets with the mark of NatRules use the main table.                   *)
ensureConnmarkRule ==
  At("ADD", "connmark") /\ shared' = shared \cup {"connmark"} /\ Goto("assign")

(* initPodNetworking after the interface; between the two are the chains   *)
(* of NatRules.                                                            *)
initPodNetworking ==
  /\ \/ (ensureMasterInterfaceRpFilter \/ ensureConnmarkRule) /\ Sound /\ UNCHANGED sb
     \/ /\ At("ADD", "rp_filter") \/ At("ADD", "connmark")
        /\ Fault("netlink") /\ AddFails /\ UNCHANGED shared
  /\ UNCHANGED <<external, rec, own, linkVars, ruleVars, uni, natVars, risky>>

-----------------------------------------------------------------------------
(* ADD: the pod's own interface, routes and record.                        *)

(* Something of an earlier sandbox still refers to an address.             *)
Loose(ip) == \E r \in Sandbox : own[r] # ip /\ ip \in {net[r], rec[r]}

(* When the interface of the address cannot be found, the pod is set up    *)
(* on the master interface.                                                *)
assignPodIp(ip) ==
  /\ At("ADD", "assign")
  /\ \A r \in Sandbox : own[r] # ip
  /\ own' = [own EXCEPT ![proc.sb] = ip]
  /\ \E nic \in {proc.nic, Master} :
       /\ proc' = [proc EXCEPT !.pc = "veth", !.ip = ip, !.nic = nic]
       /\ IF nic # proc.nic THEN Fault("link") ELSE Sound
       /\ risky' = IF nic # proc.nic \/ Loose(ip) \/ (nic = Master /\ src[ip] # <<>>)
                   THEN risky \cup {ip} ELSE risky
  /\ UNCHANGED <<external, sb, rec, linkVars, ruleVars, uniVars, natVars>>

assignFails ==
  /\ At("ADD", "assign") /\ Fault("assign") /\ AddFails
  /\ UNCHANGED <<external, rec, own, linkVars, ruleVars, uniVars, natVars, risky>>

(* The host interface of a pod goes, with the routes through it and the    *)
(* other end of the pair.                                                  *)
LinkDel(p) ==
  /\ veth' = [veth EXCEPT ![p] = None]
  /\ net' = [s \in Sandbox |-> IF veth[p] = s THEN None ELSE net[s]]
  /\ route' = [a \in Addr |-> IF route[a] = p THEN None ELSE route[a]]

HostFails == Fault("host") /\ Goto("rollback")

checkAndCleanOldVeth ==
  /\ At("ADD", "veth")
  /\ \/ LinkDel(ThisPod) /\ Sound /\ Goto("pair")
     \/ HostFails /\ UNCHANGED linkVars
  /\ UNCHANGED <<external, kubeVars, ruleVars, uniVars, natVars, risky>>

setupVethPair ==
  /\ At("ADD", "pair")
  /\ \/ /\ veth' = [veth EXCEPT ![ThisPod] = proc.sb]
        /\ net' = [net EXCEPT ![proc.sb] = proc.ip]
        /\ Sound /\ Goto("route")
     \/ HostFails /\ UNCHANGED <<veth, net>>
     \/ /\ HostFails
        /\ veth' = [veth EXCEPT ![ThisPod] = proc.sb]
        /\ net' \in {net, [net EXCEPT ![proc.sb] = proc.ip]}
  /\ UNCHANGED <<external, kubeVars, route, ruleVars, uniVars, natVars, risky>>

(* A route that is there already is left alone.                            *)
addRouteRuleForPodIp ==
  LET ip == proc.ip IN
  /\ At("ADD", "route")
  /\ \/ /\ route' = IF route[ip] = None THEN [route EXCEPT ![ip] = ThisPod] ELSE route
        /\ Sound /\ Goto("dst")
     \/ HostFails /\ UNCHANGED route
  /\ UNCHANGED <<external, kubeVars, net, veth, ruleVars, uniVars, natVars, risky>>

ensureDstIPRoutePolicy ==
  /\ At("ADD", "dst")
  /\ \/ dst' = dst \cup {proc.ip} /\ Sound /\ Goto(IF proc.nic = Master THEN "range" ELSE "src")
     \/ HostFails /\ UNCHANGED dst
  /\ UNCHANGED <<external, kubeVars, linkVars, src, uniVars, natVars, risky>>

PodSrcRule ==
  /\ At("ADD", "src")
  /\ \/ ensureSrcIPRoutePolicy(proc.ip, proc.nic) /\ Goto("range")
     \/ SrcFails(proc.ip, proc.nic) /\ Goto("rollback")
  /\ UNCHANGED <<external, kubeVars, linkVars, dst, uniVars, natVars>>

setNodePortRange ==
  /\ At("ADD", "range")
  /\ (Sound /\ Goto("record")) \/ HostFails
  /\ UNCHANGED <<external, kubeVars, linkVars, ruleVars, uniVars, natVars, risky>>

(* The address goes back; the interface, the routes and the rules stay.    *)
rollbackReleaseIP ==
  /\ At("ADD", "rollback") /\ AddFails
  /\ \/ own' = [own EXCEPT ![proc.sb] = None] /\ Sound
     \/ Fault("release") /\ UNCHANGED own
  /\ UNCHANGED <<external, rec, linkVars, ruleVars, uniVars, natVars, risky>>

addPodNetworkRecord ==
  /\ At("ADD", "record")
  /\ \/ rec' = [rec EXCEPT ![proc.sb] = proc.ip] /\ Sound /\ Goto("portmap") /\ UNCHANGED sb
     \/ Fault("db") /\ AddFails /\ UNCHANGED rec
  /\ UNCHANGED <<external, own, linkVars, ruleVars, uniVars, natVars, risky>>

-----------------------------------------------------------------------------
(* ADD: port forwarding.  A chain is a name, its rules, and the rules in   *)
(* its entry chains that jump to it; setup gives the commands in order.    *)

Jump(ports, c) == [on |-> ports, from |-> "any", to |-> c]

genSetMarkChain ==
  [name |-> "SETMARK", rules |-> <<Jump(Port, "MARK")>>,
   entryChains |-> <<>>, entryRules |-> <<>>, prependEntry |-> FALSE]

genMarkMasqChain ==
  [name |-> "MASQ", rules |-> <<Jump(Port, "MASQUERADE")>>,
   entryChains |-> <<"POSTROUTING">>, entryRules |-> <<Port>>, prependEntry |-> TRUE]

genToplevelDnatChain ==
  [name |-> "TOP", rules |-> <<>>,
   entryChains |-> <<"PREROUTING", "OUTPUT">>, entryRules |-> <<Port>>, prependEntry |-> FALSE]

groupByProto(entries, proto) ==
  FlattenSeq([i \in DOMAIN entries |-> IF entries[i].proto = proto THEN <<entries[i]>> ELSE <<>>])

splitPortList(l) ==
  [g \in 1 .. (Len(l) + Multiport - 1) \div Multiport |->
     {<<l[i].proto, l[i].port>> : i \in {j \in DOMAIN l : (j - 1) \div Multiport = g - 1}}]

EntryRules(entries) ==
  splitPortList(groupByProto(entries, "tcp")) \o splitPortList(groupByProto(entries, "udp"))

SetMarkChainName == IF external THEN "KUBE-MARK-MASQ" ELSE "SETMARK"

(* The packets that come back to the pod that sent them, and those of the  *)
(* host itself, are marked before their destination is rewritten.  An      *)
(* entry for a host address of the other family has no rule.  (The source  *)
(* of the first rule is the address with its mask, so the whole subnet; of *)
(* that the model keeps the pod itself.)                                   *)
DnatRules_DnatFirst(e, ip) ==
  LET mine == {<<e.proto, e.port>>} IN
  IF e.host = "v6" THEN <<>>
  ELSE <<[on |-> mine, from |-> "any", to |-> ip],
         [on |-> mine, from |-> ip, to |-> SetMarkChainName],
         [on |-> mine, from |-> "localhost", to |-> SetMarkChainName]>>
DnatRules(e, ip) ==
  LET mine == {<<e.proto, e.port>>} IN
  IF e.host = "v6" THEN <<>>
  ELSE <<[on |-> mine, from |-> ip, to |-> SetMarkChainName],
         [on |-> mine, from |-> "localhost", to |-> SetMarkChainName],
         [on |-> mine, from |-> "any", to |-> ip]>>

fillDnatRules(s, ip) ==
  LET entries == PortMaps[PodOf[s]] IN
  [name |-> s, rules |-> FlattenSeq([i \in DOMAIN entries |-> DnatRules(entries[i], ip)]),
   entryChains |-> <<"TOP">>, entryRules |-> EntryRules(entries), prependEntry |-> FALSE]

Command(c, r, first) == [chain |-> c, rule |-> r, prepend |-> first]

setup(c) ==
  <<Command(c.name, NoRule, FALSE)>>
  \o [i \in DOMAIN c.rules |-> Command(c.name, c.rules[i], FALSE)]
  \o FlattenSeq([i \in DOMAIN c.entryChains |->
       [j \in DOMAIN c.entryRules |->
          Command(c.entryChains[i], Jump(c.entryRules[j], c.name), c.prependEntry)]])

forwardPorts(s, ip) ==
  IF PortMaps[PodOf[s]] = <<>> THEN <<>>
  ELSE (IF external THEN <<>> ELSE setup(genSetMarkChain) \o setup(genMarkMasqChain))
       \o setup(genToplevelDnatChain) \o setup(fillDnatRules(s, ip))

(* iptables refuses a rule in, or a jump to, a chain that does not exist.  *)
Accepted(cmd) ==
  cmd.rule = NoRule \/ {cmd.chain, cmd.rule.to} \cap Chain \subseteq chains

insertUnique_Always(cmd) ==
  IF cmd.rule = NoRule THEN nat ELSE [nat EXCEPT ![cmd.chain] = Append(@, cmd.rule)]
insertUnique(cmd) ==
  IF cmd.rule = NoRule \/ Contains(nat[cmd.chain], cmd.rule) THEN nat
  ELSE IF cmd.prepend THEN [nat EXCEPT ![cmd.chain] = <<cmd.rule>> \o @]
  ELSE [nat EXCEPT ![cmd.chain] = Append(@, cmd.rule)]

portmapCmdAdd ==
  LET prog == forwardPorts(proc.sb, proc.ip) IN
  /\ At("ADD", "portmap")
  /\ \/ proc.k > Len(prog) /\ AddOK /\ Sound /\ UNCHANGED natVars
     \/ /\ proc.k <= Len(prog) /\ Accepted(prog[proc.k])
        /\ chains' = chains \cup {prog[proc.k].chain}
        /\ nat' = insertUnique(prog[proc.k])
        /\ Again /\ Sound /\ UNCHANGED sb
     \/ /\ proc.k <= Len(prog) /\ AddFails
        /\ (~Accepted(prog[proc.k]) /\ Sound) \/ Fault("iptables")
        /\ UNCHANGED natVars
  /\ UNCHANGED <<external, rec, own, linkVars, ruleVars, uniVars, risky>>

-----------------------------------------------------------------------------
(* DEL.                                                                    *)

StartDel(s) ==
  /\ proc = NoProc /\ sb[s] \in {"running", "deleting"}
  /\ sb' = [sb EXCEPT ![s] = "deleting"]
  /\ proc' = [NoProc EXCEPT !.op = "DEL", !.sb = s, !.pc = "get"]
  /\ UNCHANGED <<external, rec, own, linkVars, ruleVars, uniVars, natVars, history>>

(* Without a record, the answer of ipamd is nil and DEL goes on, the       *)
(* plugin's own lookup is an error and DEL succeeds at once, as it does    *)
(* after any other error.                                                  *)
getPodNetworkRecord ==
  /\ At("DEL", "get")
  /\ \/ /\ rec[proc.sb] # None
        /\ proc' = [proc EXCEPT !.pc = "rules", !.ip = rec[proc.sb]]
        /\ Sound /\ UNCHANGED sb
     \/ rec[proc.sb] = None /\ Goto("portmap") /\ Sound /\ UNCHANGED sb
     \/ rec[proc.sb] = None /\ DelOK /\ Sound
     \/ rec[proc.sb] # None /\ DelOK /\ Fault("lookup")
  /\ UNCHANGED <<external, rec, own, linkVars, ruleVars, uniVars, natVars, risky>>

cleanUpIPRoutePolicy ==
  LET ip == proc.ip IN
  /\ At("DEL", "rules")
  /\ \/ /\ dst' = dst \ {ip} /\ src' = [src EXCEPT ![ip] = <<>>]
        /\ Goto("release") /\ Sound /\ UNCHANGED sb
     \/ UNCHANGED ruleVars /\ DelFails /\ Fault("netlink")
     \/ /\ dst' = dst \ {ip} /\ DelFails /\ Fault("netlink")
        /\ \E left \in Suffixes(src[ip]) : src' = [src EXCEPT ![ip] = left]
  /\ UNCHANGED <<external, rec, own, linkVars, uniVars, natVars, risky>>

releasePodIp ==
  /\ At("DEL", "release")
  /\ \/ /\ own' = [r \in Sandbox |-> IF own[r] = proc.ip THEN None ELSE own[r]]
        /\ Goto("record") /\ Sound /\ UNCHANGED sb
     \/ DelFails /\ Fault("release") /\ UNCHANGED own
  /\ UNCHANGED <<external, rec, linkVars, ruleVars, uniVars, natVars, risky>>

delPodNetworkRecord ==
  /\ At("DEL", "record")
  /\ \/ rec' = [rec EXCEPT ![proc.sb] = None] /\ Sound
     \/ Fault("db") /\ UNCHANGED rec
  /\ Goto("portmap")
  /\ UNCHANGED <<external, sb, own, linkVars, ruleVars, uniVars, natVars, risky>>

(* A family of iptables that does not answer is left out, and only if      *)
(* neither does is there an error.  No pod has an address of IPv6.         *)
maybeGetIptables == DelFails \/ (Goto("iface") /\ UNCHANGED sb)

(* What is left to do is the teardown of the sandbox's chain.              *)
unforwardPorts_Skipped == Sound /\ Goto("iface") /\ UNCHANGED sb
unforwardPorts ==
  \/ Sound /\ Goto("clear") /\ UNCHANGED sb
  \/ Fault("iptables") /\ maybeGetIptables

portmapCmdDel ==
  /\ At("DEL", "portmap")
  /\ IF PortMaps[ThisPod] = <<>> THEN Sound /\ Goto("iface") /\ UNCHANGED sb
     ELSE unforwardPorts
  /\ UNCHANGED <<external, rec, own, linkVars, ruleVars, uniVars, natVars, risky>>

ClearChain ==
  /\ At("DEL", "clear")
  /\ \/ /\ chains' = chains \cup {proc.sb} /\ nat' = [nat EXCEPT ![proc.sb] = <<>>]
        /\ Sound /\ Goto("unlink") /\ UNCHANGED sb
     \/ Fault("iptables") /\ DelFails /\ UNCHANGED natVars
  /\ UNCHANGED <<external, rec, own, linkVars, ruleVars, uniVars, risky>>

Entries(s) == {r \in ToSet(nat["TOP"]) : r.to = s}
WithoutFirst_Oldest(s) == Tail(nat["TOP"])
WithoutFirst(s) == RemoveFirstMatch(nat["TOP"], LAMBDA r : r.to = s)

(* The rules that jump to the chain are deleted one by one; a list that    *)
(* fails is taken to be empty.                                             *)
DeleteEntries ==
  /\ At("DEL", "unlink")
  /\ \/ /\ Entries(proc.sb) # {}
        /\ nat' = [nat EXCEPT !["TOP"] = WithoutFirst(proc.sb)]
        /\ Sound /\ UNCHANGED <<proc, sb>>
     \/ Entries(proc.sb) = {} /\ Goto("chain") /\ Sound /\ UNCHANGED <<nat, sb>>
     \/ Fault("iptables") /\ (DelFails \/ (Goto("chain") /\ UNCHANGED sb)) /\ UNCHANGED nat
  /\ UNCHANGED <<external, rec, own, linkVars, ruleVars, uniVars, chains, risky>>

(* A chain that is jumped to cannot be deleted.                            *)
DeleteChain ==
  /\ At("DEL", "chain")
  /\ \/ /\ Entries(proc.sb) = {}
        /\ chains' = chains \ {proc.sb}
        /\ (Sound /\ Goto("iface") /\ UNCHANGED sb) \/ (Fault("iptables") /\ DelFails)
     \/ Entries(proc.sb) # {} /\ DelFails /\ Sound /\ UNCHANGED chains
     \/ Fault("iptables") /\ DelFails /\ UNCHANGED chains
  /\ UNCHANGED <<external, rec, own, linkVars, ruleVars, uniVars, nat, risky>>

(* The interface inside the sandbox takes the host's end with it.          *)
DropLinks(s) ==
  IF veth[PodOf[s]] = s THEN LinkDel(PodOf[s])
  ELSE net' = [net EXCEPT ![s] = None] /\ UNCHANGED <<veth, route>>

DelInterface ==
  /\ At("DEL", "iface")
  /\ \/ DropLinks(proc.sb) /\ DelOK /\ Sound
     \/ DelFails /\ Fault("host") /\ UNCHANGED linkVars
  /\ UNCHANGED <<external, rec, own, ruleVars, uniVars, natVars, risky>>

-----------------------------------------------------------------------------
(* The rest of the node.                                                   *)

Kill ==
  /\ proc # NoProc /\ Fault("kill")
  /\ IF proc.op = "ADD" THEN AddFails ELSE DelFails
  /\ UNCHANGED <<external, rec, own, linkVars, ruleVars, uniVars, natVars, risky>>

(* ipamd finds that the pod of a record is gone and deletes the record,    *)
(* whatever the plugin still has to do with it.                            *)
ReconcileDelete(s) ==
  /\ rec[s] # None /\ sb[s] \in {"running", "deleting"} /\ Fault("gc")
  /\ sb' = [sb EXCEPT ![s] = "deleting"]
  /\ rec' = [rec EXCEPT ![s] = None]
  /\ UNCHANGED <<external, own, linkVars, ruleVars, uniVars, natVars, proc, risky>>

(* The runtime removes the network namespace after a DEL that succeeded.   *)
RemoveNetns(s) ==
  /\ sb[s] = "stopped" /\ DropLinks(s)
  /\ sb' = [sb EXCEPT ![s] = "gone"]
  /\ UNCHANGED <<external, rec, own, ruleVars, uniVars, natVars, proc, history>>

(* The kernel forgets everything, the records are on disk.  kubelet then   *)
(* tears down the sandboxes it knew.                                       *)
Reboot ==
  /\ Fault("reboot")
  /\ sb' = [s \in Sandbox |-> IF sb[s] \in Live THEN "deleting" ELSE sb[s]]
  /\ net' = [s \in Sandbox |-> None] /\ veth' = [p \in Pod |-> None]
  /\ route' = [a \in Addr |-> None]
  /\ dst' = {} /\ src' = [a \in Addr \cup Uni |-> <<>>]
  /\ uni' = [u \in Uni |-> {}] /\ shared' = {}
  /\ chains' = Builtin /\ nat' = [c \in Chain |-> <<>>]
  /\ proc' = NoProc
  /\ UNCHANGED <<external, rec, own, risky>>

KubeProxyStarts ==
  /\ "KUBE-MARK-MASQ" \notin chains
  /\ chains' = chains \cup {"KUBE-MARK-MASQ"}
  /\ UNCHANGED <<external, kubeVars, linkVars, ruleVars, uniVars, nat, proc, history>>

AddStep ==
  \/ ensureUNIPrimaryIPRoute \/ UniStep \/ initPodNetworking
  \/ assignFails \/ \E ip \in Addr : assignPodIp(ip)
  \/ checkAndCleanOldVeth \/ setupVethPair \/ addRouteRuleForPodIp
  \/ ensureDstIPRoutePolicy \/ PodSrcRule \/ setNodePortRange
  \/ rollbackReleaseIP \/ addPodNetworkRecord \/ portmapCmdAdd
DelStep ==
  \/ getPodNetworkRecord \/ cleanUpIPRoutePolicy \/ releasePodIp \/ delPodNetworkRecord
  \/ portmapCmdDel \/ ClearChain \/ DeleteEntries \/ DeleteChain \/ DelInterface

Next ==
  \/ AddStep \/ DelStep
  \/ Kill \/ Reboot \/ KubeProxyStarts
  \/ \E s \in Sandbox : StartAdd(s) \/ StartDel(s) \/ ReconcileDelete(s) \/ RemoveNetns(s)

Spec == Init /\ [][Next]_vars

-----------------------------------------------------------------------------
(* Properties.                                                             *)

(* A chain has all of its rules and its entry chains all of its entries.   *)
check(c) ==
  /\ c.name \in chains
  /\ ToSet(c.rules) \subseteq ToSet(nat[c.name])
  /\ \A i \in DOMAIN c.entryChains, j \in DOMAIN c.entryRules :
       Contains(nat[c.entryChains[i]], Jump(c.entryRules[j], c.name))

(* A chain that is missing passes.                                         *)
checkPorts(s, ip) == s \in chains => check(fillDnatRules(s, ip))

portmapCmdCheck(s) == PortMaps[PodOf[s]] # <<>> => checkPorts(s, net[s])

(* The places where a packet to port t is rewritten, in the order in which *)
(* the kernel comes to them: a rule of TOP and one of the chain it enters. *)
Rewrites(t) ==
  {w \in UNION {{i} \X DOMAIN nat[nat["TOP"][i].to] : i \in DOMAIN nat["TOP"]} :
     LET rule == nat[nat["TOP"][w[1]].to][w[2]] IN
     t \in nat["TOP"][w[1]].on /\ t \in rule.on /\ rule.to \in Addr}

First(t) == CHOOSE w \in Rewrites(t) :
              \A v \in Rewrites(t) : w[1] < v[1] \/ (w[1] = v[1] /\ w[2] <= v[2])

Receiver(t) == IF Rewrites(t) = {} THEN None ELSE nat["TOP"][First(t)[1]].to

(* Packets that must come back through the host are marked before place j  *)
(* of the chain of s, and packets so marked are masqueraded.               *)
MarkedBefore(s, j, t) ==
  /\ \A from \in {nat[s][j].to, "localhost"} : \E i \in 1 .. j - 1 :
       t \in nat[s][i].on /\ nat[s][i].from = from /\ nat[s][i].to = SetMarkChainName
  /\ external \/ (/\ Contains(nat["SETMARK"], Jump(Port, "MARK"))
                  /\ Contains(nat["MASQ"], Jump(Port, "MASQUERADE"))
                  /\ Contains(nat["POSTROUTING"], Jump(Port, "MASQ")))

Hooked == \A c \in {"PREROUTING", "OUTPUT"} : Contains(nat[c], Jump(Port, "TOP"))

(* Sandboxes whose teardown is over but whose forwarding is still there.   *)
Leftover == {s \in Sandbox : sb[s] \in {"stopped", "gone"} /\ (s \in chains \/ Entries(s) # {})}

(* From the end of its ADD to the start of its DEL every host port of a    *)
(* sandbox leads to it, marks and all, or to another sandbox with that     *)
(* port, which is alive or was not cleaned up; and the check that the code *)
(* has for its chains, which nothing calls, would succeed.                 *)
Delivers ==
  \A s \in Sandbox : sb[s] = "running" => portmapCmdCheck(s) /\
    \A e \in ToSet(PortMaps[PodOf[s]]) :
      LET t == <<e.proto, e.port>>
          r == Receiver(t)
      IN /\ s \in chains
         /\ e.host # "v6" =>
              /\ Hooked
              /\ r = s => nat[s][First(t)[2]].to = net[s] /\ MarkedBefore(s, First(t)[2], t)
              /\ r # s => r # None /\ (sb[r] \in Live \/ r \in Leftover)

(* A host port passes from a running sandbox to no one but a sandbox whose *)
(* own ADD claims it: no DEL, of a claimant or not, no ADD that is rolled  *)
(* back, and no ADD for other ports takes it away or leads it elsewhere.   *)
(* Which of two claimants wins is left open: the package comment wants the *)
(* last one (portmap/cmd.go:24), the code appends and so keeps the first.  *)
Claimant == {s \in Sandbox : proc.op = "ADD" /\ proc.sb = s}
NoCapture ==
  [][\A s \in Sandbox, t \in Port :
       (Receiver(t) = s /\ sb[s] = "running" /\ sb'[s] = "running") =>
         Receiver(t)' \in {s} \cup Claimant]_vars

(* A secondary interface with a default route is ready for use: ADD skips  *)
(* the rest when it sees the route, so a process that dies half way must   *)
(* not have set it.                                                        *)
UniReady ==
  \A u \in Uni \ risky : "default" \in uni[u] => uni[u] = UniSetting \ {"stray"}

(* The packets of a running pod take the right way: those to it through    *)
(* the main table to its own interface, those from it through the table of *)
(* its secondary interface, or no special table on the master interface.   *)
(* No more addresses than there were faults are exempt.                    *)
PodRouted ==
  /\ Cardinality(risky) <= faults
  /\ \A s \in Sandbox :
       LET p == PodOf[s]
           ip == net[s]
           u == NicOf[s]
       IN (sb[s] = "running" /\ ip \notin risky) =>
            /\ veth[p] = s /\ route[ip] = p /\ ip \in dst
            /\ IF u = Master THEN src[ip] = <<>>
               ELSE /\ src[ip] # <<>> /\ Head(src[ip]) = u
                    /\ src[u] = <<u>> /\ "default" \in uni[u]
                    /\ shared = {"rp_filter", "connmark"}

(* What a sandbox leaves behind when it is torn down: forwarding rules     *)
(* only where DEL failed or died after it had deleted the record, was told *)
(* of no record, or ipamd was faster; ip rules one per failure at most.    *)
LeftoverBound ==
  /\ Cardinality(Leftover) <= lost
  /\ Cardinality({ip \in Addr : (ip \in dst \/ src[ip] # <<>>) /\
                    ~\E s \in Sandbox : own[s] = ip /\ sb[s] \in Live}) <= faults
=============================================================================
