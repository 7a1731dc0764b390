--------------------------- MODULE HostNetProofs ---------------------------
(***************************************************************************)
(* The routing of HostNet, for every set of pods, sandboxes, interfaces    *)
(* and addresses, every list of port mappings and every number of faults.  *)
(*                                                                         *)
(* What a running pod needs was put in place by an ADD many commands       *)
(* earlier, so the invariant follows an ADD command by command (UniInv,    *)
(* AddUni, AddLink, AddRule).  That no other pod takes it away depends on  *)
(* who may still refer to an address when it is given out (Alone), and     *)
(* that only as many addresses as there were faults are exempt on which    *)
(* ones a failure has left behind (Exposed).  The addresses that keep ip   *)
(* rules no DEL will remove are counted in the same way (Charged).         *)
(***************************************************************************)
EXTENDS HostNet, FiniteSetTheorems, SequenceTheorems, TLAPS

UniPc == {"primary", "uni", "rp_filter", "connmark", "assign"}
PodPc == {"veth", "pair", "route", "dst", "src", "range", "rollback", "record", "portmap"}
DelPc == {"get", "rules", "release", "record", "portmap", "clear", "unlink", "chain", "iface"}

ProcShape ==
  /\ proc = [op |-> proc.op, sb |-> proc.sb, pc |-> proc.pc, k |-> proc.k, ip |-> proc.ip,
             nic |-> proc.nic]
  /\ proc.op \in {"none", "ADD", "DEL"}
  /\ proc.op = "none" => proc = NoProc
  /\ proc.op = "ADD" =>
       /\ proc.pc \in UniPc \cup PodPc /\ proc.sb \in Sandbox /\ sb[proc.sb] = "adding"
       /\ proc.pc \in UniPc => proc.nic = NicOf[proc.sb] /\ proc.ip = None
       /\ proc.pc \in (UniPc \ {"assign"}) \cup {"src"} => proc.nic \in Uni
       /\ proc.pc = "uni" => proc.k \in 1..7
       /\ proc.pc \in PodPc => proc.ip \in Addr /\ own[proc.sb] = proc.ip
       /\ proc.nic = NicOf[proc.sb] \/ (proc.nic = Master /\ proc.ip \in risky)
  /\ proc.op = "DEL" =>
       /\ proc.pc \in DelPc /\ proc.sb \in Sandbox /\ sb[proc.sb] = "deleting"
       /\ proc.pc \in {"rules", "release", "record"} => proc.ip \in Addr

SbShape ==
  /\ sb \in [Sandbox -> {"none", "stopped", "gone"} \cup Live]
  /\ \A s \in Sandbox : sb[s] = "adding" => proc.op = "ADD" /\ proc.sb = s
  /\ \A r, s \in Sandbox : PodOf[r] = PodOf[s] /\ sb[r] \in {"adding", "running"}
                             /\ sb[s] \in {"adding", "running"} => r = s

BookShape == rec \in [Sandbox -> Addr \cup {None}] /\ own \in [Sandbox -> Addr \cup {None}]

LinkShape ==
  /\ net \in [Sandbox -> Addr \cup {None}]
  /\ veth \in [Pod -> Sandbox \cup {None}]
  /\ route \in [Addr -> Pod \cup {None}]

RuleShape ==
  /\ dst \in SUBSET Addr
  /\ src = [a \in Addr \cup Uni |-> src[a]]
  /\ \A a \in Addr : src[a] \in Seq(Uni)
  /\ \A u \in Uni : src[u] \in {<<>>, <<u>>}

UniShape ==
  /\ uni \in [Uni -> SUBSET UniSetting]
  /\ shared \in SUBSET {"rp_filter", "connmark"}

HistoryShape ==
  /\ faults \in Nat
  /\ risky \in SUBSET (Addr \cup Uni) /\ IsFiniteSet(risky)

Shape == ProcShape /\ SbShape /\ BookShape /\ LinkShape /\ RuleShape /\ UniShape /\ HistoryShape

(* The settings of an interface that the steps before step k have made.    *)
Before(k) == {UniSteps[i] : i \in 1 .. k - 1} \ {"flush"}
UniInv ==
  At("ADD", "uni") =>
    /\ "default" \notin uni[proc.nic]
    /\ Before(proc.k) \subseteq uni[proc.nic]
    /\ proc.k > 4 /\ proc.nic \notin risky => "stray" \notin uni[proc.nic]

(* An interface that ADD has been through can be used.                     *)
UniDone(u) ==
  src[u] = <<u>> /\ "default" \in uni[u] /\ shared = {"rp_filter", "connmark"}

(* A host interface is that of a sandbox of the pod, and a route leads to  *)
(* the sandbox that has the address.                                       *)
VethInv == \A p \in Pod : veth[p] # None => PodOf[veth[p]] = p
RouteInv == \A a \in Addr : route[a] # None => veth[route[a]] # None /\ net[veth[route[a]]] = a

(* An address is given to one sandbox; unless it is risky no other sandbox *)
(* has a trace of it, and no DEL of another one is about to release it.    *)
OwnOne == \A r, s \in Sandbox : own[r] # None /\ own[r] = own[s] => r = s
OwnAlone ==
  \A r, s \in Sandbox : own[s] # None /\ own[s] \notin risky /\ r # s =>
    net[r] # own[s] /\ rec[r] # own[s]
DelAlone ==
  (At("DEL", "rules") \/ At("DEL", "release")) /\ proc.ip \notin risky =>
    \A r \in Sandbox \ {proc.sb} : own[r] # proc.ip
Alone == OwnOne /\ OwnAlone /\ DelAlone

(* What the commands of an ADD so far have achieved: for its interface,    *)
(* its own links and route, and the rules of its address.                  *)
Past(S) == proc.op = "ADD" /\ proc.pc \in S
RoutedPc == {"dst", "src", "range", "record", "portmap"}
AddUni ==
  proc.nic # Master =>
    /\ Past((UniPc \cup PodPc) \ {"primary"}) => src[proc.nic] = <<proc.nic>>
    /\ Past({"rp_filter", "connmark", "assign"} \cup PodPc) => "default" \in uni[proc.nic]
    /\ Past({"connmark", "assign"} \cup PodPc) => "rp_filter" \in shared
    /\ Past({"assign"} \cup PodPc) => "connmark" \in shared
AddLink ==
  /\ Past({"pair"}) => veth[ThisPod] = None
  /\ Past({"route"} \cup RoutedPc) => veth[ThisPod] = proc.sb /\ net[proc.sb] = proc.ip
  /\ Past(RoutedPc) /\ proc.ip \notin risky => route[proc.ip] = ThisPod
AddRule ==
  /\ Past(RoutedPc \ {"dst"}) => proc.ip \in dst
  /\ proc.ip \notin risky =>
       /\ Past(PodPc) /\ proc.nic = Master => src[proc.ip] = <<>>
       /\ Past(RoutedPc \ {"dst", "src"}) /\ proc.nic # Master =>
            src[proc.ip] # <<>> /\ Head(src[proc.ip]) = proc.nic

(* ... and what is left of it while the pod runs.                          *)
Routed(s) ==
  LET ip == net[s]
      u == NicOf[s]
  IN /\ own[s] = ip /\ route[ip] = PodOf[s] /\ ip \in dst
     /\ IF u = Master THEN src[ip] = <<>>
        ELSE src[ip] # <<>> /\ Head(src[ip]) = u /\ UniDone(u)
RunInv ==
  \A s \in Sandbox : sb[s] = "running" =>
    /\ veth[PodOf[s]] = s /\ net[s] # None
    /\ net[s] \notin risky => Routed(s)

(* The addresses whose next owner may meet what a failure left behind: a   *)
(* sandbox that no longer owns the address still has it, unless the DEL in *)
(* progress is about to remove it, or a rule without an owner leads from   *)
(* it.  The address of an ADD that rolls back will be one of them.         *)
Exempt(r, a) ==
  /\ proc.op = "DEL" /\ proc.sb = r /\ proc.ip = a
  /\ \/ proc.pc = "record"
     \/ proc.pc \in {"portmap", "clear", "unlink", "iface"} /\ rec[r] # a
     \/ proc.pc = "chain" /\ rec[r] # a /\ Entries(r) = {}
Stray(r, a) == own[r] # a /\ a \in {net[r], rec[r]} /\ ~Exempt(r, a)
Unowned(a) == src[a] # <<>> /\ \A r \in Sandbox : own[r] # a
Exposed ==
  {a \in Addr : \/ \E r \in Sandbox : Stray(r, a)
                \/ Unowned(a)
                \/ At("ADD", "rollback") /\ proc.ip = a}
ReleaseInv == At("DEL", "release") => src[proc.ip] = <<>>
FreshInv ==
  \A s \in Sandbox : own[s] # None => sb[s] # "none" /\ ~(Past(UniPc) /\ proc.sb = s)
BudgetInv == Cardinality(risky \cup Exposed) <= faults

IInv ==
  /\ Shape /\ UniReady /\ UniInv /\ VethInv /\ RouteInv /\ Alone
  /\ AddUni /\ AddLink /\ AddRule /\ RunInv /\ ReleaseInv /\ FreshInv /\ BudgetInv

----------------------------------------------------------------------------
(* Operators.                                                              *)

LEMMA Consts ==
  /\ PodOf \in [Sandbox -> Pod] /\ NicOf \in [Sandbox -> Uni \cup {Master}]
  /\ IsFiniteSet(Addr)
  /\ Master \notin Uni /\ None \notin Addr /\ None \notin Pod /\ None \notin Sandbox
  /\ Addr \cap Uni = {}
<1>1. /\ PodOf \in [Sandbox -> Pod] /\ NicOf \in [Sandbox -> Uni \cup {Master}]
      /\ IsFiniteSet(Addr) /\ Master \notin Uni
      /\ None \notin Addr \cup Pod \cup Sandbox /\ Addr \cap Uni = {}
  BY HostAssumption
<1> QED BY <1>1

LEMMA GotoFacts ==
  ASSUME ProcShape, NEW pc, Goto(pc)
  PROVE  /\ proc' = [op |-> proc.op, sb |-> proc.sb, pc |-> pc, k |-> 1, ip |-> proc.ip,
                     nic |-> proc.nic]
         /\ proc'.op = proc.op /\ proc'.sb = proc.sb /\ proc'.pc = pc /\ proc'.k = 1
         /\ proc'.ip = proc.ip /\ proc'.nic = proc.nic
BY DEF ProcShape, Goto

LEMMA AgainFacts ==
  ASSUME ProcShape, Again
  PROVE  /\ proc' = [op |-> proc.op, sb |-> proc.sb, pc |-> proc.pc, k |-> proc.k + 1,
                     ip |-> proc.ip, nic |-> proc.nic]
         /\ proc'.op = proc.op /\ proc'.sb = proc.sb /\ proc'.pc = proc.pc /\ proc'.k = proc.k + 1
         /\ proc'.ip = proc.ip /\ proc'.nic = proc.nic
BY DEF ProcShape, Again

LEMMA NoProcFacts ==
  /\ NoProc.op = "none" /\ NoProc.pc = "idle" /\ NoProc.sb = None /\ NoProc.ip = None
  /\ NoProc.nic = Master /\ NoProc.k = 1
BY DEF NoProc

LEMMA SubSeqFacts ==
  ASSUME NEW s \in Seq(Uni), NEW i \in 1..Len(s)
  PROVE  /\ SubSeq(s, i, Len(s)) \in Seq(Uni)
         /\ SubSeq(s, i, Len(s)) # <<>>
         /\ Head(SubSeq(s, i, Len(s))) = s[i]
<1> DEFINE t == SubSeq(s, i, Len(s))
<1>1. /\ t \in Seq(Uni) /\ Len(t) = Len(s) - i + 1
      /\ \A j \in 1 .. Len(s) - i + 1 : t[j] = s[i + j - 1]
  <2>1. i \in Int /\ Len(s) \in Int /\ \A j \in i .. Len(s) : s[j] \in Uni
    OBVIOUS
  <2> QED BY <2>1, SubSeqProperties
<1> HIDE DEF t
<1>2. t[1] = s[i] /\ t # <<>>
  BY <1>1
<1>3. Head(t) = t[1]
  BY <1>1, <1>2
<1> QED BY <1>1, <1>2, <1>3 DEF t

(* The scan ends at a rule to the right table.                             *)
LEMMA ScannedFacts ==
  ASSUME NEW a, NEW u \in Uni, src[a] \in Seq(Uni)
  PROVE  /\ Scanned(a, u) \in Seq(Uni)
         /\ Scanned(a, u) # <<>>
         /\ Head(Scanned(a, u)) = u
<1>1. CASE ~Contains(src[a], u)
  BY <1>1 DEF Scanned
<1>2. CASE Contains(src[a], u)
  <2> DEFINE I == {i \in 1..Len(src[a]) : src[a][i] = u}
             m == SelectInSeq(src[a], LAMBDA t : t = u)
  <2>1. PICK i \in I : TRUE
    BY <1>2 DEF Contains
  <2>2. I \subseteq Nat
    OBVIOUS
  <2>3. PICK j \in I : \A y \in I : ~(<<y, j>> \in OpToRel(<, Nat))
    <3>1. IsWellFoundedOn(OpToRel(<, Nat), Nat)
      BY NatLessThanWellFounded
    <3> HIDE DEF I
    <3> QED BY <2>1, <2>2, <3>1, WFMin
  <2>4. \A y \in I : j <= y
    <3>1. OpToRel(<, Nat) = {ss \in Nat \X Nat : ss[1] < ss[2]}
      BY Zenon DEF OpToRel
    <3>2. \A y \in I : ~(y < j)
      BY <2>2, <2>3, <3>1
    <3> QED BY <2>2, <3>2
  <2>5. Min(I) \in I
    <3> HIDE DEF I
    <3> QED BY <2>3, <2>4 DEF Min
  <2>6. m \in I
    BY <2>1, <2>5 DEF SelectInSeq
  <2>7. Scanned(a, u) = SubSeq(src[a], m, Len(src[a]))
    BY <1>2 DEF Scanned
  <2> HIDE DEF m
  <2> QED BY <2>6, <2>7, SubSeqFacts
<1> QED BY <1>1, <1>2

(* On the rules of an interface itself it finds what it is looking for.    *)
LEMMA ScannedOwn ==
  ASSUME NEW u \in Uni, src[u] \in {<<>>, <<u>>}
  PROVE  Scanned(u, u) = <<u>> /\ (Contains(src[u], u) <=> src[u] = <<u>>)
<1>1. CASE src[u] = <<>>
  BY <1>1 DEF Scanned, Contains
<1>2. CASE src[u] = <<u>>
  <2> DEFINE I == {i \in 1..Len(src[u]) : src[u][i] = u}
  <2>1. I = {1}
    BY <1>2
  <2>2. Min(I) = 1
    BY <2>1 DEF Min
  <2>3. SelectInSeq(src[u], LAMBDA t : t = u) = 1
    BY <2>1, <2>2 DEF SelectInSeq
  <2>4. Contains(src[u], u)
    BY <1>2 DEF Contains
  <2>5. SubSeq(<<u>>, 1, 1) = <<u>>
    <3>1. PICK t : t = SubSeq(<<u>>, 1, 1)
      OBVIOUS
    <3>2. t \in Seq(Uni) /\ Len(t) = 1 /\ t[1] = u
      BY <3>1, SubSeqProperties, \A i \in 1..1 : <<u>>[i] \in Uni
    <3>3. <<u>> \in Seq(Uni) /\ Len(<<u>>) = 1 /\ <<u>>[1] = u
      OBVIOUS
    <3>4. PICK v : v = <<u>>
      OBVIOUS
    <3>5. \A i \in 1..Len(t) : t[i] = v[i]
      BY <3>2, <3>3, <3>4
    <3>6. t = v
      BY <3>2, <3>3, <3>4, <3>5, SeqEqual
    <3> QED BY <3>1, <3>4, <3>6
  <2> QED BY <1>2, <2>3, <2>4, <2>5 DEF Scanned
<1> QED BY <1>1, <1>2

----------------------------------------------------------------------------
(* What each step does to the part of the state that routing depends on.   *)

LEMMA FaultFacts ==
  ASSUME NEW k, Fault(k)
  PROVE  faults' = faults + 1
BY DEF Fault

LEMMA StartAddFacts ==
  ASSUME NEW s \in Sandbox, StartAdd(s)
  PROVE  /\ proc = NoProc /\ sb[s] = "none"
         /\ \A r \in Sandbox : PodOf[r] = PodOf[s] => sb[r] \notin {"adding", "running"}
         /\ sb' = [sb EXCEPT ![s] = "adding"]
         /\ proc' = [op |-> "ADD", sb |-> s, pc |-> IF NicOf[s] = Master THEN "assign" ELSE "primary",
                     k |-> 1, ip |-> None, nic |-> NicOf[s]]
         /\ UNCHANGED <<rec, own, net, veth, route, dst, src, uni, shared, nat, faults, risky>>
BY DEF StartAdd, NoProc, linkVars, ruleVars, uniVars, natVars, history

LEMMA PrimaryFacts ==
  ASSUME Shape, ensureUNIPrimaryIPRoute
  PROVE  /\ At("ADD", "primary") /\ proc.nic \in Uni
         /\ \/ /\ src' = [src EXCEPT ![proc.nic] = <<proc.nic>>]
               /\ \/ "default" \in uni[proc.nic] /\ Goto("rp_filter")
                  \/ "default" \notin uni[proc.nic] /\ Goto("uni")
               /\ sb' = sb /\ faults' = faults
            \/ /\ src' \in {src, [src EXCEPT ![proc.nic] = <<proc.nic>>]}
               /\ AddFails /\ faults' = faults + 1
         /\ UNCHANGED <<rec, own, net, veth, route, dst, uni, shared, nat, risky>>
<1> DEFINE u == proc.nic
<1>1. At("ADD", "primary") /\ u \in Uni /\ src[u] \in {<<>>, <<u>>}
  BY DEF Shape, ProcShape, RuleShape, ensureUNIPrimaryIPRoute, At, UniPc
<1>2. Scanned(u, u) = <<u>> /\ (Contains(src[u], u) <=> src[u] = <<u>>)
  BY <1>1, ScannedOwn
<1>3. UNCHANGED <<rec, own, net, veth, route, dst, uni, shared, nat>>
  BY DEF ensureUNIPrimaryIPRoute, linkVars, uniVars, natVars
<1>4. ASSUME ensureSrcIPRoutePolicy(u, u)
      PROVE  src' = [src EXCEPT ![u] = <<u>>] /\ faults' = faults /\ risky' = risky
  <2>1. src[u] = <<>> \/ Head(src[u]) = u
    BY <1>1
  <2> QED BY <1>2, <1>4, <2>1 DEF ensureSrcIPRoutePolicy, Sound
<1>5. ASSUME SrcFails(u, u)
      PROVE  src' = src /\ faults' = faults + 1 /\ risky' = risky
  <2>1. PICK left \in {src[u], IF Contains(src[u], u) THEN Scanned(u, u) ELSE <<>>} :
          src' = [src EXCEPT ![u] = left]
    BY <1>5 DEF SrcFails
  <2>2. left = src[u]
    BY <1>1, <1>2
  <2>3. src = [a \in Addr \cup Uni |-> src[a]]
    BY DEF Shape, RuleShape
  <2>4. src' = src
    BY <2>1, <2>2, <2>3
  <2> QED BY <1>5, <2>4, FaultFacts DEF SrcFails
<1> HIDE DEF u
<1>6. \/ /\ ensureSrcIPRoutePolicy(u, u)
         /\ Goto(IF "default" \in uni[u] THEN "rp_filter" ELSE "uni") /\ sb' = sb
      \/ SrcFails(u, u) /\ AddFails
      \/ RouteListFails(u) /\ AddFails
  BY DEF ensureUNIPrimaryIPRoute, u
<1>7. CASE SrcFails(u, u) /\ AddFails
  BY <1>1, <1>3, <1>5, <1>7 DEF u
<1>8. CASE /\ ensureSrcIPRoutePolicy(u, u)
           /\ Goto(IF "default" \in uni[u] THEN "rp_filter" ELSE "uni") /\ sb' = sb
  BY <1>1, <1>3, <1>4, <1>8 DEF u
<1>9. CASE RouteListFails(u) /\ AddFails
  <2>1. src' = [src EXCEPT ![u] = <<u>>] /\ faults' = faults + 1 /\ risky' = risky
    BY <1>2, <1>9, FaultFacts DEF RouteListFails
  <2> QED BY <1>1, <1>3, <1>9, <2>1 DEF u
<1> QED BY <1>6, <1>7, <1>8, <1>9

LEMMA UniStepFacts ==
  ASSUME Shape, UniStep
  PROVE  /\ At("ADD", "uni") /\ proc.nic \in Uni /\ proc.k \in 1..7
         /\ \/ /\ uni' = [uni EXCEPT ![proc.nic] =
                            (IF proc.k = 4 THEN @ \ {"stray"} ELSE @) \cup UniEffect(UniSteps[proc.k])]
               /\ (proc.k = 7 /\ Goto("rp_filter")) \/ (proc.k < 7 /\ Again)
               /\ sb' = sb /\ faults' = faults /\ risky' = risky
            \/ /\ proc.k = 4 /\ risky' = risky \cup {proc.nic} /\ Again
               /\ UNCHANGED <<sb, uni>> /\ faults' = faults + 1
            \/ AddFails /\ UNCHANGED <<uni, risky>> /\ faults' = faults + 1
         /\ UNCHANGED <<rec, own, net, veth, route, dst, src, shared, nat>>
<1>1. At("ADD", "uni") /\ proc.nic \in Uni /\ proc.k \in 1..7
  BY DEF Shape, ProcShape, UniStep, At, UniPc
<1>2. Len(UniSteps) = 7 /\ (UniSteps[proc.k] = "flush" <=> proc.k = 4)
  BY <1>1 DEF UniSteps
<1>3. UNCHANGED <<rec, own, net, veth, route, dst, src, shared, nat>>
  BY DEF UniStep, linkVars, ruleVars, natVars
<1> QED BY <1>1, <1>2, <1>3, FaultFacts DEF UniStep, Sound

LEMMA NetworkingFacts ==
  ASSUME initPodNetworking
  PROVE  /\ \/ At("ADD", "rp_filter") /\ shared' = shared \cup {"rp_filter"} /\ Goto("connmark")
               /\ sb' = sb /\ faults' = faults
            \/ At("ADD", "connmark") /\ shared' = shared \cup {"connmark"} /\ Goto("assign")
               /\ sb' = sb /\ faults' = faults
            \/ (At("ADD", "rp_filter") \/ At("ADD", "connmark"))
               /\ AddFails /\ shared' = shared /\ faults' = faults + 1
         /\ UNCHANGED <<rec, own, net, veth, route, dst, src, uni, nat, risky>>
BY FaultFacts DEF initPodNetworking, ensureMasterInterfaceRpFilter, ensureConnmarkRule, Sound,
     linkVars, ruleVars, natVars

LEMMA AssignFacts ==
  ASSUME Shape, NEW ip \in Addr, assignPodIp(ip)
  PROVE  /\ At("ADD", "assign") /\ (\A r \in Sandbox : own[r] # ip)
         /\ own' = [own EXCEPT ![proc.sb] = ip]
         /\ \E nic \in {proc.nic, Master} :
              /\ proc' = [op |-> "ADD", sb |-> proc.sb, pc |-> "veth", k |-> proc.k, ip |-> ip, nic |-> nic]
              /\ \/ nic = proc.nic /\ faults' = faults
                 \/ nic # proc.nic /\ faults' = faults + 1
              /\ risky' = IF nic # proc.nic \/ Loose(ip) \/ (nic = Master /\ src[ip] # <<>>)
                          THEN risky \cup {ip} ELSE risky
         /\ UNCHANGED <<sb, rec, net, veth, route, dst, src, uni, shared, nat>>
<1>1. At("ADD", "assign") /\ (\A r \in Sandbox : own[r] # ip) /\ own' = [own EXCEPT ![proc.sb] = ip]
  BY DEF assignPodIp
<1>2. UNCHANGED <<sb, rec, net, veth, route, dst, src, uni, shared, nat>>
  BY DEF assignPodIp, linkVars, ruleVars, uniVars, natVars
<1>3. PICK nic \in {proc.nic, Master} :
       /\ proc' = [proc EXCEPT !.pc = "veth", !.ip = ip, !.nic = nic]
       /\ IF nic # proc.nic THEN Fault("link") ELSE Sound
       /\ risky' = IF nic # proc.nic \/ Loose(ip) \/ (nic = Master /\ src[ip] # <<>>)
                   THEN risky \cup {ip} ELSE risky
  BY DEF assignPodIp
<1>4. proc' = [op |-> "ADD", sb |-> proc.sb, pc |-> "veth", k |-> proc.k, ip |-> ip, nic |-> nic]
  BY <1>1, <1>3 DEF Shape, ProcShape, At
<1>5. (nic = proc.nic /\ faults' = faults) \/ (nic # proc.nic /\ faults' = faults + 1)
  BY <1>3, FaultFacts DEF Sound
<1> QED BY <1>1, <1>2, <1>3, <1>4, <1>5

LEMMA AssignFailsFacts ==
  ASSUME assignFails
  PROVE  /\ At("ADD", "assign") /\ AddFails /\ faults' = faults + 1
         /\ UNCHANGED <<rec, own, net, veth, route, dst, src, uni, shared, nat, risky>>
BY FaultFacts DEF assignFails, linkVars, ruleVars, uniVars, natVars

LEMMA CleanFacts ==
  ASSUME checkAndCleanOldVeth
  PROVE  /\ At("ADD", "veth")
         /\ \/ LinkDel(ThisPod) /\ Goto("pair") /\ faults' = faults
            \/ Goto("rollback") /\ UNCHANGED <<net, veth, route>> /\ faults' = faults + 1
         /\ UNCHANGED <<sb, rec, own, dst, src, uni, shared, nat, risky>>
BY FaultFacts DEF checkAndCleanOldVeth, HostFails, Sound, kubeVars, linkVars, ruleVars, uniVars, natVars

LEMMA PairFacts ==
  ASSUME setupVethPair
  PROVE  /\ At("ADD", "pair")
         /\ \/ /\ veth' = [veth EXCEPT ![ThisPod] = proc.sb]
               /\ net' = [net EXCEPT ![proc.sb] = proc.ip]
               /\ Goto("route") /\ faults' = faults
            \/ Goto("rollback") /\ UNCHANGED <<veth, net>> /\ faults' = faults + 1
            \/ /\ Goto("rollback") /\ faults' = faults + 1
               /\ veth' = [veth EXCEPT ![ThisPod] = proc.sb]
               /\ net' = net \/ net' = [net EXCEPT ![proc.sb] = proc.ip]
         /\ UNCHANGED <<sb, rec, own, route, dst, src, uni, shared, nat, risky>>
BY FaultFacts DEF setupVethPair, HostFails, Sound, kubeVars, ruleVars, uniVars, natVars

LEMMA RouteFacts ==
  ASSUME addRouteRuleForPodIp
  PROVE  /\ At("ADD", "route")
         /\ \/ /\ \/ route[proc.ip] = None /\ route' = [route EXCEPT ![proc.ip] = ThisPod]
                  \/ route[proc.ip] # None /\ route' = route
               /\ Goto("dst") /\ faults' = faults
            \/ Goto("rollback") /\ route' = route /\ faults' = faults + 1
         /\ UNCHANGED <<sb, rec, own, net, veth, dst, src, uni, shared, nat, risky>>
BY FaultFacts DEF addRouteRuleForPodIp, HostFails, Sound, kubeVars, ruleVars, uniVars, natVars

LEMMA DstFacts ==
  ASSUME ensureDstIPRoutePolicy
  PROVE  /\ At("ADD", "dst")
         /\ \/ /\ dst' = dst \cup {proc.ip} /\ faults' = faults
               /\ \/ proc.nic = Master /\ Goto("range")
                  \/ proc.nic # Master /\ Goto("src")
            \/ Goto("rollback") /\ dst' = dst /\ faults' = faults + 1
         /\ UNCHANGED <<sb, rec, own, net, veth, route, src, uni, shared, nat, risky>>
BY FaultFacts DEF ensureDstIPRoutePolicy, HostFails, Sound, kubeVars, linkVars, uniVars, natVars

LEMMA SrcFacts ==
  ASSUME Shape, PodSrcRule
  PROVE  /\ At("ADD", "src") /\ proc.nic \in Uni /\ proc.ip \in Addr
         /\ \E t \in Seq(Uni) :
              /\ src' = [src EXCEPT ![proc.ip] = t]
              /\ \/ /\ t # <<>> /\ Head(t) = proc.nic
                    /\ Goto("range") /\ faults' = faults /\ risky' = risky
                 \/ Goto("range") /\ faults' = faults + 1 /\ risky' = risky \cup {proc.ip}
                 \/ Goto("rollback") /\ faults' = faults + 1 /\ risky' = risky
         /\ UNCHANGED <<sb, rec, own, net, veth, route, dst, uni, shared, nat>>
<1>1. At("ADD", "src") /\ proc.nic \in Uni /\ proc.ip \in Addr
  BY DEF Shape, ProcShape, PodSrcRule, At, UniPc, PodPc
<1>2. PICK a : a = proc.ip
  OBVIOUS
<1>3. PICK u : u = proc.nic
  OBVIOUS
<1>4. src[a] \in Seq(Uni)
  BY <1>1, <1>2 DEF Shape, RuleShape
<1>5. PICK w \in Seq(Uni) : w = Scanned(a, u) /\ w # <<>> /\ Head(w) = u
  BY <1>1, <1>3, <1>4, ScannedFacts
<1>6. UNCHANGED <<sb, rec, own, net, veth, route, dst, uni, shared, nat>>
  BY DEF PodSrcRule, kubeVars, linkVars, uniVars, natVars
<1>7. \/ ensureSrcIPRoutePolicy(a, u) /\ Goto("range")
      \/ SrcFails(a, u) /\ Goto("rollback")
  BY <1>2, <1>3 DEF PodSrcRule
<1>8. CASE Goto("range") /\ src' = [src EXCEPT ![a] = w] /\ Sound /\ risky' = risky
  BY <1>1, <1>2, <1>3, <1>5, <1>6, <1>8 DEF Sound
<1>9. CASE /\ Goto("range") /\ src[a] # <<>> /\ Fault("netlink")
           /\ src' = [src EXCEPT ![a] = <<Head(src[a])>> \o w] /\ risky' = risky \cup {a}
  <2>0. PICK h : h = Head(src[a])
    OBVIOUS
  <2>1. PICK t \in Seq(Uni) : t = <<Head(src[a])>> \o w
    <3>1. h \in Uni
      BY <1>4, <1>9, <2>0
    <3>2. <<h>> \o w \in Seq(Uni)
      BY <1>5, <3>1
    <3> QED BY <2>0, <3>2
  <2> QED BY <1>1, <1>2, <1>6, <1>9, <2>1, FaultFacts
<1>10. CASE SrcFails(a, u) /\ Goto("rollback")
  <2>1. PICK left \in {src[a], IF Contains(src[a], u) THEN w ELSE <<>>} : src' = [src EXCEPT ![a] = left]
    BY <1>5, <1>10 DEF SrcFails
  <2>2. left \in Seq(Uni)
    <3>1. <<>> \in Seq(Uni)
      OBVIOUS
    <3>2. left = src[a] \/ left = w \/ left = <<>>
      BY <2>1
    <3> QED BY <1>4, <1>5, <3>1, <3>2
  <2>3. faults' = faults + 1 /\ risky' = risky
    BY <1>10, FaultFacts DEF SrcFails
  <2> QED BY <1>1, <1>2, <1>6, <1>10, <2>1, <2>2, <2>3
<1> QED BY <1>5, <1>7, <1>8, <1>9, <1>10 DEF ensureSrcIPRoutePolicy

LEMMA RangeFacts ==
  ASSUME setNodePortRange
  PROVE  /\ At("ADD", "range")
         /\ (Goto("record") /\ faults' = faults) \/ (Goto("rollback") /\ faults' = faults + 1)
         /\ UNCHANGED <<sb, rec, own, net, veth, route, dst, src, uni, shared, nat, risky>>
BY FaultFacts DEF setNodePortRange, HostFails, Sound, kubeVars, linkVars, ruleVars, uniVars, natVars

LEMMA RollbackFacts ==
  ASSUME rollbackReleaseIP
  PROVE  /\ At("ADD", "rollback") /\ AddFails
         /\ \/ own' = [own EXCEPT ![proc.sb] = None] /\ faults' = faults
            \/ own' = own /\ faults' = faults + 1
         /\ UNCHANGED <<rec, net, veth, route, dst, src, uni, shared, nat, risky>>
BY FaultFacts DEF rollbackReleaseIP, Sound, linkVars, ruleVars, uniVars, natVars

LEMMA RecordFacts ==
  ASSUME addPodNetworkRecord
  PROVE  /\ At("ADD", "record")
         /\ \/ /\ rec' = [rec EXCEPT ![proc.sb] = proc.ip] /\ Goto("portmap") /\ sb' = sb
               /\ faults' = faults
            \/ AddFails /\ rec' = rec /\ faults' = faults + 1
         /\ UNCHANGED <<own, net, veth, route, dst, src, uni, shared, nat, risky>>
BY FaultFacts DEF addPodNetworkRecord, Sound, linkVars, ruleVars, uniVars, natVars

(* What the commands are does not matter here.                             *)
LEMMA PortFacts ==
  ASSUME portmapCmdAdd
  PROVE  /\ At("ADD", "portmap")
         /\ \/ AddOK /\ faults' = faults
            \/ Again /\ sb' = sb /\ faults' = faults
            \/ AddFails /\ faults' = faults
            \/ AddFails /\ faults' = faults + 1
         /\ UNCHANGED <<rec, own, net, veth, route, dst, src, uni, shared, risky>>
<1>1. UNCHANGED <<rec, own, net, veth, route, dst, src, uni, shared, risky>>
  BY DEF portmapCmdAdd, linkVars, ruleVars, uniVars
<1> DEFINE c == forwardPorts(proc.sb, proc.ip)[proc.k]
<1>2. /\ At("ADD", "portmap")
      /\ \/ AddOK /\ Sound
         \/ Again /\ Sound /\ UNCHANGED sb
         \/ AddFails /\ ((~Accepted(c) /\ Sound) \/ Fault("iptables"))
  BY DEF portmapCmdAdd
<1> QED BY <1>1, <1>2, FaultFacts DEF Sound

LEMMA StartDelFacts ==
  ASSUME NEW s \in Sandbox, StartDel(s)
  PROVE  /\ proc = NoProc /\ sb[s] \in {"running", "deleting"}
         /\ sb' = [sb EXCEPT ![s] = "deleting"]
         /\ proc' = [op |-> "DEL", sb |-> s, pc |-> "get", k |-> 1, ip |-> None, nic |-> Master]
         /\ UNCHANGED <<rec, own, net, veth, route, dst, src, uni, shared, nat, faults, risky>>
BY DEF StartDel, NoProc, linkVars, ruleVars, uniVars, natVars, history

LEMMA GetFacts ==
  ASSUME Shape, getPodNetworkRecord
  PROVE  /\ At("DEL", "get")
         /\ \/ /\ rec[proc.sb] # None /\ sb' = sb /\ faults' = faults
               /\ proc' = [op |-> "DEL", sb |-> proc.sb, pc |-> "rules", k |-> proc.k,
                           ip |-> rec[proc.sb], nic |-> proc.nic]
            \/ rec[proc.sb] = None /\ Goto("portmap") /\ sb' = sb /\ faults' = faults
            \/ rec[proc.sb] = None /\ DelOK /\ faults' = faults
            \/ DelOK /\ faults' = faults + 1
         /\ UNCHANGED <<rec, own, net, veth, route, dst, src, uni, shared, nat, risky>>
<1>1. UNCHANGED <<rec, own, net, veth, route, dst, src, uni, shared, nat, risky>>
  BY DEF getPodNetworkRecord, linkVars, ruleVars, uniVars, natVars
<1>2. At("DEL", "get")
  BY DEF getPodNetworkRecord
<1>3. ASSUME proc' = [proc EXCEPT !.pc = "rules", !.ip = rec[proc.sb]]
      PROVE  proc' = [op |-> "DEL", sb |-> proc.sb, pc |-> "rules", k |-> proc.k,
                      ip |-> rec[proc.sb], nic |-> proc.nic]
  BY <1>2, <1>3 DEF Shape, ProcShape, At
<1> QED BY <1>1, <1>2, <1>3, FaultFacts DEF getPodNetworkRecord, Sound

LEMMA RulesFacts ==
  ASSUME Shape, cleanUpIPRoutePolicy
  PROVE  /\ At("DEL", "rules") /\ proc.ip \in Addr
         /\ \E t \in Seq(Uni) :
              \/ /\ dst' = dst \ {proc.ip} /\ src' = [src EXCEPT ![proc.ip] = t] /\ t = <<>>
                 /\ Goto("release") /\ sb' = sb /\ faults' = faults
              \/ UNCHANGED <<dst, src>> /\ DelFails /\ faults' = faults + 1
              \/ /\ dst' = dst \ {proc.ip} /\ src' = [src EXCEPT ![proc.ip] = t]
                 /\ src[proc.ip] = <<>> => t = <<>>
                 /\ DelFails /\ faults' = faults + 1
         /\ UNCHANGED <<rec, own, net, veth, route, uni, shared, nat, risky>>
<1>1. UNCHANGED <<rec, own, net, veth, route, uni, shared, nat, risky>>
  BY DEF cleanUpIPRoutePolicy, linkVars, uniVars, natVars
<1>2. At("DEL", "rules") /\ proc.ip \in Addr
  BY DEF Shape, ProcShape, cleanUpIPRoutePolicy, At
<1>3. PICK a : a = proc.ip
  OBVIOUS
<1>4. src[a] \in Seq(Uni) /\ <<>> \in Seq(Uni)
  BY <1>2, <1>3 DEF Shape, RuleShape
<1>5. CASE /\ dst' = dst \ {a} /\ src' = [src EXCEPT ![a] = <<>>]
           /\ Goto("release") /\ Sound /\ UNCHANGED sb
  BY <1>1, <1>2, <1>3, <1>4, <1>5 DEF Sound
<1>6. CASE UNCHANGED ruleVars /\ DelFails /\ Fault("netlink")
  BY <1>1, <1>2, <1>4, <1>6, FaultFacts DEF ruleVars
<1>7. CASE /\ dst' = dst \ {a} /\ DelFails /\ Fault("netlink")
           /\ \E left \in Suffixes(src[a]) : src' = [src EXCEPT ![a] = left]
  <2>1. PICK left \in Suffixes(src[a]) : src' = [src EXCEPT ![a] = left]
    BY <1>7
  <2>2. left = <<>> \/ \E l \in 1..Len(src[a]) : left = SubSeq(src[a], l, Len(src[a]))
    BY <2>1 DEF Suffixes
  <2>3. left \in Seq(Uni)
    BY <1>4, <2>2, SubSeqFacts
  <2>4. src[a] = <<>> => left = <<>>
    BY <2>2
  <2> QED BY <1>1, <1>2, <1>3, <1>7, <2>1, <2>3, <2>4, FaultFacts
<1> QED BY <1>3, <1>5, <1>6, <1>7 DEF cleanUpIPRoutePolicy

LEMMA ReleaseFacts ==
  ASSUME releasePodIp
  PROVE  /\ At("DEL", "release")
         /\ \/ /\ own' = [r \in Sandbox |-> IF own[r] = proc.ip THEN None ELSE own[r]]
               /\ Goto("record") /\ sb' = sb /\ faults' = faults
            \/ DelFails /\ own' = own /\ faults' = faults + 1
         /\ UNCHANGED <<rec, net, veth, route, dst, src, uni, shared, nat, risky>>
BY FaultFacts DEF releasePodIp, Sound, linkVars, ruleVars, uniVars, natVars

LEMMA DelRecordFacts ==
  ASSUME delPodNetworkRecord
  PROVE  /\ At("DEL", "record") /\ Goto("portmap")
         /\ \/ rec' = [rec EXCEPT ![proc.sb] = None] /\ faults' = faults
            \/ rec' = rec /\ faults' = faults + 1
         /\ UNCHANGED <<sb, own, net, veth, route, dst, src, uni, shared, nat, risky>>
BY FaultFacts DEF delPodNetworkRecord, Sound, linkVars, ruleVars, uniVars, natVars

(* The teardown of the port forwarding leaves the routing alone.           *)
Teardown == portmapCmdDel \/ ClearChain \/ DeleteEntries \/ DeleteChain
LEMMA TeardownFacts ==
  ASSUME Teardown
  PROVE  /\ proc.op = "DEL" /\ proc.pc \in {"portmap", "clear", "unlink", "chain"}
         /\ \/ (\E pc \in {"clear", "unlink", "chain", "iface"} : Goto(pc)) /\ sb' = sb
            \/ UNCHANGED <<proc, sb>>
            \/ DelFails
         /\ faults' = faults \/ faults' = faults + 1
         /\ UNCHANGED <<rec, own, net, veth, route, dst, src, uni, shared, risky>>
<1>1. CASE portmapCmdDel
  BY <1>1, FaultFacts DEF portmapCmdDel, unforwardPorts, maybeGetIptables, At, Sound, linkVars, ruleVars, uniVars
<1>2. CASE ClearChain
  BY <1>2, FaultFacts DEF ClearChain, At, Sound, linkVars, ruleVars, uniVars
<1>3. CASE DeleteEntries
  BY <1>3, FaultFacts DEF DeleteEntries, At, Sound, linkVars, ruleVars, uniVars
<1>4. CASE DeleteChain
  BY <1>4, FaultFacts DEF DeleteChain, At, Sound, linkVars, ruleVars, uniVars
<1> QED BY <1>1, <1>2, <1>3, <1>4 DEF Teardown

LEMMA IfaceFacts ==
  ASSUME DelInterface
  PROVE  /\ At("DEL", "iface")
         /\ \/ DropLinks(proc.sb) /\ DelOK /\ faults' = faults
            \/ DelFails /\ UNCHANGED <<net, veth, route>> /\ faults' = faults + 1
         /\ UNCHANGED <<rec, own, dst, src, uni, shared, nat, risky>>
BY FaultFacts DEF DelInterface, Sound, linkVars, ruleVars, uniVars, natVars

LEMMA KillFacts ==
  ASSUME Kill
  PROVE  /\ proc # NoProc /\ faults' = faults + 1
         /\ (proc.op = "ADD" /\ AddFails) \/ (proc.op # "ADD" /\ DelFails)
         /\ UNCHANGED <<rec, own, net, veth, route, dst, src, uni, shared, nat, risky>>
BY FaultFacts DEF Kill, linkVars, ruleVars, uniVars, natVars

LEMMA ReconcileFacts ==
  ASSUME NEW s \in Sandbox, ReconcileDelete(s)
  PROVE  /\ rec[s] # None /\ sb[s] \in {"running", "deleting"} /\ faults' = faults + 1
         /\ sb' = [sb EXCEPT ![s] = "deleting"]
         /\ rec' = [rec EXCEPT ![s] = None]
         /\ UNCHANGED <<own, net, veth, route, dst, src, uni, shared, nat, proc, risky>>
BY FaultFacts DEF ReconcileDelete, linkVars, ruleVars, uniVars, natVars

LEMMA NetnsFacts ==
  ASSUME NEW s \in Sandbox, RemoveNetns(s)
  PROVE  /\ sb[s] = "stopped" /\ DropLinks(s)
         /\ sb' = [sb EXCEPT ![s] = "gone"]
         /\ UNCHANGED <<rec, own, dst, src, uni, shared, nat, proc, faults, risky>>
BY DEF RemoveNetns, ruleVars, uniVars, natVars, history

LEMMA RebootFacts ==
  ASSUME Reboot
  PROVE  /\ faults' = faults + 1
         /\ sb' = [s \in Sandbox |-> IF sb[s] \in Live THEN "deleting" ELSE sb[s]]
         /\ net' = [s \in Sandbox |-> None] /\ veth' = [p \in Pod |-> None]
         /\ route' = [a \in Addr |-> None]
         /\ dst' = {} /\ src' = [a \in Addr \cup Uni |-> <<>>]
         /\ uni' = [u \in Uni |-> {}] /\ shared' = {}
         /\ proc' = NoProc
         /\ UNCHANGED <<rec, own, risky>>
BY FaultFacts DEF Reboot

LEMMA ProxyFacts ==
  ASSUME KubeProxyStarts
  PROVE  UNCHANGED <<sb, rec, own, net, veth, route, dst, src, uni, shared, nat, proc, faults, risky>>
BY DEF KubeProxyStarts, kubeVars, linkVars, ruleVars, uniVars, history

----------------------------------------------------------------------------
(* Shape, and what an interface that goes takes with it.                   *)

LEMMA ShapeParts ==
  ASSUME Shape
  PROVE  ProcShape /\ SbShape /\ BookShape /\ LinkShape /\ RuleShape /\ UniShape /\ HistoryShape
BY DEF Shape

LEMMA LinkDelFacts ==
  ASSUME LinkShape, VethInv, RouteInv, NEW p \in Pod, LinkDel(p)
  PROVE  /\ LinkShape' /\ VethInv' /\ RouteInv'
         /\ veth'[p] = None /\ \A q \in Pod \ {p} : veth'[q] = veth[q]
         /\ \A r \in Sandbox : (veth[p] = r /\ net'[r] = None) \/ (veth[p] # r /\ net'[r] = net[r])
         /\ \A a \in Addr : \/ route[a] = p /\ route'[a] = None
                            \/ route[a] # p /\ route'[a] = route[a]
<1>1. LinkShape'
  BY DEF LinkShape, LinkDel
<1>2. veth'[p] = None /\ \A q \in Pod \ {p} : veth'[q] = veth[q]
  BY DEF LinkShape, LinkDel
<1>3. \A r \in Sandbox : (veth[p] = r /\ net'[r] = None) \/ (veth[p] # r /\ net'[r] = net[r])
  BY DEF LinkShape, LinkDel
<1>4. \A a \in Addr : (route[a] = p /\ route'[a] = None) \/ (route[a] # p /\ route'[a] = route[a])
  BY DEF LinkShape, LinkDel
<1>5. VethInv'
  BY <1>2 DEF VethInv
<1>6. RouteInv'
  <2> SUFFICES ASSUME NEW a \in Addr, route'[a] # None
               PROVE  veth'[route'[a]] # None /\ net'[veth'[route'[a]]] = a
    BY DEF RouteInv
  <2>1. PICK q \in Pod : q = route[a] /\ q = route'[a] /\ q # p
    BY <1>4 DEF LinkShape
  <2>2. PICK r \in Sandbox : r = veth[q] /\ r = veth'[q] /\ net[r] = a
    <3>1. route[a] # None /\ route[a] = q
      BY <2>1
    <3>2. veth[q] # None /\ net[veth[q]] = a
      BY <3>1 DEF RouteInv
    <3>3. veth[q] \in Sandbox /\ veth'[q] = veth[q]
      BY <1>2, <2>1, <3>2 DEF LinkShape
    <3> QED BY <3>2, <3>3
  <2>3. veth[p] # r
    BY <2>1, <2>2, Consts DEF VethInv
  <2> QED BY <1>3, <2>1, <2>2, <2>3, Consts
<1> QED BY <1>1, <1>2, <1>3, <1>4, <1>5, <1>6

LEMMA DropFacts ==
  ASSUME LinkShape, VethInv, RouteInv, NEW s \in Sandbox, DropLinks(s)
  PROVE  /\ LinkShape' /\ VethInv' /\ RouteInv'
         /\ net'[s] = None /\ \A r \in Sandbox \ {s} : net'[r] = net[r]
         /\ \A q \in Pod : (veth[q] = s /\ veth'[q] = None) \/ (veth[q] # s /\ veth'[q] = veth[q])
         /\ \A a \in Addr, q \in Pod : route[a] = q /\ veth[q] # s => route'[a] = q
<1>0. PodOf[s] \in Pod
  BY Consts
<1>1. CASE veth[PodOf[s]] = s
  <2>1. LinkDel(PodOf[s])
    BY <1>1 DEF DropLinks
  <2>2. \A q \in Pod : veth[q] = s => q = PodOf[s]
    BY Consts DEF VethInv
  <2> QED BY <1>0, <1>1, <2>1, <2>2, LinkDelFacts
<1>2. CASE veth[PodOf[s]] # s
  <2>1. net' = [net EXCEPT ![s] = None] /\ UNCHANGED <<veth, route>>
    BY <1>2 DEF DropLinks
  <2>2. \A q \in Pod : veth[q] # s
    BY <1>2, Consts DEF VethInv
  <2>3. LinkShape'
    BY <2>1 DEF LinkShape
  <2>4. net'[s] = None /\ \A r \in Sandbox \ {s} : net'[r] = net[r]
    BY <2>1 DEF LinkShape
  <2>5. VethInv'
    BY <2>1 DEF VethInv
  <2>6. RouteInv'
    <3> SUFFICES ASSUME NEW a \in Addr, route[a] # None
                 PROVE  veth[route[a]] # None /\ net'[veth[route[a]]] = a
      BY <2>1 DEF RouteInv
    <3>1. route[a] \in Pod /\ veth[route[a]] # None /\ net[veth[route[a]]] = a
      BY DEF LinkShape, RouteInv
    <3>2. veth[route[a]] \in Sandbox \ {s}
      BY <2>2, <3>1 DEF LinkShape
    <3> QED BY <2>4, <3>1, <3>2
  <2> QED BY <2>1, <2>2, <2>3, <2>4, <2>5, <2>6
<1> QED BY <1>1, <1>2

(* A process that ends leaves the sandbox as kubelet will see it.          *)
LEMMA EndShape ==
  ASSUME ProcShape, SbShape,
         \/ proc.op = "ADD" /\ (AddFails \/ AddOK)
         \/ proc.op # "ADD" /\ (DelFails \/ (proc.op = "DEL" /\ DelOK))
  PROVE  ProcShape' /\ SbShape'
<1>1. ProcShape'
  BY NoProcFacts DEF ProcShape, AddFails, AddOK, DelFails, DelOK, NoProc
<1>2. CASE proc.op = "ADD" /\ (AddFails \/ AddOK)
  <2>1. proc.sb \in Sandbox /\ sb[proc.sb] = "adding"
    BY <1>2 DEF ProcShape
  <2>2. PICK v \in {"deleting", "running"} : sb' = [sb EXCEPT ![proc.sb] = v]
    BY <1>2 DEF AddFails, AddOK
  <2>3. \A s \in Sandbox : sb'[s] # "adding" /\ (sb'[s] = "running" => sb[s] \in {"adding", "running"})
    BY <2>1, <2>2 DEF SbShape
  <2> QED BY <1>1, <2>1, <2>2, <2>3 DEF SbShape, Live
<1>3. CASE proc.op # "ADD" /\ (DelFails \/ (proc.op = "DEL" /\ DelOK))
  <2>1. sb' = sb \/ (proc.sb \in Sandbox /\ sb' = [sb EXCEPT ![proc.sb] = "stopped"])
    BY <1>3 DEF ProcShape, DelFails, DelOK
  <2> QED BY <1>1, <1>3, <2>1 DEF SbShape, Live
<1> QED BY <1>2, <1>3

(* A command that succeeds, or fails and is followed by the rollback.      *)
LEMMA MoveShape ==
  ASSUME ProcShape, SbShape, sb' = sb, risky \subseteq risky', NEW pc, Goto(pc),
         \/ /\ proc.op = "ADD" /\ pc \in UniPc \ {"primary", "assign"} /\ proc.pc \in UniPc \ {"assign"}
         \/ /\ proc.op = "ADD" /\ pc = "assign" /\ proc.pc \in UniPc
         \/ /\ proc.op = "ADD" /\ pc \in PodPc /\ proc.pc \in PodPc
            /\ own'[proc.sb] = own[proc.sb] /\ (pc = "src" => proc.nic # Master)
         \/ /\ proc.op = "DEL" /\ pc \in DelPc
            /\ pc \in {"rules", "release", "record"} => proc.ip \in Addr
  PROVE  ProcShape' /\ SbShape'
<1>1. /\ proc' = [op |-> proc.op, sb |-> proc.sb, pc |-> pc, k |-> 1, ip |-> proc.ip, nic |-> proc.nic]
      /\ proc'.op = proc.op /\ proc'.sb = proc.sb /\ proc'.pc = pc /\ proc'.k = 1
      /\ proc'.ip = proc.ip /\ proc'.nic = proc.nic
  BY GotoFacts
<1>2. SbShape'
  BY <1>1 DEF SbShape
<1>3. proc.sb \in Sandbox => NicOf[proc.sb] \in Uni \cup {Master}
  BY Consts
<1>4. ProcShape'
  BY <1>1, <1>3 DEF ProcShape, UniPc, PodPc, DelPc
<1> QED BY <1>2, <1>4

LEMMA HistoryStep ==
  ASSUME Shape, NEW x \in Addr \cup Uni, risky' = risky \/ risky' = risky \cup {x},
         faults' = faults \/ faults' = faults + 1
  PROVE  HistoryShape' /\ risky \subseteq risky'
<1>1. IsFiniteSet(risky \cup {x})
  BY FS_AddElement DEF Shape, HistoryShape
<1> QED BY <1>1 DEF Shape, HistoryShape

LEMMA HistorySame ==
  ASSUME Shape, risky' = risky, faults' = faults \/ faults' = faults + 1
  PROVE  HistoryShape' /\ risky \subseteq risky'
BY DEF Shape, HistoryShape

LEMMA ShapeStart ==
  ASSUME Shape, NEW s \in Sandbox, StartAdd(s) \/ StartDel(s)
  PROVE  Shape'
<1>0. ProcShape /\ SbShape /\ BookShape /\ LinkShape /\ RuleShape /\ UniShape /\ HistoryShape
  BY ShapeParts
<1>1. BookShape' /\ LinkShape' /\ RuleShape' /\ UniShape' /\ HistoryShape'
  BY <1>0, StartAddFacts, StartDelFacts DEF BookShape, LinkShape, RuleShape, UniShape, HistoryShape
<1>2. CASE StartAdd(s)
  <2>1. /\ proc = NoProc /\ sb[s] = "none" /\ sb' = [sb EXCEPT ![s] = "adding"]
        /\ \A r \in Sandbox : PodOf[r] = PodOf[s] => sb[r] \notin {"adding", "running"}
        /\ proc' = [op |-> "ADD", sb |-> s, pc |-> IF NicOf[s] = Master THEN "assign" ELSE "primary",
                    k |-> 1, ip |-> None, nic |-> NicOf[s]]
    BY <1>2, StartAddFacts
  <2>2. SbShape'
    BY <1>0, <2>1, NoProcFacts DEF SbShape, Live
  <2>3. NicOf[s] \in Uni \cup {Master} /\ sb'[s] = "adding"
    BY <1>0, <2>1, Consts DEF SbShape
  <2>4. ProcShape'
    BY <2>1, <2>3 DEF ProcShape, UniPc, PodPc
  <2> QED BY <1>1, <2>2, <2>4 DEF Shape
<1>3. CASE StartDel(s)
  <2>1. /\ proc = NoProc /\ sb[s] \in {"running", "deleting"} /\ sb' = [sb EXCEPT ![s] = "deleting"]
        /\ proc' = [op |-> "DEL", sb |-> s, pc |-> "get", k |-> 1, ip |-> None, nic |-> Master]
    BY <1>3, StartDelFacts
  <2>2. SbShape'
    BY <1>0, <2>1, NoProcFacts DEF SbShape, Live
  <2>3. sb'[s] = "deleting"
    BY <1>0, <2>1 DEF SbShape
  <2>4. ProcShape'
    BY <2>1, <2>3 DEF ProcShape, DelPc
  <2> QED BY <1>1, <2>2, <2>4 DEF Shape
<1> QED BY <1>2, <1>3

LEMMA ShapeUni ==
  ASSUME Shape, ensureUNIPrimaryIPRoute \/ UniStep \/ initPodNetworking \/ assignFails
  PROVE  Shape'
<1>0. ProcShape /\ SbShape /\ BookShape /\ LinkShape /\ RuleShape /\ UniShape /\ HistoryShape
  BY ShapeParts
<1>1. CASE ensureUNIPrimaryIPRoute
  <2>1. BookShape' /\ LinkShape' /\ UniShape' /\ HistoryShape' /\ risky \subseteq risky'
    BY <1>0, <1>1, PrimaryFacts, HistorySame DEF BookShape, LinkShape, UniShape
  <2>2. RuleShape'
    BY <1>0, <1>1, PrimaryFacts, Consts DEF RuleShape
  <2>3. ProcShape' /\ SbShape'
    BY <1>0, <1>1, <2>1, PrimaryFacts, EndShape, MoveShape DEF At, UniPc
  <2> QED BY <2>1, <2>2, <2>3 DEF Shape
<1>2. CASE UniStep
  <2>0. At("ADD", "uni") /\ proc.nic \in Uni /\ proc.k \in 1..7
    BY <1>2, UniStepFacts
  <2>1. BookShape' /\ LinkShape' /\ RuleShape' /\ HistoryShape' /\ risky \subseteq risky'
    BY <1>0, <1>2, UniStepFacts, HistorySame, HistoryStep DEF BookShape, LinkShape, RuleShape
  <2>2. UniShape'
    <3>1. UniEffect(UniSteps[proc.k]) \subseteq UniSetting
      BY <2>0 DEF UniEffect, UniSteps, UniSetting
    <3> QED BY <1>0, <1>2, <2>0, <3>1, UniStepFacts DEF UniShape
  <2>3. CASE Again /\ sb' = sb /\ proc.k < 7
    <3>1. /\ proc' = [op |-> proc.op, sb |-> proc.sb, pc |-> proc.pc, k |-> proc.k + 1,
                      ip |-> proc.ip, nic |-> proc.nic]
      BY <1>0, <2>3, AgainFacts
    <3>2. ProcShape'
      BY <1>0, <2>0, <2>1, <2>3, <3>1 DEF ProcShape, At, UniPc, PodPc
    <3>3. SbShape'
      BY <1>0, <2>3, <3>1 DEF SbShape
    <3> QED BY <2>1, <2>2, <3>2, <3>3 DEF Shape
  <2>4. CASE Goto("rp_filter") /\ sb' = sb
    BY <1>0, <2>0, <2>1, <2>2, <2>4, MoveShape DEF Shape, At, UniPc
  <2>5. CASE AddFails
    BY <1>0, <2>0, <2>1, <2>2, <2>5, EndShape DEF Shape, At
  <2> QED BY <1>2, <2>3, <2>4, <2>5, UniStepFacts
<1>3. CASE initPodNetworking
  <2>1. BookShape' /\ LinkShape' /\ RuleShape' /\ UniShape' /\ HistoryShape' /\ risky \subseteq risky'
    BY <1>0, <1>3, NetworkingFacts, HistorySame DEF BookShape, LinkShape, RuleShape, UniShape
  <2>2. ProcShape' /\ SbShape'
    BY <1>0, <1>3, <2>1, NetworkingFacts, EndShape, MoveShape DEF At, UniPc
  <2> QED BY <2>1, <2>2 DEF Shape
<1>4. CASE assignFails
  <2>1. BookShape' /\ LinkShape' /\ RuleShape' /\ UniShape' /\ HistoryShape'
    BY <1>0, <1>4, AssignFailsFacts, HistorySame DEF BookShape, LinkShape, RuleShape, UniShape
  <2>2. ProcShape' /\ SbShape'
    BY <1>0, <1>4, AssignFailsFacts, EndShape DEF At
  <2> QED BY <2>1, <2>2 DEF Shape
<1> QED BY <1>1, <1>2, <1>3, <1>4

LEMMA ShapeAssign ==
  ASSUME Shape, NEW ip \in Addr, assignPodIp(ip)
  PROVE  Shape'
<1>0. ProcShape /\ SbShape /\ BookShape /\ LinkShape /\ RuleShape /\ UniShape /\ HistoryShape
  BY ShapeParts
<1>1. /\ At("ADD", "assign") /\ own' = [own EXCEPT ![proc.sb] = ip]
      /\ UNCHANGED <<sb, rec, net, veth, route, dst, src, uni, shared>>
  BY AssignFacts
<1>2. PICK nic \in {proc.nic, Master} :
              /\ proc' = [op |-> "ADD", sb |-> proc.sb, pc |-> "veth", k |-> proc.k, ip |-> ip, nic |-> nic]
              /\ \/ nic = proc.nic /\ faults' = faults
                 \/ nic # proc.nic /\ faults' = faults + 1
              /\ risky' = IF nic # proc.nic \/ Loose(ip) \/ (nic = Master /\ src[ip] # <<>>)
                          THEN risky \cup {ip} ELSE risky
  BY AssignFacts
<1>3. proc.sb \in Sandbox /\ sb[proc.sb] = "adding" /\ proc.nic = NicOf[proc.sb]
  BY <1>0, <1>1 DEF ProcShape, At, UniPc
<1>4. HistoryShape'
  BY <1>2, HistoryStep
<1>5. BookShape' /\ LinkShape' /\ RuleShape' /\ UniShape' /\ own'[proc.sb] = ip
  BY <1>0, <1>1, <1>3 DEF BookShape, LinkShape, RuleShape, UniShape
<1>6. SbShape'
  BY <1>0, <1>1, <1>2, <1>3 DEF SbShape, At
<1>7. nic = NicOf[proc.sb] \/ (nic = Master /\ ip \in risky')
  BY <1>2, <1>3
<1>8. ProcShape'
  BY <1>1, <1>2, <1>3, <1>5, <1>7 DEF ProcShape, UniPc, PodPc
<1> QED BY <1>4, <1>5, <1>6, <1>8 DEF Shape

LEMMA ShapePod ==
  ASSUME Shape, VethInv, RouteInv,
         \/ checkAndCleanOldVeth \/ setupVethPair \/ addRouteRuleForPodIp \/ ensureDstIPRoutePolicy
         \/ PodSrcRule \/ setNodePortRange \/ rollbackReleaseIP \/ addPodNetworkRecord \/ portmapCmdAdd
  PROVE  Shape'
<1>0. ProcShape /\ SbShape /\ BookShape /\ LinkShape /\ RuleShape /\ UniShape /\ HistoryShape
  BY ShapeParts
<1> DEFINE Here == proc.op = "ADD" /\ proc.pc \in PodPc
<1>1. ASSUME Here PROVE proc.sb \in Sandbox /\ ThisPod \in Pod /\ proc.ip \in Addr
  BY <1>0, <1>1, Consts DEF ProcShape, ThisPod
<1>2. CASE checkAndCleanOldVeth
  <2>1. Here
    BY <1>2, CleanFacts DEF At, PodPc
  <2>2. BookShape' /\ RuleShape' /\ UniShape' /\ HistoryShape' /\ risky \subseteq risky'
    BY <1>0, <1>2, CleanFacts, HistorySame DEF BookShape, RuleShape, UniShape
  <2>3. LinkShape'
    <3>1. CASE LinkDel(ThisPod)
      BY <1>0, <1>1, <2>1, <3>1, LinkDelFacts
    <3>2. CASE UNCHANGED <<net, veth, route>>
      BY <1>0, <3>2 DEF LinkShape
    <3> QED BY <1>2, <3>1, <3>2, CleanFacts
  <2>4. ProcShape' /\ SbShape'
    BY <1>0, <1>2, <2>2, CleanFacts, MoveShape DEF At, PodPc
  <2> QED BY <2>2, <2>3, <2>4 DEF Shape
<1>3. CASE setupVethPair
  <2>1. Here
    BY <1>3, PairFacts DEF At, PodPc
  <2>2. BookShape' /\ RuleShape' /\ UniShape' /\ HistoryShape' /\ risky \subseteq risky'
    BY <1>0, <1>3, PairFacts, HistorySame DEF BookShape, RuleShape, UniShape
  <2>3. LinkShape'
    BY <1>0, <1>1, <1>3, <2>1, PairFacts DEF LinkShape
  <2>4. ProcShape' /\ SbShape'
    BY <1>0, <1>3, <2>2, PairFacts, MoveShape DEF At, PodPc
  <2> QED BY <2>2, <2>3, <2>4 DEF Shape
<1>4. CASE addRouteRuleForPodIp
  <2>1. Here
    BY <1>4, RouteFacts DEF At, PodPc
  <2>2. BookShape' /\ RuleShape' /\ UniShape' /\ HistoryShape' /\ risky \subseteq risky'
    BY <1>0, <1>4, RouteFacts, HistorySame DEF BookShape, RuleShape, UniShape
  <2>3. LinkShape'
    BY <1>0, <1>1, <1>4, <2>1, RouteFacts DEF LinkShape
  <2>4. ProcShape' /\ SbShape'
    BY <1>0, <1>4, <2>2, RouteFacts, MoveShape DEF At, PodPc
  <2> QED BY <2>2, <2>3, <2>4 DEF Shape
<1>5. CASE ensureDstIPRoutePolicy
  <2>1. Here
    BY <1>5, DstFacts DEF At, PodPc
  <2>2. BookShape' /\ LinkShape' /\ UniShape' /\ HistoryShape' /\ risky \subseteq risky'
    BY <1>0, <1>5, DstFacts, HistorySame DEF BookShape, LinkShape, UniShape
  <2>3. RuleShape'
    BY <1>0, <1>1, <1>5, <2>1, DstFacts DEF RuleShape
  <2>4. ProcShape' /\ SbShape'
    BY <1>0, <1>5, <2>2, DstFacts, MoveShape DEF At, PodPc
  <2> QED BY <2>2, <2>3, <2>4 DEF Shape
<1>6. CASE PodSrcRule
  <2>1. Here
    BY <1>6, SrcFacts DEF At, PodPc
  <2>2. PICK t \in Seq(Uni) :
              /\ src' = [src EXCEPT ![proc.ip] = t]
              /\ \/ /\ t # <<>> /\ Head(t) = proc.nic
                    /\ Goto("range") /\ faults' = faults /\ risky' = risky
                 \/ Goto("range") /\ faults' = faults + 1 /\ risky' = risky \cup {proc.ip}
                 \/ Goto("rollback") /\ faults' = faults + 1 /\ risky' = risky
    BY <1>6, SrcFacts
  <2>3. UNCHANGED <<sb, rec, own, net, veth, route, dst, uni, shared>> /\ At("ADD", "src")
    BY <1>6, SrcFacts
  <2>4. HistoryShape' /\ risky \subseteq risky'
    BY <1>1, <2>1, <2>2, HistoryStep
  <2>5. BookShape' /\ LinkShape' /\ UniShape'
    BY <1>0, <2>3 DEF BookShape, LinkShape, UniShape
  <2>6. RuleShape'
    BY <1>0, <1>1, <2>1, <2>2, <2>3, Consts DEF RuleShape
  <2>7. ProcShape' /\ SbShape'
    BY <1>0, <2>2, <2>3, <2>4, MoveShape DEF At, PodPc
  <2> QED BY <2>4, <2>5, <2>6, <2>7 DEF Shape
<1>7. CASE setNodePortRange
  <2>1. BookShape' /\ LinkShape' /\ RuleShape' /\ UniShape' /\ HistoryShape' /\ risky \subseteq risky'
    BY <1>0, <1>7, RangeFacts, HistorySame DEF BookShape, LinkShape, RuleShape, UniShape
  <2>2. ProcShape' /\ SbShape'
    BY <1>0, <1>7, <2>1, RangeFacts, MoveShape DEF At, PodPc
  <2> QED BY <2>1, <2>2 DEF Shape
<1>8. CASE rollbackReleaseIP
  <2>1. BookShape' /\ LinkShape' /\ RuleShape' /\ UniShape' /\ HistoryShape'
    BY <1>0, <1>8, RollbackFacts, HistorySame DEF BookShape, LinkShape, RuleShape, UniShape
  <2>2. ProcShape' /\ SbShape'
    BY <1>0, <1>8, RollbackFacts, EndShape DEF At
  <2> QED BY <2>1, <2>2 DEF Shape
<1>9. CASE addPodNetworkRecord
  <2>1. Here
    BY <1>9, RecordFacts DEF At, PodPc
  <2>2. LinkShape' /\ RuleShape' /\ UniShape' /\ HistoryShape' /\ risky \subseteq risky'
    BY <1>0, <1>9, RecordFacts, HistorySame DEF LinkShape, RuleShape, UniShape
  <2>3. BookShape'
    BY <1>0, <1>1, <1>9, <2>1, RecordFacts DEF BookShape
  <2>4. ProcShape' /\ SbShape'
    BY <1>0, <1>9, <2>2, RecordFacts, MoveShape, EndShape DEF At, PodPc
  <2> QED BY <2>2, <2>3, <2>4 DEF Shape
<1>10. CASE portmapCmdAdd
  <2>1. BookShape' /\ LinkShape' /\ RuleShape' /\ UniShape' /\ HistoryShape' /\ risky \subseteq risky'
    BY <1>0, <1>10, PortFacts, HistorySame DEF BookShape, LinkShape, RuleShape, UniShape
  <2>2. CASE Again /\ sb' = sb
    <3>1. proc' = [op |-> proc.op, sb |-> proc.sb, pc |-> proc.pc, k |-> proc.k + 1,
                   ip |-> proc.ip, nic |-> proc.nic]
      BY <1>0, <2>2, AgainFacts
    <3>2. own' = own /\ At("ADD", "portmap")
      BY <1>10, PortFacts
    <3>3. ProcShape'
      BY <1>0, <2>1, <2>2, <3>1, <3>2 DEF ProcShape, At, UniPc, PodPc
    <3>4. SbShape'
      BY <1>0, <2>2, <3>1 DEF SbShape
    <3> QED BY <2>1, <3>3, <3>4 DEF Shape
  <2>3. CASE AddOK \/ AddFails
    <3>1. ProcShape' /\ SbShape'
      BY <1>0, <1>10, <2>3, PortFacts, EndShape DEF At
    <3> QED BY <2>1, <3>1 DEF Shape
  <2> QED BY <1>10, <2>2, <2>3, PortFacts
<1> QED BY <1>2, <1>3, <1>4, <1>5, <1>6, <1>7, <1>8, <1>9, <1>10

LEMMA ShapeDel ==
  ASSUME Shape, VethInv, RouteInv, DelStep
  PROVE  Shape'
<1>0. ProcShape /\ SbShape /\ BookShape /\ LinkShape /\ RuleShape /\ UniShape /\ HistoryShape
  BY ShapeParts
<1>1. CASE getPodNetworkRecord
  <2>1. BookShape' /\ LinkShape' /\ RuleShape' /\ UniShape' /\ HistoryShape' /\ risky \subseteq risky'
    BY <1>0, <1>1, GetFacts, HistorySame DEF BookShape, LinkShape, RuleShape, UniShape
  <2>2. CASE rec[proc.sb] # None /\ sb' = sb
             /\ proc' = [op |-> "DEL", sb |-> proc.sb, pc |-> "rules", k |-> proc.k,
                         ip |-> rec[proc.sb], nic |-> proc.nic]
    <3>1. proc.op = "DEL" /\ proc.sb \in Sandbox /\ sb[proc.sb] = "deleting"
      BY <1>0, <1>1, GetFacts DEF ProcShape, At
    <3>2. rec[proc.sb] \in Addr
      BY <1>0, <2>2, <3>1 DEF BookShape
    <3>3. ProcShape'
      BY <2>2, <3>1, <3>2 DEF ProcShape, DelPc
    <3>4. SbShape'
      BY <1>0, <2>2, <3>1 DEF SbShape
    <3> QED BY <2>1, <3>3, <3>4 DEF Shape
  <2>3. CASE (Goto("portmap") /\ sb' = sb) \/ DelOK
    <3>1. ProcShape' /\ SbShape'
      BY <1>0, <1>1, <2>1, <2>3, GetFacts, MoveShape, EndShape DEF At, DelPc
    <3> QED BY <2>1, <3>1 DEF Shape
  <2> QED BY <1>1, <2>2, <2>3, GetFacts
<1>2. CASE cleanUpIPRoutePolicy
  <2>1. BookShape' /\ LinkShape' /\ UniShape' /\ HistoryShape' /\ risky \subseteq risky'
    BY <1>0, <1>2, RulesFacts, HistorySame DEF BookShape, LinkShape, UniShape
  <2>2. RuleShape'
    BY <1>0, <1>2, RulesFacts, Consts DEF RuleShape
  <2>3. ProcShape' /\ SbShape'
    BY <1>0, <1>2, <2>1, RulesFacts, MoveShape, EndShape DEF At, DelPc
  <2> QED BY <2>1, <2>2, <2>3 DEF Shape
<1>3. CASE releasePodIp
  <2>1. LinkShape' /\ RuleShape' /\ UniShape' /\ HistoryShape' /\ risky \subseteq risky'
    BY <1>0, <1>3, ReleaseFacts, HistorySame DEF LinkShape, RuleShape, UniShape
  <2>2. BookShape'
    BY <1>0, <1>3, ReleaseFacts DEF BookShape
  <2>3. proc.ip \in Addr
    BY <1>0, <1>3, ReleaseFacts DEF ProcShape, At
  <2>4. ProcShape' /\ SbShape'
    BY <1>0, <1>3, <2>1, <2>3, ReleaseFacts, MoveShape, EndShape DEF At, DelPc
  <2> QED BY <2>1, <2>2, <2>4 DEF Shape
<1>4. CASE delPodNetworkRecord
  <2>1. LinkShape' /\ RuleShape' /\ UniShape' /\ HistoryShape' /\ risky \subseteq risky'
    BY <1>0, <1>4, DelRecordFacts, HistorySame DEF LinkShape, RuleShape, UniShape
  <2>2. BookShape'
    BY <1>0, <1>4, DelRecordFacts DEF BookShape
  <2>3. ProcShape' /\ SbShape'
    BY <1>0, <1>4, <2>1, DelRecordFacts, MoveShape DEF At, DelPc
  <2> QED BY <2>1, <2>2, <2>3 DEF Shape
<1>5. CASE Teardown
  <2>1. BookShape' /\ LinkShape' /\ RuleShape' /\ UniShape' /\ HistoryShape' /\ risky \subseteq risky'
    BY <1>0, <1>5, TeardownFacts, HistorySame DEF BookShape, LinkShape, RuleShape, UniShape
  <2>2. proc.op = "DEL"
    BY <1>5, TeardownFacts
  <2>3. CASE UNCHANGED <<proc, sb>>
    BY <1>0, <2>1, <2>2, <2>3 DEF Shape, ProcShape, SbShape
  <2>4. CASE (\E pc \in {"clear", "unlink", "chain", "iface"} : Goto(pc)) /\ sb' = sb
    BY <1>0, <2>1, <2>2, <2>4, MoveShape DEF Shape, DelPc
  <2>5. CASE DelFails
    BY <1>0, <2>1, <2>2, <2>5, EndShape DEF Shape
  <2> QED BY <1>5, <2>3, <2>4, <2>5, TeardownFacts
<1>6. CASE DelInterface
  <2>1. BookShape' /\ RuleShape' /\ UniShape' /\ HistoryShape'
    BY <1>0, <1>6, IfaceFacts, HistorySame DEF BookShape, RuleShape, UniShape
  <2>2. proc.op = "DEL" /\ proc.sb \in Sandbox
    BY <1>0, <1>6, IfaceFacts DEF ProcShape, At
  <2>3. LinkShape'
    <3>1. CASE DropLinks(proc.sb)
      BY <1>0, <2>2, <3>1, DropFacts
    <3>2. CASE UNCHANGED <<net, veth, route>>
      BY <1>0, <3>2 DEF LinkShape
    <3> QED BY <1>6, <3>1, <3>2, IfaceFacts
  <2>4. ProcShape' /\ SbShape'
    BY <1>0, <1>6, <2>2, IfaceFacts, EndShape
  <2> QED BY <2>1, <2>3, <2>4 DEF Shape
<1> QED BY <1>1, <1>2, <1>3, <1>4, <1>5, <1>6 DEF DelStep, Teardown

LEMMA ShapeNode ==
  ASSUME Shape, VethInv, RouteInv,
         Kill \/ Reboot \/ KubeProxyStarts \/ \E s \in Sandbox : ReconcileDelete(s) \/ RemoveNetns(s)
  PROVE  Shape'
<1>0. ProcShape /\ SbShape /\ BookShape /\ LinkShape /\ RuleShape /\ UniShape /\ HistoryShape
  BY ShapeParts
<1>1. CASE Kill
  <2>1. BookShape' /\ LinkShape' /\ RuleShape' /\ UniShape' /\ HistoryShape'
    BY <1>0, <1>1, KillFacts, HistorySame DEF BookShape, LinkShape, RuleShape, UniShape
  <2>2. ProcShape' /\ SbShape'
    BY <1>0, <1>1, KillFacts, EndShape
  <2> QED BY <2>1, <2>2 DEF Shape
<1>2. CASE Reboot
  <2>1. BookShape' /\ LinkShape' /\ RuleShape' /\ UniShape' /\ HistoryShape'
    <3>1. BookShape' /\ HistoryShape'
      BY <1>0, <1>2, RebootFacts, HistorySame DEF BookShape
    <3>2. LinkShape'
      BY <1>2, RebootFacts DEF LinkShape
    <3>3. RuleShape'
      <4>1. dst' = {} /\ src' = [a \in Addr \cup Uni |-> <<>>] /\ <<>> \in Seq(Uni)
        BY <1>2, RebootFacts
      <4> QED BY <4>1 DEF RuleShape
    <3>4. UniShape'
      BY <1>2, RebootFacts DEF UniShape
    <3> QED BY <3>1, <3>2, <3>3, <3>4
  <2>2. ProcShape' /\ SbShape'
    <3>1. proc' = NoProc /\ sb' = [s \in Sandbox |-> IF sb[s] \in Live THEN "deleting" ELSE sb[s]]
      BY <1>2, RebootFacts
    <3>2. ProcShape'
      BY <3>1, NoProcFacts DEF ProcShape, NoProc
    <3>3. SbShape'
      BY <1>0, <3>1 DEF SbShape, Live
    <3> QED BY <3>2, <3>3
  <2> QED BY <2>1, <2>2 DEF Shape
<1>3. CASE KubeProxyStarts
  BY <1>3, ProxyFacts DEF Shape, ProcShape, SbShape, BookShape, LinkShape, RuleShape, UniShape, HistoryShape
<1>4. ASSUME NEW s \in Sandbox, ReconcileDelete(s) PROVE Shape'
  <2>1. LinkShape' /\ RuleShape' /\ UniShape' /\ HistoryShape'
    BY <1>0, <1>4, ReconcileFacts, HistorySame DEF LinkShape, RuleShape, UniShape
  <2>2. BookShape'
    BY <1>0, <1>4, ReconcileFacts DEF BookShape
  <2>3. SbShape'
    BY <1>0, <1>4, ReconcileFacts DEF SbShape, Live
  <2>4. \A r \in Sandbox : sb[r] \in {"adding", "deleting"} => sb'[r] = sb[r]
    BY <1>0, <1>4, ReconcileFacts DEF SbShape
  <2>5. UNCHANGED <<proc, own, risky>>
    BY <1>4, ReconcileFacts
  <2>6. ProcShape'
    BY <1>0, <2>4, <2>5 DEF ProcShape
  <2> QED BY <2>1, <2>2, <2>3, <2>6 DEF Shape
<1>5. ASSUME NEW s \in Sandbox, RemoveNetns(s) PROVE Shape'
  <2>1. LinkShape'
    BY <1>0, <1>5, NetnsFacts, DropFacts
  <2>2. BookShape' /\ RuleShape' /\ UniShape' /\ HistoryShape'
    BY <1>0, <1>5, NetnsFacts, HistorySame DEF BookShape, RuleShape, UniShape
  <2>3. SbShape'
    BY <1>0, <1>5, NetnsFacts DEF SbShape, Live
  <2>4. \A r \in Sandbox : sb[r] \in {"adding", "deleting"} => sb'[r] = sb[r]
    BY <1>0, <1>5, NetnsFacts DEF SbShape
  <2>5. UNCHANGED <<proc, own, risky>>
    BY <1>5, NetnsFacts
  <2>6. ProcShape'
    BY <1>0, <2>4, <2>5 DEF ProcShape
  <2> QED BY <2>1, <2>2, <2>3, <2>6 DEF Shape
<1> QED BY <1>1, <1>2, <1>3, <1>4, <1>5

----------------------------------------------------------------------------
(* The secondary interfaces.                                               *)

(* Every step but two leaves the interfaces and their setup alone.         *)
LEMMA UniSame ==
  ASSUME UniReady, UniInv, uni' = uni, risky \subseteq risky',
         proc' = proc \/ proc'.op # "ADD" \/ proc'.pc # "uni"
  PROVE  UniReady' /\ UniInv'
<1>1. UniReady'
  BY DEF UniReady
<1>2. CASE proc' = proc
  BY <1>1, <1>2 DEF UniInv, At
<1>3. CASE proc'.op # "ADD" \/ proc'.pc # "uni"
  BY <1>1, <1>3 DEF UniInv, At
<1> QED BY <1>2, <1>3

(* The steps of an interface: each adds its setting, the fourth deletes    *)
(* the route of the kernel, and the last is the default route.             *)
LEMMA BeforeFacts ==
  ASSUME NEW k \in 1..7
  PROVE  /\ Before(1) = {}
         /\ \A j \in 1..6 : Before(j + 1) = Before(j) \cup ({UniSteps[j]} \ {"flush"})
         /\ Before(7) = UniSetting \ {"stray", "default"}
         /\ UniSteps[k] \in UniSetting \cup {"flush"} /\ UniSteps[k] # "stray"
         /\ UniSteps[k] = "default" <=> k = 7
         /\ UniSteps[k] = "flush" <=> k = 4
         /\ UniSteps[k] = "up" <=> k = 3
<1>1. Before(1) = {}
  BY DEF Before
<1>2. \A j \in 1..6 : Before(j + 1) = Before(j) \cup ({UniSteps[j]} \ {"flush"})
  <2> TAKE j \in 1..6
  <2>1. 1 .. (j + 1) - 1 = (1 .. j - 1) \cup {j}
    OBVIOUS
  <2> QED BY <2>1 DEF Before
<1>3. /\ UniSteps[1] = "mtu" /\ UniSteps[2] = "addr" /\ UniSteps[3] = "up" /\ UniSteps[4] = "flush"
      /\ UniSteps[5] = "rp_filter" /\ UniSteps[6] = "gateway" /\ UniSteps[7] = "default"
  BY DEF UniSteps
<1>4. Before(7) = {"mtu", "addr", "up", "rp_filter", "gateway"}
  <2>1. Before(2) = {"mtu"} BY <1>1, <1>2, <1>3, 1 + 1 = 2
  <2>2. Before(3) = {"mtu", "addr"} BY <1>2, <1>3, <2>1, 2 + 1 = 3
  <2>3. Before(4) = {"mtu", "addr", "up"} BY <1>2, <1>3, <2>2, 3 + 1 = 4
  <2>4. Before(5) = {"mtu", "addr", "up"} BY <1>2, <1>3, <2>3, 4 + 1 = 5
  <2>5. Before(6) = {"mtu", "addr", "up", "rp_filter"} BY <1>2, <1>3, <2>4, 5 + 1 = 6
  <2> QED BY <1>2, <1>3, <2>5, 6 + 1 = 7
<1>5. /\ UniSteps[k] \in UniSetting \cup {"flush"} /\ UniSteps[k] # "stray"
      /\ UniSteps[k] = "default" <=> k = 7
      /\ UniSteps[k] = "flush" <=> k = 4
      /\ UniSteps[k] = "up" <=> k = 3
  <2>1. k = 1 \/ k = 2 \/ k = 3 \/ k = 4 \/ k = 5 \/ k = 6 \/ k = 7
    OBVIOUS
  <2> QED BY <1>3, <2>1 DEF UniSetting
<1> QED BY <1>1, <1>2, <1>4, <1>5 DEF UniSetting

LEMMA UniStepKeeps ==
  ASSUME Shape, UniReady, UniInv, UniStep
  PROVE  UniReady' /\ UniInv'
<1> DEFINE u == proc.nic
           k == proc.k
<1>0. ProcShape /\ UniShape
  BY ShapeParts
<1>1. At("ADD", "uni") /\ u \in Uni /\ k \in 1..7
  BY UniStepFacts
<1>2. /\ "default" \notin uni[u] /\ Before(k) \subseteq uni[u]
      /\ (k > 4 /\ u \notin risky => "stray" \notin uni[u])
  BY <1>1 DEF UniInv
<1>3. CASE /\ uni' = [uni EXCEPT ![u] = (IF k = 4 THEN @ \ {"stray"} ELSE @) \cup UniEffect(UniSteps[k])]
           /\ (k = 7 /\ Goto("rp_filter")) \/ (k < 7 /\ Again)
           /\ risky' = risky
  <2>1. uni'[u] = (IF k = 4 THEN uni[u] \ {"stray"} ELSE uni[u]) \cup UniEffect(UniSteps[k])
    BY <1>0, <1>1, <1>3 DEF UniShape
  <2>2. \A v \in Uni \ {u} : uni'[v] = uni[v]
    BY <1>0, <1>3 DEF UniShape
  <2>3. /\ UniEffect(UniSteps[k]) = IF k = 3 THEN {"up", "stray"} ELSE IF k = 4 THEN {} ELSE {UniSteps[k]}
        /\ k # 4 => UniSteps[k] \in UniEffect(UniSteps[k])
    BY <1>1, BeforeFacts DEF UniEffect
  <2>4. CASE k = 7 /\ Goto("rp_filter")
    <3>1. Before(7) = UniSetting \ {"stray", "default"} /\ UniSteps[7] = "default"
      BY <1>1, <2>4, BeforeFacts
    <3>2. uni'[u] = uni[u] \cup {"default"}
      BY <2>1, <2>3, <2>4, <3>1
    <3>3. u \notin risky => uni'[u] = UniSetting \ {"stray"}
      BY <1>0, <1>1, <1>2, <2>4, <3>1, <3>2 DEF UniShape, UniSetting
    <3>4. UniReady'
      BY <1>3, <2>2, <3>3 DEF UniReady
    <3>5. proc'.pc = "rp_filter"
      BY <1>0, <2>4, GotoFacts
    <3> QED BY <3>4, <3>5 DEF UniInv, At
  <2>5. CASE k < 7 /\ Again
    <3>1. proc'.op = "ADD" /\ proc'.pc = "uni" /\ proc'.k = k + 1 /\ proc'.nic = u
      BY <1>0, <1>1, <2>5, AgainFacts DEF At
    <3>2. k \in 1..6
      BY <1>1, <2>5
    <3>3. Before(k + 1) = Before(k) \cup ({UniSteps[k]} \ {"flush"})
      BY <3>2, BeforeFacts
    <3>4. "stray" \notin Before(k) /\ UniSteps[k] # "default"
      <4>1. \A i \in 1..7 : UniSteps[i] # "stray"
        BY BeforeFacts
      <4>2. \A i \in 1 .. k - 1 : i \in 1..7
        BY <3>2
      <4> QED BY <1>1, <2>5, <4>1, <4>2, BeforeFacts DEF Before
    <3>5. Before(k + 1) \subseteq uni'[u]
      BY <1>1, <1>2, <2>1, <2>3, <3>3, <3>4, BeforeFacts
    <3>6. "default" \notin uni'[u]
      BY <1>2, <2>1, <2>3, <3>4
    <3>7. k + 1 > 4 /\ u \notin risky => "stray" \notin uni'[u]
      <4>1. CASE k = 4
        BY <2>1, <2>3, <4>1
      <4>2. CASE k > 4
        BY <1>1, <1>2, <2>1, <2>3, <4>2, BeforeFacts
      <4> QED BY <1>1, <4>1, <4>2
    <3>8. UniInv'
      BY <1>3, <3>1, <3>5, <3>6, <3>7 DEF UniInv
    <3>9. UniReady'
      BY <1>3, <2>2, <3>6 DEF UniReady
    <3> QED BY <3>8, <3>9
  <2> QED BY <1>3, <2>4, <2>5
<1>4. CASE k = 4 /\ risky' = risky \cup {u} /\ Again /\ uni' = uni
  <2>1. proc'.op = "ADD" /\ proc'.pc = "uni" /\ proc'.k = 5 /\ proc'.nic = u
    BY <1>0, <1>1, <1>4, AgainFacts DEF At
  <2>2. Before(5) = Before(4)
    <3>1. Before(4 + 1) = Before(4) \cup ({UniSteps[4]} \ {"flush"}) /\ UniSteps[4] = "flush"
      BY BeforeFacts
    <3> QED BY <3>1, 4 + 1 = 5
  <2>3. UniReady'
    BY <1>4 DEF UniReady
  <2>4. UniInv'
    BY <1>2, <1>4, <2>1, <2>2 DEF UniInv
  <2> QED BY <2>3, <2>4
<1>5. CASE AddFails /\ uni' = uni /\ risky' = risky
  BY <1>5, UniSame, NoProcFacts DEF AddFails
<1> QED BY <1>3, <1>4, <1>5, UniStepFacts

LEMMA UniKeeps ==
  ASSUME Shape, UniReady, UniInv, [Next]_vars
  PROVE  UniReady' /\ UniInv'
<1>0. ProcShape /\ UniShape
  BY ShapeParts
<1>1. CASE UNCHANGED vars
  BY <1>1, UniSame DEF vars, uniVars, history
<1>2. ASSUME NEW s \in Sandbox, StartAdd(s) \/ StartDel(s)
      PROVE  UniReady' /\ UniInv'
  BY <1>2, StartAddFacts, StartDelFacts, UniSame
<1>3. CASE ensureUNIPrimaryIPRoute
  <2>1. uni' = uni /\ risky' = risky /\ proc.nic \in Uni /\ At("ADD", "primary")
    BY <1>3, PrimaryFacts
  <2>2. CASE Goto("uni") /\ "default" \notin uni[proc.nic]
    <3>1. proc'.op = "ADD" /\ proc'.pc = "uni" /\ proc'.k = 1 /\ proc'.nic = proc.nic
      BY <1>0, <2>1, <2>2, GotoFacts DEF At
    <3>2. Before(1) = {}
      BY DEF Before
    <3>3. UniInv'
      BY <2>1, <2>2, <3>1, <3>2 DEF UniInv
    <3> QED BY <2>1, <3>3 DEF UniReady
  <2>3. CASE Goto("rp_filter") \/ AddFails
    BY <1>0, <2>1, <2>3, GotoFacts, NoProcFacts, UniSame DEF AddFails
  <2> QED BY <1>3, <2>2, <2>3, PrimaryFacts
<1>4. CASE UniStep
  BY <1>4, UniStepKeeps
<1>5. CASE initPodNetworking \/ assignFails
  BY <1>0, <1>5, NetworkingFacts, AssignFailsFacts, GotoFacts, NoProcFacts, UniSame DEF AddFails
<1>6. ASSUME NEW ip \in Addr, assignPodIp(ip)
      PROVE  UniReady' /\ UniInv'
  <2>1. uni' = uni /\ risky \subseteq risky' /\ proc'.pc = "veth"
    BY <1>6, AssignFacts
  <2> QED BY <2>1, UniSame
<1>7. CASE \/ checkAndCleanOldVeth \/ setupVethPair \/ addRouteRuleForPodIp \/ ensureDstIPRoutePolicy
           \/ setNodePortRange
  <2>1. uni' = uni /\ risky' = risky
    BY <1>7, CleanFacts, PairFacts, RouteFacts, DstFacts, RangeFacts
  <2>2. \E pc \in PodPc : Goto(pc)
    BY <1>7, CleanFacts, PairFacts, RouteFacts, DstFacts, RangeFacts DEF PodPc
  <2> QED BY <1>0, <2>1, <2>2, GotoFacts, UniSame DEF PodPc
<1>8. CASE PodSrcRule
  <2>1. uni' = uni /\ risky \subseteq risky' /\ (Goto("range") \/ Goto("rollback"))
    BY <1>8, SrcFacts
  <2> QED BY <1>0, <2>1, GotoFacts, UniSame
<1>9. CASE rollbackReleaseIP \/ addPodNetworkRecord
  BY <1>0, <1>9, RollbackFacts, RecordFacts, GotoFacts, NoProcFacts, UniSame DEF AddFails
<1>10. CASE portmapCmdAdd
  <2>1. uni' = uni /\ risky' = risky /\ At("ADD", "portmap")
    BY <1>10, PortFacts
  <2>2. proc'.op = "none" \/ proc'.pc = "portmap"
    BY <1>0, <1>10, <2>1, PortFacts, AgainFacts, NoProcFacts DEF AddFails, AddOK, At
  <2> QED BY <2>1, <2>2, UniSame
<1>11. CASE DelStep
  <2>1. uni' = uni /\ risky' = risky /\ proc.op = "DEL"
    BY <1>11, GetFacts, RulesFacts, ReleaseFacts, DelRecordFacts, TeardownFacts, IfaceFacts
       DEF DelStep, Teardown, At
  <2>2. proc'.op # "ADD"
    BY <1>0, <1>11, <2>1, GetFacts, RulesFacts, ReleaseFacts, DelRecordFacts, TeardownFacts, IfaceFacts,
       GotoFacts, NoProcFacts DEF DelStep, Teardown, DelFails, DelOK
  <2> QED BY <2>1, <2>2, UniSame
<1>12. CASE Kill
  BY <1>12, KillFacts, NoProcFacts, UniSame DEF AddFails, DelFails
<1>13. CASE Reboot
  <2>1. proc' = NoProc /\ \A u \in Uni : uni'[u] = {}
    BY <1>13, RebootFacts
  <2> QED BY <2>1, NoProcFacts DEF UniReady, UniInv, At
<1>14. CASE KubeProxyStarts
  BY <1>14, ProxyFacts, UniSame
<1>15. ASSUME NEW s \in Sandbox, ReconcileDelete(s) \/ RemoveNetns(s)
       PROVE  UniReady' /\ UniInv'
  BY <1>15, ReconcileFacts, NetnsFacts, UniSame
<1> QED BY <1>1, <1>2, <1>3, <1>4, <1>5, <1>6, <1>7, <1>8, <1>9, <1>10, <1>11, <1>12, <1>13, <1>14,
           <1>15 DEF Next, AddStep

----------------------------------------------------------------------------
(* Links and routes.                                                       *)

LEMMA LinkOthers ==
  ASSUME Shape,
         \/ ensureUNIPrimaryIPRoute \/ UniStep \/ initPodNetworking \/ assignFails
         \/ \E ip \in Addr : assignPodIp(ip)
         \/ ensureDstIPRoutePolicy \/ PodSrcRule \/ setNodePortRange \/ rollbackReleaseIP
         \/ addPodNetworkRecord \/ portmapCmdAdd
         \/ getPodNetworkRecord \/ cleanUpIPRoutePolicy \/ releasePodIp \/ delPodNetworkRecord \/ Teardown
         \/ Kill \/ KubeProxyStarts \/ UNCHANGED vars
         \/ \E s \in Sandbox : StartAdd(s) \/ StartDel(s) \/ ReconcileDelete(s)
  PROVE  UNCHANGED <<net, veth, route>>
BY PrimaryFacts, UniStepFacts, NetworkingFacts, AssignFailsFacts, AssignFacts, DstFacts, SrcFacts,
   RangeFacts, RollbackFacts, RecordFacts, PortFacts, GetFacts, RulesFacts, ReleaseFacts, DelRecordFacts,
   TeardownFacts, KillFacts, ProxyFacts, StartAddFacts, StartDelFacts, ReconcileFacts DEF vars, linkVars

LEMMA LinkKeeps ==
  ASSUME Shape, VethInv, RouteInv, AddLink, [Next]_vars
  PROVE  VethInv' /\ RouteInv'
<1>0. ProcShape /\ LinkShape
  BY ShapeParts
<1> DEFINE Here == proc.op = "ADD" /\ proc.pc \in PodPc
<1>1. ASSUME Here PROVE proc.sb \in Sandbox /\ ThisPod \in Pod /\ ThisPod = PodOf[proc.sb] /\ proc.ip \in Addr
  BY <1>0, <1>1, Consts DEF ProcShape, ThisPod
<1>2. CASE UNCHANGED <<net, veth, route>>
  BY <1>2 DEF VethInv, RouteInv
<1>3. CASE checkAndCleanOldVeth
  <2>1. Here
    BY <1>3, CleanFacts DEF At, PodPc
  <2>2. CASE LinkDel(ThisPod)
    BY <1>0, <1>1, <2>1, <2>2, LinkDelFacts
  <2> QED BY <1>2, <1>3, <2>2, CleanFacts
<1>4. CASE setupVethPair
  <2>1. Here /\ At("ADD", "pair")
    BY <1>4, PairFacts DEF At, PodPc
  <2>2. PICK s \in Sandbox, p \in Pod : s = proc.sb /\ p = ThisPod /\ p = PodOf[s]
    BY <1>1, <2>1
  <2>3. veth[p] = None
    BY <2>1, <2>2 DEF AddLink, Past, At
  <2>4. CASE UNCHANGED <<veth, net>>
    BY <1>2, <1>4, <2>4, PairFacts
  <2>5. CASE veth' = [veth EXCEPT ![p] = s] /\ (net' = net \/ net' = [net EXCEPT ![s] = proc.ip])
    <3>1. VethInv'
      BY <1>0, <2>2, <2>5 DEF VethInv, LinkShape
    <3>2. RouteInv'
      <4> SUFFICES ASSUME NEW a \in Addr, route[a] # None
                   PROVE  veth'[route[a]] # None /\ net'[veth'[route[a]]] = a
        BY <1>4, PairFacts DEF RouteInv
      <4>1. PICK q \in Pod : q = route[a] /\ veth[q] # None /\ net[veth[q]] = a
        BY <1>0 DEF LinkShape, RouteInv
      <4>2. q # p /\ veth'[q] = veth[q]
        BY <1>0, <2>3, <2>5, <4>1 DEF LinkShape
      <4>3. veth[q] \in Sandbox \ {s}
        BY <1>0, <2>2, <4>1, <4>2 DEF LinkShape, VethInv
      <4>4. net'[veth[q]] = net[veth[q]]
        BY <1>0, <2>5, <4>3 DEF LinkShape
      <4> QED BY <4>1, <4>2, <4>4
    <3> QED BY <3>1, <3>2
  <2> QED BY <1>4, <2>2, <2>4, <2>5, PairFacts
<1>5. CASE addRouteRuleForPodIp
  <2>1. Here /\ At("ADD", "route")
    BY <1>5, RouteFacts DEF At, PodPc
  <2>2. veth[ThisPod] = proc.sb /\ net[proc.sb] = proc.ip
    BY <2>1 DEF AddLink, Past, At
  <2>3. CASE route' = route
    BY <1>2, <1>5, <2>3, RouteFacts
  <2>4. CASE route' = [route EXCEPT ![proc.ip] = ThisPod]
    <3>1. UNCHANGED <<net, veth>>
      BY <1>5, RouteFacts
    <3>2. VethInv'
      BY <3>1 DEF VethInv
    <3>3. RouteInv'
      BY <1>0, <1>1, <2>1, <2>2, <2>4, <3>1, Consts DEF RouteInv, LinkShape
    <3> QED BY <3>2, <3>3
  <2> QED BY <1>5, <2>3, <2>4, RouteFacts
<1>6. CASE DelInterface
  <2>1. proc.sb \in Sandbox
    BY <1>0, <1>6, IfaceFacts DEF ProcShape, At
  <2> QED BY <1>0, <1>2, <1>6, <2>1, IfaceFacts, DropFacts
<1>7. ASSUME NEW s \in Sandbox, RemoveNetns(s) PROVE VethInv' /\ RouteInv'
  BY <1>0, <1>7, NetnsFacts, DropFacts
<1>8. CASE Reboot
  BY <1>8, RebootFacts DEF VethInv, RouteInv
<1> QED BY <1>2, <1>3, <1>4, <1>5, <1>6, <1>7, <1>8, LinkOthers DEF Next, AddStep, DelStep, Teardown

----------------------------------------------------------------------------
(* Who refers to an address.                                               *)

LEMMA AloneShrinks ==
  ASSUME Alone, risky \subseteq risky',
         \A r \in Sandbox : own'[r] \in {own[r], None},
         \A r \in Sandbox : net'[r] \in {net[r], None},
         \A r \in Sandbox : rec'[r] \in {rec[r], None}
  PROVE  OwnOne' /\ OwnAlone'
<1>1. OwnOne'
  BY DEF Alone, OwnOne
<1>2. OwnAlone'
  BY DEF Alone, OwnAlone
<1> QED BY <1>1, <1>2

(* A DEL that has found its address keeps it until the release.            *)
LEMMA DelAloneKept ==
  ASSUME Alone, risky \subseteq risky', \A r \in Sandbox : own'[r] \in {own[r], None},
         \/ proc'.op # "DEL" \/ proc'.pc \notin {"rules", "release"}
         \/ /\ At("DEL", "rules") \/ At("DEL", "release")
            /\ proc'.sb = proc.sb /\ proc'.ip = proc.ip /\ proc'.ip # None
  PROVE  DelAlone'
BY DEF Alone, DelAlone, At

LEMMA AloneAssign ==
  ASSUME Shape, Alone, NEW ip \in Addr, assignPodIp(ip)
  PROVE  Alone'
<1>0. ProcShape /\ BookShape
  BY ShapeParts
<1>1. /\ At("ADD", "assign") /\ (\A r \in Sandbox : own[r] # ip) /\ own' = [own EXCEPT ![proc.sb] = ip]
      /\ UNCHANGED <<rec, net>>
  BY AssignFacts
<1>2. risky \subseteq risky' /\ (Loose(ip) => ip \in risky') /\ proc'.op = "ADD"
  BY AssignFacts
<1>3. PICK s \in Sandbox : s = proc.sb
  BY <1>0, <1>1 DEF ProcShape, At
<1>4. own'[s] = ip /\ \A r \in Sandbox \ {s} : own'[r] = own[r]
  BY <1>0, <1>1, <1>3 DEF BookShape
<1>5. OwnOne'
  BY <1>1, <1>4 DEF Alone, OwnOne
<1>6. OwnAlone'
  <2> SUFFICES ASSUME NEW r \in Sandbox, NEW t \in Sandbox, own'[t] # None, own'[t] \notin risky', r # t
               PROVE  net[r] # own'[t] /\ rec[r] # own'[t]
    BY <1>1 DEF OwnAlone
  <2>1. CASE t = s
    BY <1>1, <1>2, <1>4, <2>1 DEF Loose
  <2>2. CASE t # s
    BY <1>2, <1>4, <2>2 DEF Alone, OwnAlone
  <2> QED BY <2>1, <2>2
<1>7. DelAlone'
  BY <1>2 DEF DelAlone, At
<1> QED BY <1>5, <1>6, <1>7 DEF Alone

(* The address that an ADD writes into its sandbox or its record is its    *)
(* own.                                                                    *)
LEMMA AloneWrite ==
  ASSUME Shape, Alone, proc.op = "ADD", proc.pc \in PodPc, own' = own, risky' = risky,
         proc'.op \in {"none", "ADD"},
         net' = net \/ net' = [net EXCEPT ![proc.sb] = proc.ip],
         rec' = rec \/ rec' = [rec EXCEPT ![proc.sb] = proc.ip]
  PROVE  Alone'
<1>0. ProcShape /\ BookShape /\ LinkShape
  BY ShapeParts
<1>1. PICK s \in Sandbox : s = proc.sb /\ own[s] = proc.ip /\ proc.ip \in Addr
  BY <1>0 DEF ProcShape
<1>2. \A r \in Sandbox : /\ net'[r] = net[r] \/ (r = s /\ net'[r] = own[s])
                         /\ rec'[r] = rec[r] \/ (r = s /\ rec'[r] = own[s])
  BY <1>0, <1>1 DEF BookShape, LinkShape
<1>3. OwnOne'
  BY DEF Alone, OwnOne
<1>4. OwnAlone'
  <2> SUFFICES ASSUME NEW r \in Sandbox, NEW t \in Sandbox, own[t] # None, own[t] \notin risky, r # t
               PROVE  net'[r] # own[t] /\ rec'[r] # own[t]
    BY DEF OwnAlone
  <2>1. net[r] # own[t] /\ rec[r] # own[t]
    BY DEF Alone, OwnAlone
  <2>2. r = s => own[s] # own[t]
    BY DEF Alone, OwnOne
  <2> QED BY <1>2, <2>1, <2>2
<1>5. DelAlone'
  BY DEF DelAlone, At
<1> QED BY <1>3, <1>4, <1>5 DEF Alone

(* Every other step only forgets.                                          *)
LEMMA AloneForget ==
  ASSUME Shape, VethInv, RouteInv,
         \/ ensureUNIPrimaryIPRoute \/ UniStep \/ initPodNetworking \/ assignFails
         \/ checkAndCleanOldVeth \/ addRouteRuleForPodIp
         \/ ensureDstIPRoutePolicy \/ PodSrcRule \/ setNodePortRange \/ rollbackReleaseIP
         \/ portmapCmdAdd \/ DelStep
         \/ Kill \/ KubeProxyStarts \/ Reboot
         \/ \E s \in Sandbox : StartAdd(s) \/ StartDel(s) \/ ReconcileDelete(s) \/ RemoveNetns(s)
  PROVE  /\ risky \subseteq risky'
         /\ \A r \in Sandbox : own'[r] \in {own[r], None}
         /\ \A r \in Sandbox : net'[r] \in {net[r], None}
         /\ \A r \in Sandbox : rec'[r] \in {rec[r], None}
<1>0. ProcShape /\ BookShape /\ LinkShape
  BY ShapeParts
<1>1. CASE \/ ensureUNIPrimaryIPRoute \/ UniStep \/ initPodNetworking \/ assignFails
           \/ addRouteRuleForPodIp \/ ensureDstIPRoutePolicy \/ PodSrcRule \/ setNodePortRange
           \/ portmapCmdAdd \/ Kill \/ KubeProxyStarts
           \/ \E s \in Sandbox : StartAdd(s) \/ StartDel(s)
           \/ getPodNetworkRecord \/ cleanUpIPRoutePolicy \/ Teardown
  <2>1. UNCHANGED <<own, net, rec>> /\ risky \subseteq risky'
    BY <1>1, PrimaryFacts, UniStepFacts, NetworkingFacts, AssignFailsFacts, RouteFacts, DstFacts, SrcFacts,
       RangeFacts, PortFacts, KillFacts, ProxyFacts, StartAddFacts, StartDelFacts, GetFacts, RulesFacts,
       TeardownFacts
  <2> QED BY <2>1
<1>2. CASE checkAndCleanOldVeth
  <2>1. ThisPod \in Pod
    BY <1>0, <1>2, CleanFacts, Consts DEF ProcShape, At, ThisPod
  <2>2. UNCHANGED <<own, rec, risky>> /\ (LinkDel(ThisPod) \/ net' = net)
    BY <1>2, CleanFacts
  <2> QED BY <1>0, <2>1, <2>2, LinkDelFacts
<1>3. CASE rollbackReleaseIP \/ releasePodIp \/ delPodNetworkRecord
  BY <1>0, <1>3, RollbackFacts, ReleaseFacts, DelRecordFacts DEF BookShape
<1>4. CASE DelInterface
  <2>1. proc.sb \in Sandbox
    BY <1>0, <1>4, IfaceFacts DEF ProcShape, At
  <2>2. UNCHANGED <<own, rec, risky>> /\ (DropLinks(proc.sb) \/ net' = net)
    BY <1>4, IfaceFacts
  <2> QED BY <1>0, <2>1, <2>2, DropFacts
<1>5. CASE Reboot
  BY <1>5, RebootFacts
<1>6. ASSUME NEW s \in Sandbox, ReconcileDelete(s)
      PROVE  /\ risky \subseteq risky'
             /\ \A r \in Sandbox : own'[r] \in {own[r], None}
             /\ \A r \in Sandbox : net'[r] \in {net[r], None}
             /\ \A r \in Sandbox : rec'[r] \in {rec[r], None}
  BY <1>0, <1>6, ReconcileFacts DEF BookShape
<1>7. ASSUME NEW s \in Sandbox, RemoveNetns(s)
      PROVE  /\ risky \subseteq risky'
             /\ \A r \in Sandbox : own'[r] \in {own[r], None}
             /\ \A r \in Sandbox : net'[r] \in {net[r], None}
             /\ \A r \in Sandbox : rec'[r] \in {rec[r], None}
  <2>1. UNCHANGED <<own, rec, risky>> /\ DropLinks(s)
    BY <1>7, NetnsFacts
  <2> QED BY <1>0, <2>1, DropFacts
<1> QED BY <1>1, <1>2, <1>3, <1>4, <1>5, <1>6, <1>7 DEF DelStep, Teardown

(* What an ADD does to its process: it goes on or ends.                    *)
LEMMA AddStays ==
  ASSUME Shape, AddStep
  PROVE  proc.op = "ADD" /\ proc.pc \in UniPc \cup PodPc /\ proc'.op \in {"none", "ADD"}
<1>0. ProcShape
  BY ShapeParts
<1>1. CASE \/ ensureUNIPrimaryIPRoute \/ UniStep \/ initPodNetworking \/ assignFails
           \/ \E ip \in Addr : assignPodIp(ip)
  BY <1>0, <1>1, PrimaryFacts, UniStepFacts, NetworkingFacts, AssignFailsFacts, AssignFacts, GotoFacts,
     AgainFacts, NoProcFacts DEF AddFails, At, UniPc
<1>2. CASE \/ checkAndCleanOldVeth \/ setupVethPair \/ addRouteRuleForPodIp \/ ensureDstIPRoutePolicy
           \/ PodSrcRule \/ setNodePortRange
  BY <1>0, <1>2, CleanFacts, PairFacts, RouteFacts, DstFacts, SrcFacts, RangeFacts, GotoFacts DEF At, PodPc
<1>3. CASE rollbackReleaseIP \/ addPodNetworkRecord \/ portmapCmdAdd
  BY <1>0, <1>3, RollbackFacts, RecordFacts, PortFacts, GotoFacts, AgainFacts, NoProcFacts
     DEF AddFails, AddOK, At, PodPc
<1> QED BY <1>1, <1>2, <1>3 DEF AddStep

LEMMA AloneKeeps ==
  ASSUME Shape, VethInv, RouteInv, Alone, [Next]_vars
  PROVE  Alone'
<1>0. ProcShape /\ BookShape
  BY ShapeParts
<1>1. CASE UNCHANGED vars
  BY <1>1 DEF vars, kubeVars, linkVars, history, Alone, OwnOne, OwnAlone, DelAlone, At
<1>2. ASSUME NEW ip \in Addr, assignPodIp(ip) PROVE Alone'
  BY <1>2, AloneAssign
<1>3. CASE setupVethPair
  <2>1. /\ proc.op = "ADD" /\ proc.pc \in PodPc /\ own' = own /\ risky' = risky /\ rec' = rec
        /\ net' = net \/ net' = [net EXCEPT ![proc.sb] = proc.ip]
    BY <1>3, PairFacts DEF At, PodPc
  <2>2. proc'.op \in {"none", "ADD"}
    BY <1>3, AddStays DEF AddStep
  <2> QED BY <2>1, <2>2, AloneWrite
<1>4. CASE addPodNetworkRecord
  <2>1. /\ proc.op = "ADD" /\ proc.pc \in PodPc /\ own' = own /\ risky' = risky /\ net' = net
        /\ rec' = rec \/ rec' = [rec EXCEPT ![proc.sb] = proc.ip]
    BY <1>4, RecordFacts DEF At, PodPc
  <2>2. proc'.op \in {"none", "ADD"}
    BY <1>4, AddStays DEF AddStep
  <2> QED BY <2>1, <2>2, AloneWrite
<1>5. CASE \/ ensureUNIPrimaryIPRoute \/ UniStep \/ initPodNetworking \/ assignFails
           \/ checkAndCleanOldVeth \/ addRouteRuleForPodIp
           \/ ensureDstIPRoutePolicy \/ PodSrcRule \/ setNodePortRange \/ rollbackReleaseIP \/ portmapCmdAdd
  <2>1. proc'.op # "DEL"
    BY <1>5, AddStays DEF AddStep
  <2> QED BY <1>5, <2>1, AloneForget, AloneShrinks, DelAloneKept DEF Alone
<1>6. CASE getPodNetworkRecord
  <2>1. OwnOne' /\ OwnAlone' /\ own' = own /\ risky' = risky
    BY <1>6, AloneForget, AloneShrinks, GetFacts DEF DelStep
  <2>2. CASE /\ rec[proc.sb] # None
             /\ proc' = [op |-> "DEL", sb |-> proc.sb, pc |-> "rules", k |-> proc.k,
                         ip |-> rec[proc.sb], nic |-> proc.nic]
    <3>1. proc.sb \in Sandbox
      BY <1>0, <1>6, GetFacts DEF ProcShape, At
    <3>2. DelAlone'
      BY <2>1, <2>2, <3>1 DEF Alone, OwnAlone, DelAlone, At
    <3> QED BY <2>1, <3>2 DEF Alone
  <2>3. CASE Goto("portmap") \/ DelOK
    <3>1. proc'.pc \notin {"rules", "release"}
      BY <1>0, <2>3, GotoFacts, NoProcFacts DEF DelOK
    <3> QED BY <2>1, <3>1, DelAloneKept DEF Alone
  <2> QED BY <1>6, <2>2, <2>3, GetFacts
<1>7. CASE cleanUpIPRoutePolicy
  <2>1. OwnOne' /\ OwnAlone' /\ own' = own /\ risky' = risky /\ At("DEL", "rules") /\ proc.ip \in Addr
    BY <1>7, AloneForget, AloneShrinks, RulesFacts DEF DelStep
  <2>2. CASE Goto("release")
    BY <1>0, <2>1, <2>2, GotoFacts, DelAloneKept, Consts DEF Alone
  <2>3. CASE DelFails
    BY <2>1, <2>3, NoProcFacts, DelAloneKept DEF Alone, DelFails
  <2> QED BY <1>7, <2>2, <2>3, RulesFacts
<1>8. CASE releasePodIp \/ delPodNetworkRecord \/ Teardown \/ DelInterface
  <2>1. /\ OwnOne' /\ OwnAlone' /\ risky \subseteq risky'
        /\ \A r \in Sandbox : own'[r] \in {own[r], None}
    BY <1>8, AloneForget, AloneShrinks DEF DelStep, Teardown
  <2>2. proc'.op # "DEL" \/ proc'.pc \notin {"rules", "release"}
    BY <1>0, <1>8, ReleaseFacts, DelRecordFacts, TeardownFacts, IfaceFacts, GotoFacts, NoProcFacts
       DEF DelFails, DelOK
  <2> QED BY <2>1, <2>2, DelAloneKept DEF Alone
<1>9. CASE Kill \/ Reboot \/ \E s \in Sandbox : StartAdd(s) \/ StartDel(s)
  <2>1. /\ OwnOne' /\ OwnAlone' /\ risky \subseteq risky'
        /\ \A r \in Sandbox : own'[r] \in {own[r], None}
    BY <1>9, AloneForget, AloneShrinks
  <2>2. proc'.op # "DEL" \/ proc'.pc \notin {"rules", "release"}
    BY <1>9, KillFacts, RebootFacts, StartAddFacts, StartDelFacts, NoProcFacts DEF AddFails, DelFails
  <2> QED BY <2>1, <2>2, DelAloneKept DEF Alone
<1>10. CASE KubeProxyStarts \/ \E s \in Sandbox : ReconcileDelete(s) \/ RemoveNetns(s)
  <2>1. /\ OwnOne' /\ OwnAlone' /\ risky \subseteq risky'
        /\ \A r \in Sandbox : own'[r] \in {own[r], None}
    BY <1>10, AloneForget, AloneShrinks
  <2>2. proc' = proc
    BY <1>10, ProxyFacts, ReconcileFacts, NetnsFacts
  <2>3. At("DEL", "rules") \/ At("DEL", "release") => proc.ip # None
    BY <1>0, Consts DEF ProcShape, At
  <2> QED BY <2>1, <2>2, <2>3, DelAloneKept DEF Alone, At
<1> QED BY <1>1, <1>2, <1>3, <1>4, <1>5, <1>6, <1>7, <1>8, <1>9, <1>10 DEF Next, AddStep, DelStep, Teardown

----------------------------------------------------------------------------
(* The progress of an ADD.                                                 *)

LEMMA NoAdd ==
  ASSUME proc'.op # "ADD"
  PROVE  AddUni' /\ AddLink' /\ AddRule'
BY DEF AddUni, AddLink, AddRule, Past

(* What happens beside an ADD does not touch what it has set up: a network *)
(* namespace that goes is another one.                                     *)
LEMMA AddBeside ==
  ASSUME Shape, VethInv, RouteInv, AddUni, AddLink, AddRule,
         \/ UNCHANGED vars \/ KubeProxyStarts
         \/ \E s \in Sandbox : ReconcileDelete(s) \/ RemoveNetns(s)
  PROVE  AddUni' /\ AddLink' /\ AddRule'
<1>0. ProcShape /\ LinkShape
  BY ShapeParts
<1>1. UNCHANGED <<dst, src, uni, shared, proc, risky>>
  BY ProxyFacts, ReconcileFacts, NetnsFacts DEF vars, ruleVars, uniVars, history
<1>2. AddUni' /\ AddRule'
  BY <1>1 DEF AddUni, AddRule, Past
<1>3. CASE UNCHANGED <<net, veth, route>>
  BY <1>1, <1>2, <1>3 DEF AddLink, Past, ThisPod
<1>4. ASSUME NEW s \in Sandbox, RemoveNetns(s) PROVE AddLink'
  <2>1. CASE proc.op = "ADD"
    <3>1. PICK r \in Sandbox : r = proc.sb /\ sb[r] = "adding"
      BY <1>0, <2>1 DEF ProcShape
    <3>2. r # s /\ PodOf[r] \in Pod /\ ThisPod = PodOf[r] /\ None \notin Sandbox
      BY <1>4, <3>1, NetnsFacts, Consts DEF ThisPod
    <3>3. DropLinks(s)
      BY <1>4, NetnsFacts
    <3>4. /\ net'[r] = net[r]
          /\ veth[ThisPod] \in {None, r} => veth'[ThisPod] = veth[ThisPod]
          /\ \A a \in Addr : route[a] = ThisPod /\ veth[ThisPod] = r => route'[a] = ThisPod
      BY <1>0, <3>2, <3>3, DropFacts
    <3>5. Past(RoutedPc) => proc.ip \in Addr
      BY <1>0 DEF ProcShape, Past, RoutedPc, PodPc
    <3>6. ThisPod' = ThisPod /\ \A S : Past(S)' <=> Past(S)
      BY <1>1 DEF ThisPod, Past
    <3>7. Past(RoutedPc) => Past({"route"} \cup RoutedPc)
      BY DEF Past
    <3> QED BY <1>1, <3>1, <3>4, <3>5, <3>6, <3>7 DEF AddLink
  <2>2. CASE proc.op # "ADD"
    BY <1>1, <2>2, NoAdd
  <2> QED BY <2>1, <2>2
<1>5. CASE UNCHANGED vars \/ KubeProxyStarts \/ \E s \in Sandbox : ReconcileDelete(s)
  BY <1>2, <1>3, <1>5, LinkOthers
<1> QED BY <1>2, <1>4, <1>5

LEMMA AddUniKept ==
  ASSUME AddUni, proc.op = "ADD", proc.pc \in {"assign"} \cup PodPc,
         proc'.nic = proc.nic \/ proc'.nic = Master,
         proc.nic # Master => src'[proc.nic] = src[proc.nic],
         uni' = uni, shared' = shared
  PROVE  AddUni'
<1>1. proc.nic # Master =>
        /\ src[proc.nic] = <<proc.nic>> /\ "default" \in uni[proc.nic]
        /\ "rp_filter" \in shared /\ "connmark" \in shared
  BY DEF AddUni, Past, UniPc, PodPc
<1> QED BY <1>1 DEF AddUni

LEMMA AddUniKeeps ==
  ASSUME Shape, AddUni, AddStep
  PROVE  AddUni'
<1>0. ProcShape /\ RuleShape /\ UniShape
  BY ShapeParts
<1>1. CASE AddFails \/ AddOK
  BY <1>1, NoAdd, NoProcFacts DEF AddFails, AddOK
<1>2. CASE ensureUNIPrimaryIPRoute
  <2>1. CASE Goto("rp_filter") /\ "default" \in uni[proc.nic]
             /\ src' = [src EXCEPT ![proc.nic] = <<proc.nic>>]
    <3>1. uni' = uni /\ proc.nic \in Uni
      BY <1>2, PrimaryFacts
    <3>2. src'[proc.nic] = <<proc.nic>>
      BY <1>0, <2>1, <3>1 DEF RuleShape
    <3>3. proc'.pc = "rp_filter" /\ proc'.nic = proc.nic
      BY <1>0, <2>1, GotoFacts
    <3> QED BY <2>1, <3>1, <3>2, <3>3 DEF AddUni, Past, UniPc, PodPc
  <2>2. CASE Goto("uni") /\ src' = [src EXCEPT ![proc.nic] = <<proc.nic>>]
    <3>1. proc.nic \in Uni
      BY <1>2, PrimaryFacts
    <3>2. src'[proc.nic] = <<proc.nic>>
      BY <1>0, <2>2, <3>1 DEF RuleShape
    <3>3. proc'.pc = "uni" /\ proc'.nic = proc.nic
      BY <1>0, <2>2, GotoFacts
    <3> QED BY <2>2, <3>1, <3>2, <3>3 DEF AddUni, Past, UniPc, PodPc
  <2> QED BY <1>1, <1>2, <2>1, <2>2, PrimaryFacts
<1>3. CASE UniStep
  <2>1. At("ADD", "uni") /\ proc.nic \in Uni /\ proc.nic # Master /\ src' = src
    BY <1>3, UniStepFacts, Consts
  <2>2. src'[proc.nic] = <<proc.nic>>
    BY <2>1 DEF AddUni, Past, At, UniPc, PodPc
  <2>3. CASE Again
    <3>1. proc'.pc = "uni" /\ proc'.nic = proc.nic
      BY <1>0, <2>1, <2>3, AgainFacts DEF At
    <3> QED BY <2>2, <3>1 DEF AddUni, Past, UniPc, PodPc
  <2>4. CASE /\ proc.k = 7 /\ Goto("rp_filter")
             /\ uni' = [uni EXCEPT ![proc.nic] =
                          (IF proc.k = 4 THEN @ \ {"stray"} ELSE @) \cup UniEffect(UniSteps[proc.k])]
    <3>1. UniSteps[7] = "default"
      BY DEF UniSteps
    <3>2. "default" \in UniEffect(UniSteps[7])
      BY <3>1 DEF UniEffect
    <3>3. "default" \in uni'[proc.nic]
      BY <1>0, <2>1, <2>4, <3>2 DEF UniShape
    <3>4. proc'.pc = "rp_filter" /\ proc'.nic = proc.nic
      BY <1>0, <2>4, GotoFacts
    <3> QED BY <2>2, <3>3, <3>4 DEF AddUni, Past, UniPc, PodPc
  <2> QED BY <1>1, <1>3, <2>3, <2>4, UniStepFacts
<1>4. CASE initPodNetworking
  <2>1. UNCHANGED <<src, uni>> /\ proc.op = "ADD" /\ proc.pc \in {"rp_filter", "connmark"}
    BY <1>4, NetworkingFacts DEF At
  <2>2. proc.nic # Master => src[proc.nic] = <<proc.nic>> /\ "default" \in uni[proc.nic]
    BY <2>1 DEF AddUni, Past, UniPc, PodPc
  <2>3. CASE proc.pc = "rp_filter" /\ shared' = shared \cup {"rp_filter"} /\ Goto("connmark")
    <3>1. proc'.pc = "connmark" /\ proc'.nic = proc.nic
      BY <1>0, <2>3, GotoFacts
    <3> QED BY <2>1, <2>2, <2>3, <3>1 DEF AddUni, Past, UniPc, PodPc
  <2>4. CASE proc.pc = "connmark" /\ shared' = shared \cup {"connmark"} /\ Goto("assign")
    <3>1. proc'.pc = "assign" /\ proc'.nic = proc.nic
      BY <1>0, <2>4, GotoFacts
    <3>2. proc.nic # Master => "rp_filter" \in shared
      BY <2>1, <2>4 DEF AddUni, Past, UniPc, PodPc
    <3> QED BY <2>1, <2>2, <2>4, <3>1, <3>2 DEF AddUni, Past, UniPc, PodPc
  <2> QED BY <1>1, <1>4, <2>3, <2>4, NetworkingFacts DEF At
<1>5. CASE assignFails \/ rollbackReleaseIP
  BY <1>1, <1>5, AssignFailsFacts, RollbackFacts
<1>6. ASSUME NEW ip \in Addr, assignPodIp(ip) PROVE AddUni'
  BY <1>6, AssignFacts, AddUniKept DEF At
<1>7. CASE \/ checkAndCleanOldVeth \/ setupVethPair \/ addRouteRuleForPodIp \/ ensureDstIPRoutePolicy
           \/ setNodePortRange
  <2>1. /\ UNCHANGED <<src, uni, shared>> /\ proc.op = "ADD" /\ proc.pc \in PodPc
        /\ \E pc \in PodPc : Goto(pc)
    BY <1>7, CleanFacts, PairFacts, RouteFacts, DstFacts, RangeFacts DEF At, PodPc
  <2> QED BY <1>0, <2>1, GotoFacts, AddUniKept
<1>8. CASE PodSrcRule
  <2>1. /\ UNCHANGED <<uni, shared>> /\ proc.op = "ADD" /\ proc.pc \in PodPc
        /\ proc.ip \in Addr /\ proc.nic \in Uni
        /\ Goto("range") \/ Goto("rollback")
        /\ \E t \in Seq(Uni) : src' = [src EXCEPT ![proc.ip] = t]
    BY <1>8, SrcFacts DEF At, PodPc
  <2>2. src'[proc.nic] = src[proc.nic]
    BY <1>0, <2>1, Consts DEF RuleShape
  <2>3. proc'.nic = proc.nic
    BY <1>0, <2>1, GotoFacts
  <2> QED BY <2>1, <2>2, <2>3, AddUniKept
<1>9. CASE addPodNetworkRecord \/ portmapCmdAdd
  <2>1. /\ UNCHANGED <<src, uni, shared>> /\ proc.op = "ADD" /\ proc.pc \in PodPc
        /\ Goto("portmap") \/ Again \/ AddFails \/ AddOK
    BY <1>9, RecordFacts, PortFacts DEF At, PodPc
  <2>2. CASE Goto("portmap") \/ Again
    BY <1>0, <2>1, <2>2, GotoFacts, AgainFacts, AddUniKept
  <2> QED BY <1>1, <2>1, <2>2
<1> QED BY <1>2, <1>3, <1>4, <1>5, <1>6, <1>7, <1>8, <1>9 DEF AddStep

(* Commands that change neither links nor rules, and end a phase or not.   *)
LEMMA AddLinkKept ==
  ASSUME ProcShape, AddLink, risky \subseteq risky', UNCHANGED <<net, veth, route>>, NEW pc,
         Goto(pc), proc.op = "ADD", proc.pc \in RoutedPc, pc \in RoutedPc \cup {"rollback"}
  PROVE  AddLink'
<1>1. proc'.pc = pc /\ proc'.op = "ADD" /\ proc'.sb = proc.sb /\ proc'.ip = proc.ip /\ ThisPod' = ThisPod
  BY GotoFacts DEF ThisPod
<1>2. /\ veth[ThisPod] = proc.sb /\ net[proc.sb] = proc.ip
      /\ proc.ip \notin risky => route[proc.ip] = ThisPod
  BY DEF AddLink, Past
<1> QED BY <1>1, <1>2 DEF AddLink, Past, RoutedPc

LEMMA AddLinkKeeps ==
  ASSUME Shape, VethInv, RouteInv, Alone, AddLink, AddStep
  PROVE  AddLink'
<1>0. ProcShape /\ LinkShape /\ BookShape
  BY ShapeParts
<1>1. CASE AddFails \/ AddOK
  BY <1>1, NoAdd, NoProcFacts DEF AddFails, AddOK
<1>2. ASSUME NEW pc, Goto(pc), pc \notin {"pair", "route"} \cup RoutedPc PROVE AddLink'
  <2>1. proc'.pc = pc
    BY <1>0, <1>2, GotoFacts
  <2> QED BY <1>2, <2>1 DEF AddLink, Past
<1>3. CASE ensureUNIPrimaryIPRoute \/ initPodNetworking \/ assignFails \/ rollbackReleaseIP
  BY <1>1, <1>2, <1>3, PrimaryFacts, NetworkingFacts, AssignFailsFacts, RollbackFacts DEF RoutedPc
<1>4. CASE UniStep
  <2>1. CASE Again
    <3>1. proc'.pc = "uni"
      BY <1>0, <1>4, <2>1, UniStepFacts, AgainFacts DEF At
    <3> QED BY <3>1 DEF AddLink, Past, RoutedPc
  <2> QED BY <1>1, <1>2, <1>4, <2>1, UniStepFacts DEF RoutedPc
<1>5. ASSUME NEW ip \in Addr, assignPodIp(ip) PROVE AddLink'
  <2>1. proc'.pc = "veth"
    BY <1>5, AssignFacts
  <2> QED BY <2>1 DEF AddLink, Past, RoutedPc
<1>6. ASSUME proc.op = "ADD", proc.pc \in PodPc
      PROVE  /\ proc.sb \in Sandbox /\ ThisPod \in Pod /\ ThisPod = PodOf[proc.sb]
             /\ proc.ip \in Addr /\ own[proc.sb] = proc.ip
  BY <1>0, <1>6, Consts DEF ProcShape, ThisPod
<1>7. CASE checkAndCleanOldVeth
  <2>1. ThisPod \in Pod
    BY <1>6, <1>7, CleanFacts DEF At, PodPc
  <2>2. CASE LinkDel(ThisPod) /\ Goto("pair")
    <3>1. proc'.pc = "pair" /\ ThisPod' = ThisPod
      BY <1>0, <2>2, GotoFacts DEF ThisPod
    <3>2. veth'[ThisPod] = None
      BY <1>0, <2>1, <2>2, LinkDelFacts
    <3> QED BY <3>1, <3>2 DEF AddLink, Past, RoutedPc
  <2> QED BY <1>2, <1>7, <2>2, CleanFacts DEF RoutedPc
<1>8. CASE setupVethPair
  <2>1. proc.op = "ADD" /\ proc.pc \in PodPc
    BY <1>8, PairFacts DEF At, PodPc
  <2>2. CASE /\ veth' = [veth EXCEPT ![ThisPod] = proc.sb] /\ net' = [net EXCEPT ![proc.sb] = proc.ip]
             /\ Goto("route")
    <3>1. proc'.pc = "route" /\ ThisPod' = ThisPod /\ proc'.sb = proc.sb /\ proc'.ip = proc.ip
      BY <1>0, <2>2, GotoFacts DEF ThisPod
    <3>2. veth'[ThisPod] = proc.sb /\ net'[proc.sb] = proc.ip
      BY <1>0, <1>6, <2>1, <2>2 DEF LinkShape
    <3> QED BY <3>1, <3>2 DEF AddLink, Past, RoutedPc
  <2> QED BY <1>2, <1>8, <2>2, PairFacts DEF RoutedPc
<1>9. CASE addRouteRuleForPodIp
  <2>1. proc.op = "ADD" /\ proc.pc = "route" /\ UNCHANGED <<net, veth, risky>> /\ proc.pc \in PodPc
    BY <1>9, RouteFacts DEF At, PodPc
  <2>2. veth[ThisPod] = proc.sb /\ net[proc.sb] = proc.ip
    BY <2>1 DEF AddLink, Past
  <2>3. CASE Goto("dst")
    <3>1. proc'.pc = "dst" /\ ThisPod' = ThisPod /\ proc'.sb = proc.sb /\ proc'.ip = proc.ip
      BY <1>0, <2>3, GotoFacts DEF ThisPod
    <3>2. proc.ip \notin risky => route'[proc.ip] = ThisPod
      <4>1. CASE route[proc.ip] = None /\ route' = [route EXCEPT ![proc.ip] = ThisPod]
        BY <1>0, <1>6, <2>1, <4>1 DEF LinkShape
      <4>2. CASE proc.ip \notin risky /\ route[proc.ip] # None /\ route' = route
        <5>1. PICK q \in Pod : q = route[proc.ip] /\ veth[q] # None /\ net[veth[q]] = proc.ip
          BY <1>0, <1>6, <2>1, <4>2 DEF LinkShape, RouteInv
        <5>2. veth[q] \in Sandbox /\ PodOf[veth[q]] = q
          BY <1>0, <5>1 DEF LinkShape, VethInv
        <5>3. veth[q] = proc.sb
          BY <1>6, <2>1, <4>2, <5>1, <5>2, Consts DEF Alone, OwnAlone
        <5> QED BY <1>6, <2>1, <4>2, <5>1, <5>2, <5>3
      <4> QED BY <1>0, <1>9, <2>3, <4>1, <4>2, RouteFacts, GotoFacts
    <3> QED BY <2>1, <2>2, <3>1, <3>2 DEF AddLink, Past, RoutedPc
  <2> QED BY <1>2, <1>9, <2>3, RouteFacts DEF RoutedPc
<1>10. CASE ensureDstIPRoutePolicy \/ PodSrcRule \/ setNodePortRange
  <2>1. /\ UNCHANGED <<net, veth, route>> /\ risky \subseteq risky'
        /\ proc.op = "ADD" /\ proc.pc \in RoutedPc
        /\ \E pc \in RoutedPc \cup {"rollback"} : Goto(pc)
    BY <1>10, DstFacts, SrcFacts, RangeFacts DEF At, RoutedPc
  <2> QED BY <1>0, <2>1, AddLinkKept
<1>11. CASE addPodNetworkRecord
  <2>1. /\ UNCHANGED <<net, veth, route, risky>>
        /\ proc.op = "ADD" /\ proc.pc \in RoutedPc
    BY <1>11, RecordFacts DEF At, RoutedPc
  <2>2. CASE Goto("portmap")
    BY <1>0, <2>1, <2>2, AddLinkKept DEF RoutedPc
  <2> QED BY <1>1, <1>11, <2>2, RecordFacts
<1>12. CASE portmapCmdAdd
  <2>1. /\ UNCHANGED <<net, veth, route, risky>>
        /\ proc.op = "ADD" /\ proc.pc = "portmap"
    BY <1>12, PortFacts DEF At
  <2>2. CASE Again
    <3>1. /\ proc'.op = proc.op /\ proc'.pc = proc.pc /\ ThisPod' = ThisPod /\ proc'.sb = proc.sb
          /\ proc'.ip = proc.ip
      BY <1>0, <2>2, AgainFacts DEF ThisPod
    <3> QED BY <2>1, <3>1 DEF AddLink, Past
  <2> QED BY <1>1, <1>12, <2>2, PortFacts
<1> QED BY <1>3, <1>4, <1>5, <1>7, <1>8, <1>9, <1>10, <1>11, <1>12 DEF AddStep

LEMMA AddRuleKept ==
  ASSUME ProcShape, AddRule, risky \subseteq risky', UNCHANGED <<dst, src>>, NEW pc,
         Goto(pc), proc.op = "ADD", proc.pc \in PodPc,
         pc \in RoutedPc \ {"dst"} => proc.pc \in RoutedPc \ {"dst"},
         pc \in RoutedPc \ {"dst", "src"} => proc.pc \in RoutedPc \ {"dst", "src"}
  PROVE  AddRule'
<1>1. proc'.pc = pc /\ proc'.op = "ADD" /\ proc'.ip = proc.ip /\ proc'.nic = proc.nic
  BY GotoFacts
<1> QED BY <1>1 DEF AddRule, Past

LEMMA AddRuleKeeps ==
  ASSUME Shape, AddRule, AddStep
  PROVE  AddRule'
<1>0. ProcShape /\ RuleShape
  BY ShapeParts
<1>1. CASE AddFails \/ AddOK
  BY <1>1, NoAdd, NoProcFacts DEF AddFails, AddOK
<1>2. ASSUME NEW pc, Goto(pc), pc \in UniPc PROVE AddRule'
  <2>1. proc'.pc = pc
    BY <1>0, <1>2, GotoFacts
  <2> QED BY <1>2, <2>1 DEF AddRule, Past, UniPc, PodPc, RoutedPc
<1>3. CASE ensureUNIPrimaryIPRoute \/ initPodNetworking \/ assignFails \/ rollbackReleaseIP
  BY <1>1, <1>2, <1>3, PrimaryFacts, NetworkingFacts, AssignFailsFacts, RollbackFacts DEF UniPc
<1>4. CASE UniStep
  <2>1. CASE Again
    <3>1. proc'.pc = "uni"
      BY <1>0, <1>4, <2>1, UniStepFacts, AgainFacts DEF At
    <3> QED BY <3>1 DEF AddRule, Past, RoutedPc, PodPc
  <2> QED BY <1>1, <1>2, <1>4, <2>1, UniStepFacts DEF UniPc
<1>5. ASSUME NEW ip \in Addr, assignPodIp(ip) PROVE AddRule'
  <2>1. /\ proc'.pc = "veth" /\ proc'.ip = ip /\ src' = src
        /\ proc'.nic = Master /\ src[ip] # <<>> => ip \in risky'
    BY <1>5, AssignFacts
  <2> QED BY <2>1 DEF AddRule, Past, RoutedPc
<1>6. CASE checkAndCleanOldVeth \/ setupVethPair \/ addRouteRuleForPodIp \/ setNodePortRange
  <2>1. /\ UNCHANGED <<dst, src, risky>> /\ proc.op = "ADD"
        /\ \/ proc.pc \in {"veth", "pair", "route"} /\ \E pc \in {"pair", "route", "dst", "rollback"} : Goto(pc)
           \/ proc.pc = "range" /\ \E pc \in {"record", "rollback"} : Goto(pc)
    BY <1>6, CleanFacts, PairFacts, RouteFacts, RangeFacts DEF At
  <2> QED BY <1>0, <2>1, AddRuleKept DEF PodPc, RoutedPc
<1>7. CASE ensureDstIPRoutePolicy
  <2>1. UNCHANGED <<src, risky>> /\ proc.op = "ADD" /\ proc.pc = "dst"
    BY <1>7, DstFacts DEF At
  <2>2. CASE Goto("rollback") /\ dst' = dst
    BY <1>0, <2>1, <2>2, AddRuleKept DEF PodPc, RoutedPc
  <2>3. CASE /\ dst' = dst \cup {proc.ip}
             /\ (proc.nic = Master /\ Goto("range")) \/ (proc.nic # Master /\ Goto("src"))
    <3>1. /\ proc'.op = "ADD" /\ proc'.ip = proc.ip /\ proc'.nic = proc.nic
          /\ proc.nic # Master => proc'.pc = "src"
      BY <1>0, <2>1, <2>3, GotoFacts
    <3>2. proc.ip \notin risky /\ proc.nic = Master => src[proc.ip] = <<>>
      BY <2>1 DEF AddRule, Past, PodPc
    <3> QED BY <2>1, <2>3, <3>1, <3>2 DEF AddRule, Past
  <2> QED BY <1>7, <2>2, <2>3, DstFacts
<1>8. CASE PodSrcRule
  <2>1. dst' = dst /\ proc.op = "ADD" /\ proc.pc = "src" /\ proc.ip \in Addr /\ proc.nic \in Uni
    BY <1>8, SrcFacts DEF At
  <2>2. proc.ip \in dst /\ proc.nic # Master
    BY <2>1, Consts DEF AddRule, Past, RoutedPc
  <2>3. PICK t \in Seq(Uni) :
              /\ src' = [src EXCEPT ![proc.ip] = t]
              /\ \/ /\ t # <<>> /\ Head(t) = proc.nic
                    /\ Goto("range") /\ faults' = faults /\ risky' = risky
                 \/ Goto("range") /\ faults' = faults + 1 /\ risky' = risky \cup {proc.ip}
                 \/ Goto("rollback") /\ faults' = faults + 1 /\ risky' = risky
    BY <1>8, SrcFacts
  <2>4. src'[proc.ip] = t
    BY <1>0, <2>1, <2>3 DEF RuleShape
  <2>5. proc'.ip = proc.ip /\ proc'.nic = proc.nic /\ (Goto("rollback") => proc'.pc = "rollback")
    BY <1>0, <2>3, GotoFacts
  <2>6. CASE Goto("rollback")
    BY <2>2, <2>5, <2>6 DEF AddRule, Past, RoutedPc
  <2>7. CASE t # <<>> /\ Head(t) = proc.nic
    BY <2>1, <2>2, <2>4, <2>5, <2>7 DEF AddRule, Past
  <2>8. CASE risky' = risky \cup {proc.ip}
    BY <2>1, <2>2, <2>5, <2>8 DEF AddRule, Past
  <2> QED BY <2>3, <2>6, <2>7, <2>8
<1>9. CASE addPodNetworkRecord
  <2>1. UNCHANGED <<dst, src, risky>> /\ proc.op = "ADD" /\ proc.pc = "record"
    BY <1>9, RecordFacts DEF At
  <2>2. CASE Goto("portmap")
    BY <1>0, <2>1, <2>2, AddRuleKept DEF PodPc, RoutedPc
  <2> QED BY <1>1, <1>9, <2>2, RecordFacts
<1>10. CASE portmapCmdAdd
  <2>1. UNCHANGED <<dst, src, risky>>
    BY <1>10, PortFacts
  <2>2. CASE Again
    <3>1. proc'.op = proc.op /\ proc'.pc = proc.pc /\ proc'.ip = proc.ip /\ proc'.nic = proc.nic
      BY <1>0, <2>2, AgainFacts
    <3> QED BY <2>1, <3>1 DEF AddRule, Past
  <2> QED BY <1>1, <1>10, <2>2, PortFacts
<1> QED BY <1>3, <1>4, <1>5, <1>6, <1>7, <1>8, <1>9, <1>10 DEF AddStep

LEMMA DelStays ==
  ASSUME Shape, DelStep
  PROVE  proc.op = "DEL" /\ proc'.op \in {"none", "DEL"}
<1>0. ProcShape
  BY ShapeParts
<1>1. proc.op = "DEL"
  BY GetFacts, RulesFacts, ReleaseFacts, DelRecordFacts, TeardownFacts, IfaceFacts DEF DelStep, Teardown, At
<1>2. proc'.op \in {"none", "DEL"}
  BY <1>0, <1>1, GetFacts, RulesFacts, ReleaseFacts, DelRecordFacts, TeardownFacts, IfaceFacts,
     GotoFacts, NoProcFacts DEF DelStep, Teardown, DelFails, DelOK
<1> QED BY <1>1, <1>2

LEMMA AddKeeps ==
  ASSUME Shape, VethInv, RouteInv, Alone, AddUni, AddLink, AddRule, [Next]_vars
  PROVE  AddUni' /\ AddLink' /\ AddRule'
<1>1. CASE AddStep
  BY <1>1, AddUniKeeps, AddLinkKeeps, AddRuleKeeps
<1>2. CASE DelStep
  BY <1>2, DelStays, NoAdd
<1>3. CASE Kill \/ Reboot
  <2>1. proc' = NoProc
    BY <1>3, KillFacts, RebootFacts DEF AddFails, DelFails
  <2> QED BY <2>1, NoProcFacts, NoAdd
<1>4. ASSUME NEW s \in Sandbox, StartAdd(s) PROVE AddUni' /\ AddLink' /\ AddRule'
  <2>1. /\ proc'.pc = IF NicOf[s] = Master THEN "assign" ELSE "primary"
        /\ proc'.nic = NicOf[s]
    BY <1>4, StartAddFacts
  <2>2. AddUni'
    BY <2>1 DEF AddUni, Past, UniPc, PodPc
  <2>3. AddLink' /\ AddRule'
    BY <2>1 DEF AddLink, AddRule, Past, PodPc, RoutedPc
  <2> QED BY <2>2, <2>3
<1>5. ASSUME NEW s \in Sandbox, StartDel(s) PROVE AddUni' /\ AddLink' /\ AddRule'
  BY <1>5, StartDelFacts, NoAdd
<1>6. CASE \/ UNCHANGED vars \/ KubeProxyStarts
           \/ \E s \in Sandbox : ReconcileDelete(s) \/ RemoveNetns(s)
  BY <1>6, AddBeside
<1> QED BY <1>1, <1>2, <1>3, <1>4, <1>5, <1>6 DEF Next

----------------------------------------------------------------------------
(* Running pods.                                                           *)

(* What a step must leave alone for a pod that goes on running.            *)
Spared(s) ==
  /\ sb[s] = "running" /\ veth'[PodOf[s]] = veth[PodOf[s]] /\ net'[s] = net[s]
  /\ net[s] \notin risky =>
       /\ own'[s] = own[s] /\ route'[net[s]] = route[net[s]]
       /\ net[s] \in dst => net[s] \in dst'
       /\ src'[net[s]] = src[net[s]]
       /\ NicOf[s] \in Uni /\ UniDone(NicOf[s]) => UniDone(NicOf[s])'

LEMMA RunSpared ==
  ASSUME RunInv, risky \subseteq risky', NEW s \in Sandbox, Spared(s)
  PROVE  /\ veth'[PodOf[s]] = s /\ net'[s] # None
         /\ net'[s] \notin risky' => Routed(s)'
<1>1. veth[PodOf[s]] = s /\ net[s] # None /\ (net[s] \notin risky => Routed(s))
  BY DEF RunInv, Spared
<1>2. NicOf[s] \in Uni \cup {Master}
  BY Consts
<1>3. ASSUME net'[s] \notin risky' PROVE Routed(s)'
  <2>1. Routed(s) /\ net[s] \notin risky /\ net'[s] = net[s]
    BY <1>1, <1>3 DEF Spared
  <2>2. own'[s] = net'[s] /\ route'[net'[s]] = PodOf[s] /\ net'[s] \in dst'
    BY <2>1 DEF Routed, Spared
  <2>3. CASE NicOf[s] = Master
    BY <2>1, <2>2, <2>3 DEF Routed, Spared
  <2>4. CASE NicOf[s] \in Uni /\ NicOf[s] # Master
    <3>1. src[net[s]] # <<>> /\ Head(src[net[s]]) = NicOf[s] /\ UniDone(NicOf[s])
      BY <2>1, <2>4 DEF Routed
    <3>2. src'[net'[s]] = src[net[s]] /\ UniDone(NicOf[s])'
      BY <2>1, <2>4, <3>1 DEF Spared
    <3> QED BY <2>2, <2>4, <3>1, <3>2 DEF Routed
  <2> QED BY <1>2, <2>3, <2>4
<1> QED BY <1>1, <1>3 DEF Spared

LEMMA RunKept ==
  ASSUME RunInv, risky \subseteq risky', \A s \in Sandbox : sb'[s] = "running" => Spared(s)
  PROVE  RunInv'
<1> SUFFICES ASSUME NEW s \in Sandbox, sb'[s] = "running"
             PROVE  /\ veth'[PodOf[s]] = s /\ net'[s] # None
                    /\ net'[s] \notin risky' => Routed(s)'
  BY DEF RunInv
<1> QED BY RunSpared

(* A pod that runs afterwards has run before, unless its ADD ends now.     *)
LEMMA RanBefore ==
  ASSUME SbShape, NEW s \in Sandbox, sb'[s] = "running",
         \/ sb' = sb \/ DelFails
         \/ proc.sb \in Sandbox /\ (AddFails \/ DelOK)
         \/ \E r \in Sandbox, v \in {"adding", "deleting", "gone"} : sb' = [sb EXCEPT ![r] = v]
         \/ sb' = [r \in Sandbox |-> IF sb[r] \in Live THEN "deleting" ELSE sb[r]]
  PROVE  sb[s] = "running"
BY DEF SbShape, AddFails, DelFails, DelOK

LEMMA ShapeStep ==
  ASSUME Shape, VethInv, RouteInv, [Next]_vars
  PROVE  Shape'
<1>1. CASE UNCHANGED vars
  BY <1>1 DEF vars, kubeVars, linkVars, ruleVars, uniVars, history, Shape, ProcShape, SbShape, BookShape,
     LinkShape, RuleShape, UniShape, HistoryShape
<1>2. CASE AddStep
  BY <1>2, ShapeUni, ShapeAssign, ShapePod DEF AddStep
<1>3. CASE DelStep
  BY <1>3, ShapeDel
<1>4. CASE Kill \/ Reboot \/ KubeProxyStarts \/ \E s \in Sandbox : ReconcileDelete(s) \/ RemoveNetns(s)
  BY <1>4, ShapeNode
<1>5. CASE \E s \in Sandbox : StartAdd(s) \/ StartDel(s)
  BY <1>5, ShapeStart
<1> QED BY <1>1, <1>2, <1>3, <1>4, <1>5 DEF Next

(* A running pod is not the pod of the ADD in progress, and has another    *)
(* address.                                                                *)
LEMMA RunBeside ==
  ASSUME Shape, Alone, RunInv, proc.op = "ADD", NEW s \in Sandbox, sb[s] = "running"
  PROVE  /\ s # proc.sb /\ PodOf[s] # ThisPod
         /\ net[s] \in Addr /\ veth[PodOf[s]] = s
         /\ net[s] \notin risky => Routed(s)
         /\ proc.pc \in PodPc /\ net[s] \notin risky => net[s] # proc.ip
<1>0. ProcShape /\ SbShape /\ LinkShape
  BY ShapeParts
<1>1. proc.sb \in Sandbox /\ sb[proc.sb] = "adding"
  BY <1>0 DEF ProcShape
<1>2. s # proc.sb /\ PodOf[s] # ThisPod
  BY <1>0, <1>1 DEF SbShape, ThisPod
<1>3. net[s] \in Addr /\ veth[PodOf[s]] = s /\ (net[s] \notin risky => Routed(s))
  BY <1>0 DEF RunInv, LinkShape
<1>4. ASSUME proc.pc \in PodPc, net[s] \notin risky PROVE net[s] # proc.ip
  <2>1. own[proc.sb] = proc.ip
    BY <1>0, <1>4 DEF ProcShape
  <2>2. own[s] = net[s]
    BY <1>3, <1>4 DEF Routed
  <2> QED BY <1>1, <1>2, <1>3, <2>1, <2>2, Consts DEF Alone, OwnOne
<1> QED BY <1>2, <1>3, <1>4

LEMMA RunUni ==
  ASSUME Shape, Alone, RunInv,
         \/ ensureUNIPrimaryIPRoute \/ UniStep \/ initPodNetworking \/ assignFails
         \/ \E ip \in Addr : assignPodIp(ip)
  PROVE  RunInv'
<1>0. ProcShape /\ SbShape /\ RuleShape /\ UniShape /\ BookShape
  BY ShapeParts
<1>1. proc.op = "ADD" /\ proc.sb \in Sandbox
  BY <1>0, PrimaryFacts, UniStepFacts, NetworkingFacts, AssignFailsFacts, AssignFacts DEF ProcShape, At
<1>2. UNCHANGED <<net, veth, route, dst>> /\ risky \subseteq risky' /\ (sb' = sb \/ AddFails)
  BY PrimaryFacts, UniStepFacts, NetworkingFacts, AssignFailsFacts, AssignFacts
<1>3. \A s \in Sandbox \ {proc.sb} : own'[s] = own[s]
  BY <1>0, <1>1, PrimaryFacts, UniStepFacts, NetworkingFacts, AssignFailsFacts, AssignFacts DEF BookShape
<1>4. \A a \in Addr : src'[a] = src[a]
  BY <1>0, <1>1, PrimaryFacts, UniStepFacts, NetworkingFacts, AssignFailsFacts, AssignFacts, Consts
     DEF RuleShape
<1>5. ASSUME NEW u \in Uni, UniDone(u) PROVE UniDone(u)'
  <2>1. src'[u] = <<u>>
    BY <1>0, <1>5, PrimaryFacts, UniStepFacts, NetworkingFacts, AssignFailsFacts, AssignFacts
       DEF RuleShape, UniDone
  <2>2. "default" \in uni'[u]
    <3>1. CASE UniStep
      <4>1. PICK S : uni' = uni \/ uni' = [uni EXCEPT ![proc.nic] = (IF proc.k = 4 THEN @ \ {"stray"} ELSE @) \cup S]
        BY <3>1, UniStepFacts
      <4> QED BY <1>0, <1>5, <4>1 DEF UniShape, UniDone
    <3> QED BY <1>5, <3>1, PrimaryFacts, NetworkingFacts, AssignFailsFacts, AssignFacts DEF UniDone
  <2>3. shared' = shared
    BY <1>5, PrimaryFacts, UniStepFacts, NetworkingFacts, AssignFailsFacts, AssignFacts DEF UniDone
  <2> QED BY <1>5, <2>1, <2>2, <2>3 DEF UniDone
<1>6. ASSUME NEW s \in Sandbox, sb'[s] = "running" PROVE Spared(s)
  <2>1. sb[s] = "running"
    BY <1>0, <1>1, <1>2, <1>6, RanBefore
  <2>2. s # proc.sb /\ net[s] \in Addr
    BY <1>1, <2>1, RunBeside
  <2> QED BY <1>2, <1>3, <1>4, <1>5, <2>1, <2>2 DEF Spared
<1> QED BY <1>2, <1>6, RunKept

(* The commands for one pod: the links and routes of another stay.         *)
LEMMA RunPod ==
  ASSUME Shape, VethInv, RouteInv, Alone, RunInv,
         \/ checkAndCleanOldVeth \/ setupVethPair \/ addRouteRuleForPodIp \/ ensureDstIPRoutePolicy
         \/ PodSrcRule \/ setNodePortRange \/ rollbackReleaseIP \/ addPodNetworkRecord
         \/ portmapCmdAdd /\ ~AddOK
  PROVE  RunInv'
<1>0. ProcShape /\ SbShape /\ RuleShape /\ LinkShape /\ BookShape
  BY ShapeParts
<1>1. proc.op = "ADD" /\ proc.pc \in PodPc
  BY CleanFacts, PairFacts, RouteFacts, DstFacts, SrcFacts, RangeFacts, RollbackFacts, RecordFacts, PortFacts
     DEF At, PodPc
<1>2. proc.sb \in Sandbox /\ proc.ip \in Addr /\ ThisPod \in Pod
  BY <1>0, <1>1, Consts DEF ProcShape, ThisPod
<1>3. UNCHANGED <<uni, shared>> /\ risky \subseteq risky' /\ (sb' = sb \/ AddFails)
  BY CleanFacts, PairFacts, RouteFacts, DstFacts, SrcFacts, RangeFacts, RollbackFacts, RecordFacts, PortFacts
<1>4. \A s \in Sandbox \ {proc.sb} : own'[s] = own[s]
  BY <1>0, <1>2, CleanFacts, PairFacts, RouteFacts, DstFacts, SrcFacts, RangeFacts, RollbackFacts, RecordFacts,
     PortFacts DEF BookShape
<1>5. \A a \in (Addr \cup Uni) \ {proc.ip} : src'[a] = src[a]
  BY <1>0, <1>2, CleanFacts, PairFacts, RouteFacts, DstFacts, SrcFacts, RangeFacts, RollbackFacts, RecordFacts,
     PortFacts DEF RuleShape
<1>6. \A a \in dst : a \in dst'
  BY CleanFacts, PairFacts, RouteFacts, DstFacts, SrcFacts, RangeFacts, RollbackFacts, RecordFacts, PortFacts
<1>7. \A u \in Uni : UniDone(u) => UniDone(u)'
  BY <1>2, <1>3, <1>5, Consts DEF UniDone
<1>8. ASSUME NEW s \in Sandbox \ {proc.sb}, PodOf[s] # ThisPod
      PROVE  /\ veth'[PodOf[s]] = veth[PodOf[s]] /\ net'[s] = net[s]
             /\ \A a \in Addr \ {proc.ip} : route[a] # ThisPod => route'[a] = route[a]
  <2>0. PodOf[s] \in Pod
    BY Consts
  <2>1. CASE LinkDel(ThisPod)
    <3>1. veth[ThisPod] # s
      BY <1>2, <1>8, Consts DEF VethInv
    <3> QED BY <1>0, <1>2, <1>8, <2>0, <2>1, <3>1, LinkDelFacts
  <2>2. CASE setupVethPair
    BY <1>0, <1>2, <1>8, <2>0, <2>2, PairFacts DEF LinkShape
  <2>3. CASE addRouteRuleForPodIp
    BY <1>0, <1>2, <1>8, <2>3, RouteFacts DEF LinkShape
  <2> QED BY <2>1, <2>2, <2>3, CleanFacts, DstFacts, SrcFacts, RangeFacts, RollbackFacts, RecordFacts, PortFacts
<1>9. ASSUME NEW s \in Sandbox, sb'[s] = "running" PROVE Spared(s)
  <2>1. sb[s] = "running"
    BY <1>0, <1>2, <1>3, <1>9, RanBefore
  <2>2. /\ s # proc.sb /\ PodOf[s] # ThisPod /\ net[s] \in Addr
        /\ net[s] \notin risky => Routed(s) /\ net[s] # proc.ip
    BY <1>1, <2>1, RunBeside
  <2>3. net[s] \notin risky => route[net[s]] # ThisPod
    BY <2>2 DEF Routed
  <2> QED BY <1>4, <1>5, <1>6, <1>7, <1>8, <2>1, <2>2, <2>3 DEF Spared
<1> QED BY <1>3, <1>9, RunKept

(* The end of an ADD: everything is in place.                              *)
LEMMA RunStarts ==
  ASSUME Shape, Alone, RunInv, AddUni, AddLink, AddRule, portmapCmdAdd, AddOK
  PROVE  RunInv'
<1>0. ProcShape /\ SbShape /\ UniShape
  BY ShapeParts
<1>1. /\ At("ADD", "portmap")
      /\ UNCHANGED <<rec, own, net, veth, route, dst, src, uni, shared, risky>>
  BY PortFacts
<1>2. proc.op = "ADD" /\ proc.pc = "portmap" /\ proc.pc \in PodPc /\ proc.pc \in RoutedPc
  BY <1>1 DEF At, PodPc, RoutedPc
<1>3. /\ proc.sb \in Sandbox /\ proc.ip \in Addr /\ own[proc.sb] = proc.ip
      /\ proc.ip \notin risky => proc.nic = NicOf[proc.sb]
  BY <1>0, <1>2 DEF ProcShape
<1>4. /\ veth[ThisPod] = proc.sb /\ net[proc.sb] = proc.ip
      /\ proc.ip \notin risky => route[proc.ip] = ThisPod
  BY <1>2 DEF AddLink, Past
<1>5. proc.ip \in dst
  BY <1>2 DEF AddRule, Past
<1>6. ASSUME proc.ip \notin risky, NicOf[proc.sb] = Master PROVE src[proc.ip] = <<>>
  BY <1>2, <1>3, <1>6 DEF AddRule, Past
<1>7. ASSUME proc.ip \notin risky, NicOf[proc.sb] # Master
      PROVE  src[proc.ip] # <<>> /\ Head(src[proc.ip]) = NicOf[proc.sb] /\ UniDone(NicOf[proc.sb])
  <2>1. src[proc.ip] # <<>> /\ Head(src[proc.ip]) = proc.nic
    BY <1>2, <1>3, <1>7 DEF AddRule, Past
  <2>2. /\ src[proc.nic] = <<proc.nic>> /\ "default" \in uni[proc.nic]
        /\ "rp_filter" \in shared /\ "connmark" \in shared
    BY <1>2, <1>3, <1>7 DEF AddUni, Past
  <2> QED BY <1>0, <1>3, <1>7, <2>1, <2>2 DEF UniShape, UniDone
<1>8. proc.ip \notin risky => Routed(proc.sb)
  BY <1>3, <1>4, <1>5, <1>6, <1>7 DEF Routed, ThisPod
<1>9. ASSUME NEW s \in Sandbox, sb'[s] = "running"
      PROVE  veth[PodOf[s]] = s /\ net[s] # None /\ (net[s] \notin risky => Routed(s))
  <2>1. CASE s = proc.sb
    BY <1>3, <1>4, <1>8, <2>1, Consts DEF ThisPod
  <2>2. CASE s # proc.sb
    BY <1>0, <1>3, <1>9, <2>2 DEF AddOK, SbShape, RunInv
  <2> QED BY <2>1, <2>2
<1> QED BY <1>1, <1>9 DEF RunInv, Routed, UniDone

(* A DEL takes the rules and the address of its own record only.           *)
LEMMA RunDel ==
  ASSUME Shape, VethInv, RouteInv, Alone, RunInv, DelStep
  PROVE  RunInv'
<1>0. ProcShape /\ SbShape /\ RuleShape /\ LinkShape /\ BookShape
  BY ShapeParts
<1>1. proc.op = "DEL" /\ proc.sb \in Sandbox /\ sb[proc.sb] = "deleting"
  BY <1>0, DelStays DEF ProcShape
<1>2. UNCHANGED <<uni, shared, risky>> /\ (sb' = sb \/ DelFails \/ DelOK)
  BY GetFacts, RulesFacts, ReleaseFacts, DelRecordFacts, TeardownFacts, IfaceFacts DEF DelStep, Teardown
<1>3. ASSUME NEW s \in Sandbox, sb'[s] = "running" PROVE Spared(s)
  <2>1. sb[s] = "running"
    BY <1>0, <1>1, <1>2, <1>3, RanBefore
  <2>2. /\ s # proc.sb /\ PodOf[s] \in Pod /\ net[s] \in Addr /\ veth[PodOf[s]] = s
        /\ net[s] \notin risky => route[net[s]] = PodOf[s] /\ own[s] = net[s]
    BY <1>0, <1>1, <2>1, Consts DEF RunInv, Routed, LinkShape
  <2>3. ASSUME cleanUpIPRoutePolicy \/ releasePodIp, net[s] \notin risky PROVE net[s] # proc.ip
    <3>1. At("DEL", "rules") \/ At("DEL", "release")
      BY <2>3, RulesFacts, ReleaseFacts
    <3> QED BY <2>2, <2>3, <3>1 DEF Alone, DelAlone
  <2>4. net[s] \notin risky => own'[s] = own[s]
    BY <2>2, <2>3, GetFacts, RulesFacts, ReleaseFacts, DelRecordFacts, TeardownFacts, IfaceFacts DEF DelStep, Teardown
  <2>5. CASE cleanUpIPRoutePolicy
    <3>1. PICK t : \/ dst' = dst \ {proc.ip} /\ src' = [src EXCEPT ![proc.ip] = t]
                   \/ UNCHANGED <<dst, src>>
      BY <2>5, RulesFacts
    <3>2. UNCHANGED <<net, veth, route>> /\ proc.ip \in Addr
      BY <2>5, RulesFacts
    <3>3. \A a \in (Addr \cup Uni) \ {proc.ip} : src'[a] = src[a]
      BY <1>0, <3>1 DEF RuleShape
    <3>4. \A u \in Uni : UniDone(u) => UniDone(u)'
      BY <1>2, <3>2, <3>3, Consts DEF UniDone
    <3> QED BY <2>1, <2>2, <2>3, <2>4, <2>5, <3>1, <3>2, <3>3, <3>4 DEF Spared
  <2>6. CASE DelInterface
    <3>1. UNCHANGED <<dst, src>>
      BY <2>6, IfaceFacts
    <3>2. CASE DropLinks(proc.sb)
      <4>1. net'[s] = net[s] /\ veth'[PodOf[s]] = veth[PodOf[s]]
        BY <1>0, <1>1, <2>2, <3>2, DropFacts
      <4>2. net[s] \notin risky => route'[net[s]] = route[net[s]]
        BY <1>0, <1>1, <2>2, <3>2, DropFacts
      <4> QED BY <1>2, <2>1, <2>4, <3>1, <4>1, <4>2 DEF Spared, UniDone
    <3> QED BY <1>2, <2>1, <2>4, <2>6, <3>1, <3>2, IfaceFacts DEF Spared, UniDone
  <2>7. CASE \/ getPodNetworkRecord \/ releasePodIp \/ delPodNetworkRecord \/ Teardown
    <3>1. UNCHANGED <<net, veth, route, dst, src>>
      BY <2>7, GetFacts, ReleaseFacts, DelRecordFacts, TeardownFacts
    <3> QED BY <1>2, <2>1, <2>4, <3>1 DEF Spared, UniDone
  <2> QED BY <2>5, <2>6, <2>7 DEF DelStep, Teardown
<1> QED BY <1>2, <1>3, RunKept

LEMMA RunKeeps ==
  ASSUME Shape, VethInv, RouteInv, Alone, AddUni, AddLink, AddRule, RunInv, [Next]_vars
  PROVE  RunInv'
<1>0. ProcShape /\ SbShape /\ LinkShape
  BY ShapeParts
<1>1. CASE AddStep
  BY <1>1, RunUni, RunPod, RunStarts DEF AddStep
<1>2. CASE DelStep
  BY <1>2, RunDel
<1>3. CASE \/ UNCHANGED vars \/ KubeProxyStarts \/ Kill
           \/ \E r \in Sandbox : StartAdd(r) \/ StartDel(r) \/ ReconcileDelete(r)
  <2>1. UNCHANGED <<own, net, veth, route, dst, src, uni, shared, risky>>
    BY <1>3, ProxyFacts, KillFacts, StartAddFacts, StartDelFacts, ReconcileFacts
       DEF vars, kubeVars, linkVars, ruleVars, uniVars, history
  <2>2. \/ sb' = sb \/ DelFails
        \/ proc.sb \in Sandbox /\ AddFails
        \/ \E r \in Sandbox, v \in {"adding", "deleting", "gone"} : sb' = [sb EXCEPT ![r] = v]
    BY <1>0, <1>3, ProxyFacts, KillFacts, StartAddFacts, StartDelFacts, ReconcileFacts
       DEF vars, kubeVars, ProcShape
  <2>3. ASSUME NEW s \in Sandbox, sb'[s] = "running" PROVE Spared(s)
    BY <1>0, <2>1, <2>2, <2>3, RanBefore DEF Spared, UniDone
  <2> QED BY <2>1, <2>3, RunKept
<1>4. CASE Reboot
  BY <1>0, <1>4, RebootFacts DEF RunInv, SbShape, Live
<1>5. ASSUME NEW r \in Sandbox, RemoveNetns(r) PROVE RunInv'
  <2>1. /\ sb[r] = "stopped" /\ DropLinks(r) /\ sb' = [sb EXCEPT ![r] = "gone"]
        /\ UNCHANGED <<own, dst, src, uni, shared, risky>>
    BY <1>5, NetnsFacts
  <2>2. ASSUME NEW s \in Sandbox, sb'[s] = "running" PROVE Spared(s)
    <3>1. sb[s] = "running" /\ s # r
      BY <1>0, <2>1, <2>2 DEF SbShape
    <3>2. /\ PodOf[s] \in Pod /\ net[s] \in Addr /\ veth[PodOf[s]] = s
          /\ net[s] \notin risky => route[net[s]] = PodOf[s]
      BY <1>0, <3>1, Consts DEF RunInv, Routed, LinkShape
    <3>3. net'[s] = net[s] /\ veth'[PodOf[s]] = veth[PodOf[s]]
      BY <1>0, <2>1, <3>1, <3>2, DropFacts
    <3>4. net[s] \notin risky => route'[net[s]] = route[net[s]]
      BY <1>0, <2>1, <3>1, <3>2, DropFacts
    <3> QED BY <2>1, <3>1, <3>3, <3>4 DEF Spared, UniDone
  <2> QED BY <2>1, <2>2, RunKept
<1> QED BY <1>1, <1>2, <1>3, <1>4, <1>5 DEF Next

----------------------------------------------------------------------------
(* The address of a DEL has no rules left when it is released.             *)

LEMMA ReleaseKeeps ==
  ASSUME Shape, ReleaseInv, [Next]_vars
  PROVE  ReleaseInv'
<1>0. ProcShape /\ RuleShape
  BY ShapeParts
<1>1. CASE proc' = NoProc
  BY <1>1, NoProcFacts DEF ReleaseInv, At
<1>2. CASE AddStep
  BY <1>2, AddStays DEF ReleaseInv, At
<1>3. CASE cleanUpIPRoutePolicy
  <2>1. CASE Goto("release")
    <3>1. proc.ip \in Addr /\ proc'.ip = proc.ip
      BY <1>0, <1>3, <2>1, RulesFacts, GotoFacts
    <3>2. PICK t : src' = [src EXCEPT ![proc.ip] = t] /\ t = <<>>
      <4>1. ~DelFails
        BY <1>0, <1>3, <2>1, GotoFacts, NoProcFacts, RulesFacts DEF DelFails, At
      <4> QED BY <1>3, <4>1, RulesFacts
    <3> QED BY <1>0, <3>1, <3>2 DEF RuleShape, ReleaseInv
  <2> QED BY <1>1, <1>3, <2>1, RulesFacts DEF DelFails
<1>4. CASE getPodNetworkRecord \/ releasePodIp \/ delPodNetworkRecord \/ Teardown \/ DelInterface
  <2>1. CASE Teardown /\ proc' = proc
    BY <2>1, TeardownFacts DEF ReleaseInv, At
  <2>2. CASE \E pc \in {"portmap", "record", "clear", "unlink", "chain", "iface"} : Goto(pc)
    BY <1>0, <2>2, GotoFacts DEF ReleaseInv, At
  <2>3. CASE proc'.pc = "rules"
    BY <2>3 DEF ReleaseInv, At
  <2> QED BY <1>1, <1>4, <2>1, <2>2, <2>3, GetFacts, ReleaseFacts, DelRecordFacts, TeardownFacts, IfaceFacts
          DEF DelFails, DelOK
<1>5. CASE \E s \in Sandbox : StartAdd(s) \/ StartDel(s)
  BY <1>5, StartAddFacts, StartDelFacts DEF ReleaseInv, At
<1>6. CASE Kill \/ Reboot
  BY <1>1, <1>6, KillFacts, RebootFacts DEF AddFails, DelFails
<1>7. CASE UNCHANGED vars \/ KubeProxyStarts \/ \E s \in Sandbox : ReconcileDelete(s) \/ RemoveNetns(s)
  BY <1>7, ProxyFacts, ReconcileFacts, NetnsFacts DEF vars, ruleVars, ReleaseInv, At
<1> QED BY <1>2, <1>3, <1>4, <1>5, <1>6, <1>7 DEF Next, DelStep, Teardown

(* A sandbox has no address before its ADD asks for one.                   *)
LEMMA FreshSame ==
  ASSUME FreshInv, \A s \in Sandbox : own'[s] \in {own[s], None},
         \A s \in Sandbox : sb'[s] = "none" => sb[s] = "none",
         Past(UniPc)' => (Past(UniPc) /\ proc'.sb = proc.sb) \/ sb[proc'.sb] = "none"
  PROVE  FreshInv'
BY DEF FreshInv

LEMMA FreshUni ==
  ASSUME Shape, FreshInv,
         \/ ensureUNIPrimaryIPRoute \/ UniStep \/ initPodNetworking \/ assignFails
         \/ \E ip \in Addr : assignPodIp(ip)
  PROVE  FreshInv'
<1>0. ProcShape /\ SbShape /\ BookShape
  BY ShapeParts
<1>1. /\ proc.op = "ADD" /\ proc.pc \in UniPc /\ proc.sb \in Sandbox /\ sb[proc.sb] = "adding"
      /\ sb' = sb \/ AddFails
  BY <1>0, PrimaryFacts, UniStepFacts, NetworkingFacts, AssignFailsFacts, AssignFacts DEF ProcShape, At, UniPc
<1>2. ASSUME NEW ip \in Addr, assignPodIp(ip) PROVE FreshInv'
  <2>1. own' = [own EXCEPT ![proc.sb] = ip] /\ proc'.pc = "veth" /\ sb' = sb
    BY <1>2, AssignFacts
  <2>2. ~Past(UniPc)'
    BY <2>1 DEF Past, UniPc
  <2> QED BY <1>0, <1>1, <2>1, <2>2 DEF FreshInv, BookShape
<1>3. CASE ensureUNIPrimaryIPRoute \/ UniStep \/ initPodNetworking \/ assignFails
  <2>1. own' = own
    BY <1>3, PrimaryFacts, UniStepFacts, NetworkingFacts, AssignFailsFacts
  <2>2. \A s \in Sandbox : sb'[s] = "none" => sb[s] = "none"
    BY <1>0, <1>1 DEF SbShape, AddFails
  <2>3. proc'.op = "ADD" => proc'.sb = proc.sb
    BY <1>0, <1>3, PrimaryFacts, UniStepFacts, NetworkingFacts, AssignFailsFacts, GotoFacts, AgainFacts,
       NoProcFacts DEF AddFails
  <2> QED BY <1>1, <2>1, <2>2, <2>3, FreshSame DEF Past
<1> QED BY <1>2, <1>3

LEMMA FreshPod ==
  ASSUME Shape, FreshInv,
         \/ checkAndCleanOldVeth \/ setupVethPair \/ addRouteRuleForPodIp \/ ensureDstIPRoutePolicy
         \/ PodSrcRule \/ setNodePortRange \/ rollbackReleaseIP \/ addPodNetworkRecord \/ portmapCmdAdd
  PROVE  FreshInv'
<1>0. ProcShape /\ SbShape /\ BookShape
  BY ShapeParts
<1>1. /\ proc.op = "ADD" /\ proc.sb \in Sandbox /\ sb[proc.sb] = "adding" /\ proc.pc \in PodPc
      /\ sb' = sb \/ AddFails \/ AddOK
  BY <1>0, CleanFacts, PairFacts, RouteFacts, DstFacts, SrcFacts, RangeFacts, RollbackFacts, RecordFacts, PortFacts
     DEF ProcShape, At, PodPc
<1>2. \A s \in Sandbox : own'[s] \in {own[s], None}
  BY <1>0, <1>1, CleanFacts, PairFacts, RouteFacts, DstFacts, SrcFacts, RangeFacts, RollbackFacts, RecordFacts,
     PortFacts DEF BookShape
<1>3. \A s \in Sandbox : sb'[s] = "none" => sb[s] = "none"
  BY <1>0, <1>1 DEF SbShape, AddFails, AddOK
<1>4. ~Past(UniPc)'
  <2>1. CASE \E pc \in PodPc : Goto(pc)
    BY <1>0, <2>1, GotoFacts DEF Past, UniPc, PodPc
  <2>2. CASE Again
    BY <1>0, <1>1, <2>2, AgainFacts DEF Past, UniPc, PodPc
  <2>3. CASE AddFails \/ AddOK
    BY <2>3, NoProcFacts DEF Past, AddFails, AddOK
  <2> QED BY <2>1, <2>2, <2>3, CleanFacts, PairFacts, RouteFacts, DstFacts, SrcFacts, RangeFacts, RollbackFacts,
          RecordFacts, PortFacts DEF PodPc
<1> QED BY <1>2, <1>3, <1>4, FreshSame

LEMMA FreshKeeps ==
  ASSUME Shape, VethInv, RouteInv, FreshInv, [Next]_vars
  PROVE  FreshInv'
<1>0. ProcShape /\ SbShape /\ BookShape
  BY ShapeParts
<1>1. CASE AddStep
  BY <1>1, FreshUni, FreshPod DEF AddStep
<1>2. CASE DelStep \/ Kill \/ Reboot
  <2>1. \A s \in Sandbox : own'[s] \in {own[s], None}
    BY <1>2, AloneForget
  <2>2. proc'.op # "ADD"
    BY <1>2, DelStays, KillFacts, RebootFacts, NoProcFacts DEF AddFails, DelFails
  <2>3. sb' = sb \/ (proc.sb \in Sandbox /\ AddFails) \/ DelFails \/ (proc.sb \in Sandbox /\ DelOK) \/ Reboot
    BY <1>0, <1>2, DelStays, GetFacts, RulesFacts, ReleaseFacts, DelRecordFacts, TeardownFacts, IfaceFacts, KillFacts
       DEF DelStep, Teardown, ProcShape
  <2>4. \A s \in Sandbox : sb'[s] = "none" => sb[s] = "none"
    BY <1>0, <2>3, RebootFacts DEF SbShape, AddFails, DelFails, DelOK
  <2> QED BY <2>1, <2>2, <2>4, FreshSame DEF Past
<1>3. CASE \E s \in Sandbox : StartAdd(s) \/ StartDel(s) \/ ReconcileDelete(s) \/ RemoveNetns(s)
  <2>1. own' = own
    BY <1>3, StartAddFacts, StartDelFacts, ReconcileFacts, NetnsFacts
  <2>2. \A s \in Sandbox : sb'[s] = "none" => sb[s] = "none"
    BY <1>0, <1>3, StartAddFacts, StartDelFacts, ReconcileFacts, NetnsFacts DEF SbShape
  <2>3. proc' = proc \/ proc'.op = "DEL" \/ sb[proc'.sb] = "none"
    BY <1>3, StartAddFacts, StartDelFacts, ReconcileFacts, NetnsFacts
  <2> QED BY <2>1, <2>2, <2>3, FreshSame DEF Past
<1>4. CASE UNCHANGED vars \/ KubeProxyStarts
  <2>1. own' = own /\ sb' = sb /\ proc' = proc
    BY <1>4, ProxyFacts DEF vars, kubeVars
  <2> QED BY <2>1, FreshSame DEF Past
<1> QED BY <1>1, <1>2, <1>3, <1>4 DEF Next

----------------------------------------------------------------------------
(* The budget.                                                             *)

LEMMA ExemptSame ==
  ASSUME nat' = nat, NEW r, NEW a, proc' = proc, rec'[r] = rec[r] \/ rec'[r] # a
  PROVE  Exempt(r, a) => Exempt(r, a)'
<1>1. Entries(r)' = Entries(r)
  BY DEF Entries
<1> QED BY <1>1 DEF Exempt

LEMMA StrayKept ==
  ASSUME NEW r, NEW a \in Addr, own'[r] = own[r], net'[r] \in {net[r], None}, rec'[r] \in {rec[r], None},
         Exempt(r, a) => Exempt(r, a)'
  PROVE  Stray(r, a)' => Stray(r, a)
BY Consts DEF Stray

LEMMA ExposedWithin ==
  ASSUME NEW X, \A r \in Sandbox, a \in Addr \ X : Stray(r, a)' => Stray(r, a),
         \A a \in Addr \ X : Unowned(a)' => Unowned(a),
         At("ADD", "rollback")' => proc'.ip \in X
  PROVE  Exposed' \subseteq Exposed \cup X
<1> SUFFICES ASSUME NEW a \in Exposed', a \notin X PROVE a \in Exposed
  OBVIOUS
<1>1. /\ a \in Addr
      /\ \/ \E r \in Sandbox : Stray(r, a)'
         \/ Unowned(a)'
         \/ At("ADD", "rollback")' /\ proc'.ip = a
  BY DEF Exposed
<1>2. (\E r \in Sandbox : Stray(r, a)) \/ Unowned(a)
  BY <1>1
<1> QED BY <1>1, <1>2 DEF Exposed

LEMMA ExposedFinite ==
  ASSUME Shape
  PROVE  IsFiniteSet(risky \cup Exposed)
<1>1. IsFiniteSet(risky) /\ IsFiniteSet(Addr)
  BY Consts DEF Shape, HistoryShape
<1>2. Exposed \subseteq Addr
  BY DEF Exposed
<1>3. IsFiniteSet(Exposed)
  BY <1>1, <1>2, FS_Subset
<1> QED BY <1>1, <1>3, FS_Union

(* A step that exposes nothing, and one whose fault pays for an address.   *)
LEMMA Free ==
  ASSUME Shape, BudgetInv, faults' = faults \/ faults' = faults + 1,
         risky' \cup Exposed' \subseteq risky \cup Exposed
  PROVE  BudgetInv'
<1>1. IsFiniteSet(risky \cup Exposed)
  BY ExposedFinite
<1>2. PICK W : W = risky \cup Exposed
  OBVIOUS
<1>3. PICK V : V = risky' \cup Exposed'
  OBVIOUS
<1>4. Cardinality(V) <= Cardinality(W) /\ Cardinality(W) \in Nat /\ Cardinality(V) \in Nat
  BY <1>1, <1>2, <1>3, FS_Subset, FS_CardinalityType
<1>5. faults \in Nat /\ Cardinality(W) <= faults
  BY <1>2 DEF BudgetInv, Shape, HistoryShape
<1>6. Cardinality(V) <= faults'
  BY <1>4, <1>5
<1> QED BY <1>3, <1>6 DEF BudgetInv

LEMMA Paid ==
  ASSUME Shape, BudgetInv, faults' = faults + 1, NEW x,
         risky' \cup Exposed' \subseteq (risky \cup Exposed) \cup {x}
  PROVE  BudgetInv'
<1>1. IsFiniteSet(risky \cup Exposed)
  BY ExposedFinite
<1>2. PICK W : W = risky \cup Exposed
  OBVIOUS
<1>3. PICK V : V = risky' \cup Exposed'
  OBVIOUS
<1>4. PICK U : U = W \cup {x}
  OBVIOUS
<1>5. IsFiniteSet(U) /\ Cardinality(U) <= Cardinality(W) + 1 /\ Cardinality(W) \in Nat
  BY <1>1, <1>2, <1>4, FS_AddElement, FS_CardinalityType
<1>6. Cardinality(V) <= Cardinality(U) /\ Cardinality(U) \in Nat /\ Cardinality(V) \in Nat
  BY <1>2, <1>3, <1>4, <1>5, FS_Subset, FS_CardinalityType
<1>7. faults \in Nat /\ Cardinality(W) <= faults
  BY <1>2 DEF BudgetInv, Shape, HistoryShape
<1>8. Cardinality(V) <= faults'
  BY <1>5, <1>6, <1>7
<1> QED BY <1>3, <1>8 DEF BudgetInv

(* ADD before the address: nothing is given, nothing is left.              *)
LEMMA BudgetUni ==
  ASSUME Shape, BudgetInv, ensureUNIPrimaryIPRoute \/ UniStep \/ initPodNetworking \/ assignFails
  PROVE  BudgetInv'
<1>0. ProcShape /\ RuleShape
  BY ShapeParts
<1>1. proc.op = "ADD" /\ UNCHANGED <<own, net, rec>>
  BY PrimaryFacts, UniStepFacts, NetworkingFacts, AssignFailsFacts DEF At
<1>2. \A a \in Addr : src'[a] = src[a]
  BY <1>0, PrimaryFacts, UniStepFacts, NetworkingFacts, AssignFailsFacts, Consts DEF RuleShape
<1>3. ~At("ADD", "rollback")'
  <2>1. CASE AddFails
    BY <2>1, NoProcFacts DEF At, AddFails
  <2>2. CASE Again /\ proc.pc = "uni"
    BY <1>0, <2>2, AgainFacts DEF At
  <2>3. CASE \E pc \in {"rp_filter", "uni", "connmark", "assign"} : Goto(pc)
    BY <1>0, <2>3, GotoFacts DEF At
  <2> QED BY <2>1, <2>2, <2>3, PrimaryFacts, UniStepFacts, NetworkingFacts, AssignFailsFacts DEF At
<1>4. Exposed' \subseteq Exposed
  <2>1. \A r \in Sandbox, a \in Addr : Stray(r, a)' => Stray(r, a)
    BY <1>1, StrayKept DEF Exempt
  <2>2. \A a \in Addr : Unowned(a)' => Unowned(a)
    BY <1>1, <1>2 DEF Unowned
  <2>3. Exposed' \subseteq Exposed \cup {}
    BY <1>3, <2>1, <2>2, ExposedWithin
  <2> QED BY <2>3
<1>5. \/ risky' = risky /\ (faults' = faults \/ faults' = faults + 1)
      \/ faults' = faults + 1 /\ risky' = risky \cup {proc.nic}
  BY PrimaryFacts, UniStepFacts, NetworkingFacts, AssignFailsFacts
<1>6. CASE risky' = risky /\ (faults' = faults \/ faults' = faults + 1)
  BY <1>4, <1>6, Free
<1>7. CASE faults' = faults + 1 /\ risky' = risky \cup {proc.nic}
  <2>1. PICK x : x = proc.nic
    OBVIOUS
  <2> QED BY <1>4, <1>7, <2>1, Paid
<1> QED BY <1>5, <1>6, <1>7

(* An address that meets something old was exposed before.                 *)
LEMMA BudgetAssign ==
  ASSUME Shape, FreshInv, BudgetInv, NEW ip \in Addr, assignPodIp(ip)
  PROVE  BudgetInv'
<1>0. ProcShape /\ BookShape
  BY ShapeParts
<1>1. /\ proc.op = "ADD" /\ proc.pc = "assign" /\ (\A r \in Sandbox : own[r] # ip)
      /\ own' = [own EXCEPT ![proc.sb] = ip] /\ UNCHANGED <<net, rec, src>>
  BY AssignFacts DEF At
<1>2. PICK nic \in {proc.nic, Master} :
              /\ proc' = [op |-> "ADD", sb |-> proc.sb, pc |-> "veth", k |-> proc.k, ip |-> ip, nic |-> nic]
              /\ \/ nic = proc.nic /\ faults' = faults
                 \/ nic # proc.nic /\ faults' = faults + 1
              /\ risky' = IF nic # proc.nic \/ Loose(ip) \/ (nic = Master /\ src[ip] # <<>>)
                          THEN risky \cup {ip} ELSE risky
  BY AssignFacts
<1>3. proc.sb \in Sandbox /\ own[proc.sb] = None
  <2>1. proc.sb \in Sandbox
    BY <1>0, <1>1 DEF ProcShape
  <2> QED BY <1>1, <2>1 DEF FreshInv, Past, UniPc
<1>4. \A r \in Sandbox : r # proc.sb => own'[r] = own[r]
  BY <1>0, <1>1 DEF BookShape
<1>5. proc'.op = "ADD" /\ proc'.pc = "veth"
  BY <1>2
<1>6. Exposed' \subseteq Exposed
  <2>1. ASSUME NEW r \in Sandbox, NEW a \in Addr, Stray(r, a)' PROVE Stray(r, a)
    <3>1. a \in {net[r], rec[r]} /\ own'[r] # a /\ ~Exempt(r, a)
      BY <1>1, <2>1 DEF Stray, Exempt
    <3>2. own[r] # a
      BY <1>3, <1>4, <3>1, Consts
    <3> QED BY <3>1, <3>2 DEF Stray
  <2>2. ASSUME NEW a \in Addr, Unowned(a)' PROVE Unowned(a)
    BY <1>1, <1>3, <1>4, <2>2, Consts DEF Unowned
  <2>3. ~At("ADD", "rollback")'
    BY <1>5 DEF At
  <2>4. Exposed' \subseteq Exposed \cup {}
    BY <2>1, <2>2, <2>3, ExposedWithin
  <2> QED BY <2>4
<1>7. CASE nic # proc.nic
  BY <1>2, <1>6, <1>7, Paid
<1>8. CASE nic = proc.nic
  <2>1. Loose(ip) => ip \in Exposed
    BY <1>1 DEF Loose, Exposed, Stray, Exempt
  <2>2. src[ip] # <<>> => ip \in Exposed
    BY <1>1 DEF Exposed, Unowned
  <2>3. risky' \subseteq risky \cup Exposed
    BY <1>2, <1>8, <2>1, <2>2
  <2> QED BY <1>2, <1>6, <1>8, <2>3, Free
<1> QED BY <1>7, <1>8

(* The commands for the pod: what they leave belongs to its sandbox until  *)
(* the address is given back.                                              *)
LEMMA BudgetPod ==
  ASSUME Shape, VethInv, RouteInv, BudgetInv,
         \/ checkAndCleanOldVeth \/ setupVethPair \/ addRouteRuleForPodIp \/ ensureDstIPRoutePolicy
         \/ PodSrcRule \/ setNodePortRange \/ addPodNetworkRecord \/ portmapCmdAdd
  PROVE  BudgetInv'
<1>0. ProcShape /\ RuleShape /\ LinkShape /\ BookShape
  BY ShapeParts
<1>1. proc.op = "ADD" /\ proc.pc \in PodPc /\ own' = own
  BY CleanFacts, PairFacts, RouteFacts, DstFacts, SrcFacts, RangeFacts, RecordFacts, PortFacts DEF At, PodPc
<1>2. proc.sb \in Sandbox /\ proc.ip \in Addr /\ own[proc.sb] = proc.ip /\ ThisPod \in Pod
  BY <1>0, <1>1, Consts DEF ProcShape, ThisPod
<1>3. \A r \in Sandbox : net'[r] \in {net[r], None, own[r]}
  <2>1. CASE LinkDel(ThisPod)
    BY <1>0, <1>2, <2>1, LinkDelFacts
  <2>2. CASE net' = net \/ net' = [net EXCEPT ![proc.sb] = proc.ip]
    BY <1>0, <1>2, <2>2 DEF LinkShape
  <2> QED BY <2>1, <2>2, CleanFacts, PairFacts, RouteFacts, DstFacts, SrcFacts, RangeFacts, RecordFacts, PortFacts
<1>4. \A r \in Sandbox : rec'[r] \in {rec[r], own[r]}
  <2>1. rec' = rec \/ rec' = [rec EXCEPT ![proc.sb] = proc.ip]
    BY CleanFacts, PairFacts, RouteFacts, DstFacts, SrcFacts, RangeFacts, RecordFacts, PortFacts
  <2> QED BY <1>0, <1>2, <2>1 DEF BookShape
<1>5. \A a \in Addr : a # proc.ip => src'[a] = src[a]
  BY <1>0, <1>2, CleanFacts, PairFacts, RouteFacts, DstFacts, SrcFacts, RangeFacts, RecordFacts, PortFacts
     DEF RuleShape
<1>6. \A r \in Sandbox, a \in Addr : Stray(r, a)' => Stray(r, a)
  <2> SUFFICES ASSUME NEW r \in Sandbox, NEW a \in Addr, Stray(r, a)' PROVE Stray(r, a)
    OBVIOUS
  <2>1. own[r] # a /\ a \in {net'[r], rec'[r]}
    BY <1>1 DEF Stray
  <2>2. a \in {net[r], rec[r]}
    BY <1>3, <1>4, <2>1, Consts
  <2> QED BY <1>1, <2>1, <2>2 DEF Stray, Exempt
<1>7. \A a \in Addr : Unowned(a)' => Unowned(a)
  BY <1>1, <1>2, <1>5 DEF Unowned
<1>8. /\ \/ Goto("rollback")
         \/ (\E pc \in PodPc \ {"rollback"} : Goto(pc)) \/ (Again /\ proc.pc = "portmap") \/ AddFails \/ AddOK
      /\ \/ faults' = faults /\ risky' = risky /\ ~Goto("rollback")
         \/ faults' = faults + 1 /\ (risky' = risky \/ risky' = risky \cup {proc.ip})
  <2>1. proc' = NoProc \/ (Again /\ proc.pc = "portmap")
           \/ (\E pc \in PodPc \ {"rollback"} : Goto(pc)) => ~Goto("rollback")
    BY <1>0, <1>1, NoProcFacts, GotoFacts, AgainFacts DEF At
  <2> QED BY <2>1, CleanFacts, PairFacts, RouteFacts, DstFacts, SrcFacts, RangeFacts, RecordFacts, PortFacts
          DEF PodPc, AddOK, AddFails, At
<1>9. At("ADD", "rollback")' => Goto("rollback") /\ proc'.ip = proc.ip
  BY <1>0, <1>8, GotoFacts, AgainFacts, NoProcFacts DEF At, AddFails, AddOK
<1>10. PICK x : x = proc.ip
  OBVIOUS
<1>11. CASE faults' = faults /\ risky' = risky /\ ~Goto("rollback")
  <2>1. Exposed' \subseteq Exposed \cup {}
    BY <1>6, <1>7, <1>9, <1>11, ExposedWithin
  <2> QED BY <1>11, <2>1, Free
<1>12. CASE faults' = faults + 1 /\ (risky' = risky \/ risky' = risky \cup {proc.ip})
  <2>1. Exposed' \subseteq Exposed \cup {x}
    BY <1>6, <1>7, <1>9, <1>10, ExposedWithin
  <2> QED BY <1>10, <1>12, <2>1, Paid
<1> QED BY <1>8, <1>11, <1>12

LEMMA BudgetRollback ==
  ASSUME Shape, BudgetInv, rollbackReleaseIP
  PROVE  BudgetInv'
<1>0. ProcShape /\ BookShape
  BY ShapeParts
<1>1. /\ At("ADD", "rollback") /\ proc.op = "ADD" /\ proc.pc \in PodPc /\ UNCHANGED <<net, rec, src, risky>>
      /\ proc' = NoProc
  BY RollbackFacts DEF At, PodPc, AddFails
<1>2. proc.sb \in Sandbox /\ proc.ip \in Addr /\ own[proc.sb] = proc.ip
  BY <1>0, <1>1 DEF ProcShape
<1>3. PICK x : x = proc.ip
  OBVIOUS
<1>4. x \in Exposed
  BY <1>1, <1>2, <1>3 DEF Exposed
<1>5. \A r \in Sandbox : own'[r] = own[r] \/ own[r] = x
  BY <1>0, <1>2, <1>3, RollbackFacts DEF BookShape
<1>6. \A r \in Sandbox, a \in Addr \ {x} : Stray(r, a)' => Stray(r, a)
  BY <1>1, <1>5 DEF Stray, Exempt
<1>7. \A a \in Addr \ {x} : Unowned(a)' => Unowned(a)
  BY <1>1, <1>5 DEF Unowned
<1>8. ~At("ADD", "rollback")'
  BY <1>1, NoProcFacts DEF At
<1>9. Exposed' \subseteq Exposed \cup {x}
  BY <1>6, <1>7, <1>8, ExposedWithin
<1>10. faults' = faults \/ faults' = faults + 1
  BY RollbackFacts
<1> QED BY <1>1, <1>4, <1>9, <1>10, Free

(* DEL up to the release: what it has found is its own.                    *)
LEMMA BudgetRelease ==
  ASSUME Shape, Alone, ReleaseInv, BudgetInv, getPodNetworkRecord \/ cleanUpIPRoutePolicy \/ releasePodIp
  PROVE  BudgetInv'
<1>0. ProcShape /\ RuleShape
  BY ShapeParts
<1>1. /\ proc.op = "DEL" /\ proc.pc \in {"get", "rules", "release"} /\ UNCHANGED <<net, rec, risky>>
      /\ faults' = faults \/ faults' = faults + 1
  BY GetFacts, RulesFacts, ReleaseFacts DEF At
<1>2. ~At("ADD", "rollback")'
  <2>1. proc'.op \in {"none", "DEL"}
    BY DelStays DEF DelStep
  <2> QED BY <2>1 DEF At
<1>3. \A r, a : ~Exempt(r, a)
  BY <1>1 DEF Exempt
<1>4. CASE own' = own
  <2>1. \A r \in Sandbox, a \in Addr : Stray(r, a)' => Stray(r, a)
    BY <1>1, <1>3, <1>4, StrayKept
  <2>2. \A a \in Addr : src[a] = <<>> => src'[a] = <<>>
    BY <1>0, GetFacts, RulesFacts, ReleaseFacts DEF RuleShape
  <2>3. \A a \in Addr : Unowned(a)' => Unowned(a)
    BY <1>4, <2>2 DEF Unowned
  <2>4. Exposed' \subseteq Exposed \cup {}
    BY <1>2, <2>1, <2>3, ExposedWithin
  <2> QED BY <1>1, <2>4, Free
<1>5. CASE /\ releasePodIp /\ Goto("record")
           /\ own' = [r \in Sandbox |-> IF own[r] = proc.ip THEN None ELSE own[r]]
  <2>1. PICK x : x = proc.ip
    OBVIOUS
  <2>2. At("DEL", "release") /\ src' = src /\ proc.ip \in Addr
    BY <1>0, <1>5, ReleaseFacts DEF At, ProcShape
  <2>3. proc'.op = "DEL" /\ proc'.sb = proc.sb /\ proc'.ip = x /\ proc'.pc = "record"
    BY <1>0, <1>1, <1>5, <2>1, GotoFacts
  <2>4. \A r \in Sandbox : own'[r] = own[r] \/ own[r] = x
    BY <1>5, <2>1
  <2>5. \A r \in Sandbox, a \in Addr \ {x} : Stray(r, a)' => Stray(r, a)
    BY <1>1, <1>3, <2>4 DEF Stray
  <2>6. \A a \in Addr \ {x} : Unowned(a)' => Unowned(a)
    BY <2>2, <2>4 DEF Unowned
  <2>7. CASE x \in risky
    <3>1. Exposed' \subseteq Exposed \cup {x}
      BY <1>2, <2>5, <2>6, ExposedWithin
    <3> QED BY <1>1, <2>7, <3>1, Free
  <2>8. CASE x \notin risky
    <3>1. \A r \in Sandbox \ {proc.sb} : own[r] # x
      BY <2>1, <2>2, <2>8 DEF Alone, DelAlone
    <3>2. \A r \in Sandbox : Stray(r, x)' => Stray(r, x)
      <4> SUFFICES ASSUME NEW r \in Sandbox, Stray(r, x)' PROVE Stray(r, x)
        OBVIOUS
      <4>1. r # proc.sb
        BY <2>3 DEF Stray, Exempt
      <4> QED BY <1>1, <1>3, <3>1, <4>1 DEF Stray
    <3>3. ~Unowned(x)'
      BY <2>1, <2>2 DEF Unowned, ReleaseInv
    <3>4. \A a \in Addr : Unowned(a)' => Unowned(a)
      BY <2>6, <3>3
    <3>5. \A r \in Sandbox, a \in Addr : Stray(r, a)' => Stray(r, a)
      BY <2>5, <3>2
    <3>6. Exposed' \subseteq Exposed \cup {}
      BY <1>2, <3>4, <3>5, ExposedWithin
    <3> QED BY <1>1, <3>6, Free
  <2> QED BY <2>7, <2>8
<1> QED BY <1>4, <1>5, GetFacts, RulesFacts, ReleaseFacts

(* The rest of DEL: a sandbox that has lost its address stays exempt until *)
(* its interface goes, or a fault pays for it.                             *)
LEMMA ExemptTeardown ==
  ASSUME Shape, Teardown, NEW r \in Sandbox, NEW a \in Addr, Exempt(r, a)
  PROVE  faults' = faults + 1 \/ Exempt(r, a)'
<1>0. ProcShape
  BY ShapeParts
<1>1. proc.op = "DEL" /\ proc.sb = r /\ proc.ip = a /\ rec' = rec
  BY TeardownFacts DEF Exempt
<1>2. ASSUME proc.pc # "record", NEW pc \in {"clear", "unlink", "iface"}, Goto(pc) PROVE Exempt(r, a)'
  <2>1. rec'[r] # a
    BY <1>1, <1>2 DEF Exempt
  <2>2. proc'.op = "DEL" /\ proc'.sb = r /\ proc'.ip = a /\ proc'.pc = pc
    BY <1>0, <1>1, <1>2, GotoFacts
  <2> QED BY <2>1, <2>2 DEF Exempt
<1>3. proc.pc # "record"
  BY TeardownFacts
<1>4. CASE portmapCmdDel
  <2>1. \/ faults' = faults + 1
        \/ \E pc \in {"clear", "unlink", "iface"} : Goto(pc)
    BY <1>4, FaultFacts DEF portmapCmdDel, unforwardPorts
  <2> QED BY <1>2, <1>3, <2>1
<1>5. CASE ClearChain
  <2>1. \/ faults' = faults + 1
        \/ Goto("unlink")
    BY <1>5, FaultFacts DEF ClearChain
  <2> QED BY <1>2, <1>3, <2>1
<1>6. CASE DeleteEntries
  <2>1. \/ faults' = faults + 1
        \/ proc' = proc
        \/ Entries(r) = {} /\ nat' = nat /\ Goto("chain")
    BY <1>1, <1>6, FaultFacts DEF DeleteEntries
  <2>2. proc.pc = "unlink"
    BY <1>6 DEF DeleteEntries, At
  <2>3. rec'[r] # a
    BY <1>1, <1>3, <2>2 DEF Exempt
  <2>4. CASE proc' = proc
    BY <1>1, <2>2, <2>3, <2>4 DEF Exempt
  <2>5. CASE Entries(r) = {} /\ nat' = nat /\ Goto("chain")
    <3>1. proc'.op = "DEL" /\ proc'.sb = r /\ proc'.ip = a /\ proc'.pc = "chain"
      BY <1>0, <1>1, <2>5, GotoFacts
    <3>2. Entries(r)' = {}
      BY <2>5 DEF Entries
    <3> QED BY <2>3, <3>1, <3>2 DEF Exempt
  <2> QED BY <2>1, <2>4, <2>5
<1>7. CASE DeleteChain
  <2>1. proc.pc = "chain"
    BY <1>7 DEF DeleteChain, At
  <2>2. Entries(proc.sb) = {}
    BY <1>1, <2>1 DEF Exempt
  <2>3. faults' = faults + 1 \/ Goto("iface")
    BY <1>7, <2>2, FaultFacts DEF DeleteChain
  <2> QED BY <1>2, <1>3, <2>3
<1> QED BY <1>4, <1>5, <1>6, <1>7 DEF Teardown

LEMMA BudgetTeardown ==
  ASSUME Shape, VethInv, RouteInv, BudgetInv, delPodNetworkRecord \/ Teardown \/ DelInterface
  PROVE  BudgetInv'
<1>0. ProcShape /\ LinkShape /\ BookShape
  BY ShapeParts
<1>1. /\ proc.op = "DEL" /\ UNCHANGED <<own, src, risky>>
      /\ faults' = faults \/ faults' = faults + 1
  BY DelRecordFacts, TeardownFacts, IfaceFacts DEF At
<1>2. proc.sb \in Sandbox
  BY <1>0, <1>1 DEF ProcShape
<1>3. ~At("ADD", "rollback")'
  <2>1. proc'.op \in {"none", "DEL"}
    BY DelStays DEF DelStep, Teardown
  <2> QED BY <2>1 DEF At
<1>4. \A a \in Addr : Unowned(a)' => Unowned(a)
  BY <1>1 DEF Unowned
<1>5. \A r \in Sandbox : net'[r] \in {net[r], None} /\ rec'[r] \in {rec[r], None}
  <2>1. DelStep
    BY DEF DelStep, Teardown
  <2> QED BY <2>1, AloneForget
<1>6. PICK x : x = proc.ip
  OBVIOUS
<1>7. CASE faults' = faults + 1
  <2>1. \A r \in Sandbox, a \in Addr \ {x} : Stray(r, a)' => Stray(r, a)
    BY <1>1, <1>5, <1>6, StrayKept DEF Exempt
  <2>2. Exposed' \subseteq Exposed \cup {x}
    BY <1>3, <1>4, <2>1, ExposedWithin
  <2> QED BY <1>1, <1>7, <2>2, Paid
<1>8. CASE faults' = faults
  <2>0. faults' # faults + 1
    BY <1>8 DEF Shape, HistoryShape
  <2>1. ASSUME NEW r \in Sandbox, NEW a \in Addr, Stray(r, a)' PROVE Stray(r, a)
    <3>1. own[r] # a /\ a \in {net[r], rec[r]} /\ a \in {net'[r], rec'[r]} /\ ~Exempt(r, a)'
      BY <1>1, <1>5, <2>1, Consts DEF Stray
    <3>2. CASE Teardown
      BY <2>0, <3>1, <3>2, ExemptTeardown DEF Stray
    <3>3. CASE delPodNetworkRecord
      <4>1. rec' = [rec EXCEPT ![proc.sb] = None] /\ Goto("portmap")
        BY <2>0, <3>3, DelRecordFacts
      <4>2. proc'.op = "DEL" /\ proc'.sb = proc.sb /\ proc'.ip = proc.ip /\ proc'.pc = "portmap"
        BY <1>0, <1>1, <4>1, GotoFacts
      <4>3. rec'[proc.sb] # a
        BY <1>0, <1>2, <4>1, Consts DEF BookShape
      <4>4. ~(proc.sb = r /\ proc.ip = a)
        BY <3>1, <4>2, <4>3 DEF Exempt
      <4> QED BY <3>1, <4>4 DEF Stray, Exempt
    <3>4. CASE DelInterface
      <4>1. DropLinks(proc.sb) /\ rec' = rec /\ proc.pc = "iface"
        BY <2>0, <3>4, IfaceFacts DEF At
      <4>2. net'[proc.sb] = None
        BY <1>0, <1>2, <4>1, DropFacts
      <4>3. ~(proc.sb = r /\ rec[r] # a)
        BY <3>1, <4>1, <4>2, Consts
      <4> QED BY <3>1, <4>1, <4>3 DEF Stray, Exempt
    <3> QED BY <3>2, <3>3, <3>4
  <2>2. Exposed' \subseteq Exposed \cup {}
    BY <1>3, <1>4, <2>1, ExposedWithin
  <2> QED BY <1>1, <2>2, Free
<1> QED BY <1>1, <1>7, <1>8

LEMMA BudgetNode ==
  ASSUME Shape, VethInv, RouteInv, BudgetInv,
         \/ UNCHANGED vars \/ Kill \/ Reboot \/ KubeProxyStarts
         \/ \E s \in Sandbox : StartAdd(s) \/ StartDel(s) \/ ReconcileDelete(s) \/ RemoveNetns(s)
  PROVE  BudgetInv'
<1>0. ProcShape /\ LinkShape /\ BookShape
  BY ShapeParts
<1>1. CASE Kill \/ Reboot
  <2>1. UNCHANGED <<own, rec, risky>> /\ proc' = NoProc /\ faults' = faults + 1
    BY <1>1, KillFacts, RebootFacts DEF AddFails, DelFails
  <2>2. /\ \A r \in Sandbox : net'[r] \in {net[r], None}
        /\ \A a \in Addr : src'[a] \in {src[a], <<>>}
    BY <1>1, KillFacts, RebootFacts
  <2>3. PICK x : x = proc.ip
    OBVIOUS
  <2>4. \A r \in Sandbox, a \in Addr \ {x} : Stray(r, a)' => Stray(r, a)
    BY <2>1, <2>2, <2>3, StrayKept DEF Exempt
  <2>5. \A a \in Addr : Unowned(a)' => Unowned(a)
    BY <2>1, <2>2 DEF Unowned
  <2>6. ~At("ADD", "rollback")'
    BY <2>1, NoProcFacts DEF At
  <2>7. Exposed' \subseteq Exposed \cup {x}
    BY <2>4, <2>5, <2>6, ExposedWithin
  <2> QED BY <2>1, <2>7, Paid
<1>2. CASE \E s \in Sandbox : StartAdd(s) \/ StartDel(s)
  <2>1. UNCHANGED <<own, net, rec, src, risky, faults>> /\ proc = NoProc /\ proc'.pc # "rollback"
    BY <1>2, StartAddFacts, StartDelFacts
  <2>2. \A r \in Sandbox, a \in Addr : Stray(r, a)' => Stray(r, a)
    BY <2>1, StrayKept, NoProcFacts DEF Exempt
  <2>3. \A a \in Addr : Unowned(a)' => Unowned(a)
    BY <2>1 DEF Unowned
  <2>4. Exposed' \subseteq Exposed \cup {}
    BY <2>1, <2>2, <2>3, ExposedWithin DEF At
  <2> QED BY <2>1, <2>4, Free
<1>3. CASE \/ UNCHANGED vars \/ KubeProxyStarts
           \/ \E s \in Sandbox : ReconcileDelete(s) \/ RemoveNetns(s)
  <2>1. /\ UNCHANGED <<own, src, nat, proc, risky>>
        /\ faults' = faults \/ faults' = faults + 1
    BY <1>3, ProxyFacts, ReconcileFacts, NetnsFacts DEF vars, kubeVars, ruleVars, natVars, history
  <2>2. \A r \in Sandbox : net'[r] \in {net[r], None} /\ rec'[r] \in {rec[r], None}
    <3>1. CASE UNCHANGED vars
      BY <3>1 DEF vars, kubeVars, linkVars
    <3> QED BY <1>3, <3>1, AloneForget
  <2>3. \A r \in Sandbox, a \in Addr : Stray(r, a)' => Stray(r, a)
    <3> SUFFICES ASSUME NEW r \in Sandbox, NEW a \in Addr PROVE Stray(r, a)' => Stray(r, a)
      OBVIOUS
    <3>1. rec'[r] = rec[r] \/ rec'[r] # a
      BY <2>2, Consts
    <3> QED BY <2>1, <2>2, <3>1, ExemptSame, StrayKept
  <2>4. \A a \in Addr : Unowned(a)' => Unowned(a)
    BY <2>1 DEF Unowned
  <2>5. Exposed' \subseteq Exposed
    <3> SUFFICES ASSUME NEW a \in Exposed' PROVE a \in Exposed
      OBVIOUS
    <3>1. /\ a \in Addr
          /\ (\E r \in Sandbox : Stray(r, a)') \/ Unowned(a)' \/ (At("ADD", "rollback")' /\ proc'.ip = a)
      BY DEF Exposed
    <3>2. At("ADD", "rollback")' /\ proc'.ip = a => At("ADD", "rollback") /\ proc.ip = a
      BY <2>1 DEF At
    <3> QED BY <2>3, <2>4, <3>1, <3>2 DEF Exposed
  <2> QED BY <2>1, <2>5, Free
<1> QED BY <1>1, <1>2, <1>3

LEMMA BudgetKeeps ==
  ASSUME Shape, VethInv, RouteInv, Alone, ReleaseInv, FreshInv, BudgetInv, [Next]_vars
  PROVE  BudgetInv'
<1>1. CASE AddStep
  BY <1>1, BudgetUni, BudgetAssign, BudgetPod, BudgetRollback DEF AddStep
<1>2. CASE DelStep
  BY <1>2, BudgetRelease, BudgetTeardown DEF DelStep, Teardown
<1>3. CASE \/ UNCHANGED vars \/ Kill \/ Reboot \/ KubeProxyStarts
           \/ \E s \in Sandbox : StartAdd(s) \/ StartDel(s) \/ ReconcileDelete(s) \/ RemoveNetns(s)
  BY <1>3, BudgetNode
<1> QED BY <1>1, <1>2, <1>3 DEF Next

----------------------------------------------------------------------------
(* The theorems.                                                           *)

LEMMA InitIInv == Init => IInv
<1> SUFFICES ASSUME Init PROVE IInv
  OBVIOUS
<1>1. Shape
  <2>1. ProcShape /\ SbShape
    BY NoProcFacts DEF Init, ProcShape, SbShape, NoProc, Live
  <2>2. BookShape /\ LinkShape /\ UniShape
    BY DEF Init, BookShape, LinkShape, UniShape
  <2>3. RuleShape
    BY DEF Init, RuleShape
  <2>4. HistoryShape
    BY FS_EmptySet DEF Init, HistoryShape
  <2> QED BY <2>1, <2>2, <2>3, <2>4 DEF Shape
<1>2. UniReady /\ UniInv /\ ReleaseInv
  BY NoProcFacts DEF Init, UniReady, UniInv, ReleaseInv, At
<1>3. VethInv /\ RouteInv
  BY DEF Init, VethInv, RouteInv
<1>4. Alone
  BY NoProcFacts DEF Init, Alone, OwnOne, OwnAlone, DelAlone, At
<1>5. AddUni /\ AddLink /\ AddRule /\ FreshInv
  BY NoProcFacts DEF Init, AddUni, AddLink, AddRule, FreshInv, Past
<1>6. RunInv
  BY DEF Init, RunInv
<1>7. BudgetInv
  <2>1. risky = {} /\ Exposed = {} /\ faults = 0
    BY Consts, NoProcFacts DEF Init, Exposed, Stray, Unowned, At
  <2>2. Cardinality({}) = 0
    BY FS_EmptySet
  <2>3. risky \cup Exposed = {}
    BY <2>1
  <2> QED BY <2>1, <2>2, <2>3 DEF BudgetInv
<1> QED BY <1>1, <1>2, <1>3, <1>4, <1>5, <1>6, <1>7 DEF IInv

LEMMA StepIInv == IInv /\ [Next]_vars => IInv'
<1> SUFFICES ASSUME IInv, [Next]_vars PROVE IInv'
  OBVIOUS
<1>0. /\ Shape /\ UniReady /\ UniInv /\ VethInv /\ RouteInv /\ Alone
      /\ AddUni /\ AddLink /\ AddRule /\ RunInv /\ ReleaseInv /\ FreshInv /\ BudgetInv
  BY DEF IInv
<1>1. Shape' /\ UniReady' /\ UniInv' /\ VethInv' /\ RouteInv' /\ Alone'
  BY <1>0, ShapeStep, UniKeeps, LinkKeeps, AloneKeeps
<1>2. AddUni' /\ AddLink' /\ AddRule' /\ RunInv'
  BY <1>0, AddKeeps, RunKeeps
<1>3. ReleaseInv' /\ FreshInv' /\ BudgetInv'
  BY <1>0, ReleaseKeeps, FreshKeeps, BudgetKeeps
<1> QED BY <1>1, <1>2, <1>3 DEF IInv

LEMMA Invariant == Spec => []IInv
BY InitIInv, StepIInv, PTL DEF Spec

(* A secondary interface with a default route has everything else too, so  *)
(* that ensureUNIPrimaryIPRoute may skip the rest when it sees the route:  *)
(* no failure and no death of the plugin leaves one with the route only,   *)
(* but for the one whose error the code drops (the kernel's own route).    *)
THEOREM InterfacesReady == Spec => []UniReady
<1>1. IInv => UniReady
  BY DEF IInv
<1> QED BY <1>1, Invariant, PTL

(* The packets to and from a running pod take the right way, whatever      *)
(* other pods were set up, torn down, killed half way or rebooted over in  *)
(* between, and no more addresses and interfaces than there were faults    *)
(* are exempt from it.                                                     *)
THEOREM PodsRoutedRight == Spec => []PodRouted
<1>1. IInv => PodRouted
  <2> SUFFICES ASSUME IInv PROVE PodRouted
    OBVIOUS
  <2>0. Shape /\ RunInv /\ BudgetInv
    BY DEF IInv
  <2>1. Cardinality(risky) <= faults
    <3>1. IsFiniteSet(risky \cup Exposed)
      BY <2>0, ExposedFinite
    <3>2. PICK W : W = risky \cup Exposed
      OBVIOUS
    <3>3. Cardinality(risky) <= Cardinality(W) /\ Cardinality(W) \in Nat /\ Cardinality(risky) \in Nat
      BY <3>1, <3>2, FS_Subset, FS_CardinalityType
    <3>4. Cardinality(W) <= faults /\ faults \in Nat
      BY <2>0, <3>2 DEF BudgetInv, Shape, HistoryShape
    <3> QED BY <3>3, <3>4
  <2>2. ASSUME NEW s \in Sandbox, sb[s] = "running", net[s] \notin risky
        PROVE  /\ veth[PodOf[s]] = s /\ route[net[s]] = PodOf[s] /\ net[s] \in dst
               /\ IF NicOf[s] = Master THEN src[net[s]] = <<>>
                  ELSE /\ src[net[s]] # <<>> /\ Head(src[net[s]]) = NicOf[s]
                       /\ src[NicOf[s]] = <<NicOf[s]>> /\ "default" \in uni[NicOf[s]]
                       /\ shared = {"rp_filter", "connmark"}
    <3>1. veth[PodOf[s]] = s /\ Routed(s)
      BY <2>0, <2>2 DEF RunInv
    <3> QED BY <3>1 DEF Routed, UniDone
  <2> QED BY <2>1, <2>2 DEF PodRouted
<1> QED BY <1>1, Invariant, PTL

----------------------------------------------------------------------------
(* What is left of the ip rules.                                           *)

(* An address with a rule is charged to a fault when no sandbox that       *)
(* kubelet will still tear down has it, or when DEL will not be told of    *)
(* it: the rollback gives it back, or there is no record of it.            *)
Ruled(a) == a \in dst \/ src[a] # <<>>
Kept(a) == \E s \in Sandbox : own[s] = a /\ sb[s] \in Live
Unrecorded(s) == rec[s] = None /\ ~(proc.op = "ADD" /\ proc.sb = s)
Forgotten(a) == \E s \in Sandbox : own[s] = a /\ Unrecorded(s)
RollsBack(a) == At("ADD", "rollback") /\ proc.ip = a
Charged == {a \in Addr : Ruled(a) /\ (~Kept(a) \/ RollsBack(a) \/ Forgotten(a))}
RuleBudget == Cardinality(Charged) <= faults

(* A record says which address its sandbox has, from the end of ADD to the *)
(* release, and DEL releases an address without rules.                     *)
RecordInv ==
  /\ \A s \in Sandbox : rec[s] # None /\ own[s] # None => rec[s] = own[s]
  /\ \A s \in Sandbox : sb[s] = "none" => rec[s] = None
  /\ proc.op = "ADD" =>
       (proc.pc # "portmap" => rec[proc.sb] = None) /\ (proc.pc = "portmap" => rec[proc.sb] = proc.ip)
  /\ At("DEL", "rules") \/ At("DEL", "release") => own[proc.sb] \in {None, proc.ip}
  /\ At("DEL", "release") => ~Ruled(proc.ip)
  /\ At("DEL", "record") => own[proc.sb] = None
  /\ proc.op = "DEL" /\ proc.pc \in {"portmap", "clear", "unlink", "chain", "iface"} =>
       own[proc.sb] = None \/ rec[proc.sb] = None

LEMMA RecordSame ==
  ASSUME RecordInv, UNCHANGED <<rec, own, dst, src, sb, proc>>
  PROVE  RecordInv'
BY DEF RecordInv, Ruled, At

(* ADD up to the record.                                                   *)
LEMMA RecordUni ==
  ASSUME Shape, RecordInv, FreshInv, ensureUNIPrimaryIPRoute \/ UniStep \/ initPodNetworking \/ assignFails
  PROVE  RecordInv'
<1>0. ProcShape /\ SbShape /\ BookShape
  BY ShapeParts
<1>1. proc.op = "ADD" /\ proc.pc \in UniPc /\ proc.sb \in Sandbox /\ UNCHANGED <<rec, own>>
  BY <1>0, PrimaryFacts, UniStepFacts, NetworkingFacts, AssignFailsFacts DEF At, UniPc, ProcShape
<1>2. rec[proc.sb] = None
  BY <1>1 DEF RecordInv, UniPc
<1>3. sb' = sb \/ (AddFails /\ sb' = [sb EXCEPT ![proc.sb] = "deleting"])
  BY PrimaryFacts, UniStepFacts, NetworkingFacts, AssignFailsFacts DEF AddFails
<1>4. \A s \in Sandbox : sb'[s] = "none" => rec'[s] = None
  BY <1>0, <1>1, <1>3 DEF RecordInv, SbShape
<1>5. CASE AddFails
  BY <1>1, <1>4, <1>5, NoProcFacts DEF RecordInv, AddFails, At
<1>6. CASE Again
  BY <1>0, <1>1, <1>2, <1>4, <1>6, AgainFacts DEF RecordInv, At, UniPc
<1>7. CASE \E pc \in {"rp_filter", "uni", "connmark", "assign"} : Goto(pc)
  BY <1>0, <1>1, <1>2, <1>4, <1>7, GotoFacts DEF RecordInv, At, UniPc
<1> QED BY <1>5, <1>6, <1>7, PrimaryFacts, UniStepFacts, NetworkingFacts, AssignFailsFacts

LEMMA RecordPod ==
  ASSUME Shape, RecordInv, FreshInv,
         \/ checkAndCleanOldVeth \/ setupVethPair \/ addRouteRuleForPodIp
         \/ ensureDstIPRoutePolicy \/ PodSrcRule \/ setNodePortRange
         \/ \E ip \in Addr : assignPodIp(ip)
  PROVE  RecordInv'
<1>0. ProcShape /\ SbShape /\ BookShape
  BY ShapeParts
<1>1. /\ proc.op = "ADD" /\ proc.pc \in (PodPc \cup {"assign"}) \ {"portmap"} /\ proc.sb \in Sandbox
      /\ UNCHANGED <<rec, sb>>
  BY <1>0, CleanFacts, PairFacts, RouteFacts, DstFacts, SrcFacts, RangeFacts, AssignFacts DEF At, PodPc, ProcShape
<1>2. rec[proc.sb] = None
  BY <1>1 DEF RecordInv
<1>3. \A s \in Sandbox : s # proc.sb => own'[s] = own[s]
  BY <1>0, CleanFacts, PairFacts, RouteFacts, DstFacts, SrcFacts, RangeFacts, AssignFacts DEF BookShape
<1>4. proc'.op = "ADD" /\ proc'.sb = proc.sb /\ proc'.pc # "portmap"
  <2>1. CASE \E ip \in Addr : assignPodIp(ip)
    BY <2>1, AssignFacts
  <2>2. CASE \E pc \in {"pair", "route", "dst", "src", "range", "record", "rollback"} : Goto(pc)
    BY <1>0, <1>1, <2>2, GotoFacts
  <2> QED BY <2>1, <2>2, CleanFacts, PairFacts, RouteFacts, DstFacts, SrcFacts, RangeFacts
<1> QED BY <1>1, <1>2, <1>3, <1>4 DEF RecordInv, At

LEMMA RecordEnds ==
  ASSUME Shape, RecordInv, rollbackReleaseIP \/ addPodNetworkRecord \/ portmapCmdAdd
  PROVE  RecordInv'
<1>0. ProcShape /\ SbShape /\ BookShape
  BY ShapeParts
<1>1. proc.op = "ADD" /\ proc.pc \in PodPc /\ proc.sb \in Sandbox /\ own[proc.sb] = proc.ip /\ proc.ip \in Addr
  BY <1>0, RollbackFacts, RecordFacts, PortFacts DEF At, PodPc, ProcShape
<1>2. CASE addPodNetworkRecord /\ Goto("portmap")
  <2>1. rec' = [rec EXCEPT ![proc.sb] = proc.ip] /\ UNCHANGED <<own, sb>>
    BY <1>0, <1>1, <1>2, RecordFacts, GotoFacts, NoProcFacts DEF AddFails
  <2>2. proc'.op = "ADD" /\ proc'.sb = proc.sb /\ proc'.pc = "portmap" /\ proc'.ip = proc.ip
    BY <1>0, <1>1, <1>2, GotoFacts
  <2>3. sb[proc.sb] = "adding"
    BY <1>0, <1>1 DEF ProcShape
  <2> QED BY <1>0, <1>1, <2>1, <2>2, <2>3 DEF RecordInv, At, BookShape
<1>3. CASE /\ proc' = NoProc /\ rec' = rec
           /\ \A s \in Sandbox : own'[s] \in {own[s], None}
           /\ \A s \in Sandbox : sb'[s] = "none" => sb[s] = "none"
  BY <1>3, NoProcFacts DEF RecordInv, At
<1>4. CASE portmapCmdAdd /\ Again
  <2>1. UNCHANGED <<rec, own, sb>>
    BY <1>0, <1>1, <1>4, PortFacts, AgainFacts, NoProcFacts DEF AddOK, AddFails
  <2> QED BY <1>0, <1>1, <1>4, <2>1, AgainFacts DEF RecordInv, At
<1>5. ASSUME AddFails \/ AddOK PROVE proc' = NoProc /\ \A s \in Sandbox : sb'[s] = "none" => sb[s] = "none"
  BY <1>0, <1>1, <1>5 DEF AddFails, AddOK, SbShape
<1>6. ASSUME rollbackReleaseIP \/ portmapCmdAdd \/ addPodNetworkRecord PROVE \A s \in Sandbox : own'[s] \in {own[s], None}
  BY <1>0, <1>6, RollbackFacts, RecordFacts, PortFacts DEF BookShape
<1> QED BY <1>2, <1>3, <1>4, <1>5, <1>6, RollbackFacts, RecordFacts, PortFacts

LEMMA RecordDel ==
  ASSUME Shape, RecordInv, getPodNetworkRecord \/ cleanUpIPRoutePolicy \/ releasePodIp \/ delPodNetworkRecord
  PROVE  RecordInv'
<1>0. ProcShape /\ SbShape /\ BookShape /\ RuleShape
  BY ShapeParts
<1>1. proc.op = "DEL" /\ proc.sb \in Sandbox
  BY <1>0, GetFacts, RulesFacts, ReleaseFacts, DelRecordFacts DEF At, ProcShape
<1>2. ASSUME DelOK \/ DelFails PROVE proc' = NoProc /\ \A s \in Sandbox : sb'[s] = "none" => sb[s] = "none"
  BY <1>0, <1>1, <1>2 DEF DelOK, DelFails, SbShape
<1>3. ASSUME proc' = NoProc, UNCHANGED <<rec, own>>, \A s \in Sandbox : sb'[s] = "none" => sb[s] = "none"
      PROVE  RecordInv'
  BY <1>3, NoProcFacts DEF RecordInv, At
<1>4. CASE getPodNetworkRecord
  <2>0. UNCHANGED <<rec, own, dst, src>>
    BY <1>4, GetFacts
  <2>1. CASE /\ rec[proc.sb] # None /\ sb' = sb
             /\ proc' = [op |-> "DEL", sb |-> proc.sb, pc |-> "rules", k |-> proc.k,
                         ip |-> rec[proc.sb], nic |-> proc.nic]
    BY <1>1, <2>0, <2>1 DEF RecordInv, At
  <2>2. CASE rec[proc.sb] = None /\ Goto("portmap") /\ sb' = sb
    BY <1>0, <1>1, <2>0, <2>2, GotoFacts DEF RecordInv, At
  <2> QED BY <1>2, <1>3, <1>4, <2>0, <2>1, <2>2, GetFacts
<1>5. CASE cleanUpIPRoutePolicy
  <2>0. UNCHANGED <<rec, own>> /\ At("DEL", "rules") /\ proc.ip \in Addr
    BY <1>5, RulesFacts
  <2>1. CASE dst' = dst \ {proc.ip} /\ src' = [src EXCEPT ![proc.ip] = <<>>] /\ Goto("release") /\ sb' = sb
    <3>1. proc'.op = "DEL" /\ proc'.sb = proc.sb /\ proc'.pc = "release" /\ proc'.ip = proc.ip
      BY <1>0, <1>1, <2>1, GotoFacts
    <3>2. ~Ruled(proc.ip)'
      <4>1. src'[proc.ip] = <<>>
        BY <1>0, <2>0, <2>1 DEF RuleShape
      <4> QED BY <2>1, <3>1, <4>1 DEF Ruled
    <3> QED BY <2>0, <2>1, <3>1, <3>2 DEF RecordInv, At
  <2> QED BY <1>2, <1>3, <1>5, <2>0, <2>1, RulesFacts
<1>6. CASE releasePodIp
  <2>0. UNCHANGED <<rec, dst, src>> /\ At("DEL", "release")
    BY <1>6, ReleaseFacts
  <2>1. CASE own' = [r \in Sandbox |-> IF own[r] = proc.ip THEN None ELSE own[r]] /\ Goto("record") /\ sb' = sb
    <3>1. proc'.op = "DEL" /\ proc'.sb = proc.sb /\ proc'.pc = "record"
      BY <1>0, <1>1, <2>1, GotoFacts
    <3>2. own'[proc.sb] = None
      BY <1>1, <2>0, <2>1 DEF RecordInv
    <3>3. \A s \in Sandbox : own'[s] \in {own[s], None}
      BY <2>1
    <3> QED BY <2>0, <2>1, <3>1, <3>2, <3>3 DEF RecordInv, At
  <2> QED BY <1>2, <1>3, <1>6, <2>0, <2>1, ReleaseFacts
<1>7. CASE delPodNetworkRecord
  <2>1. /\ At("DEL", "record") /\ UNCHANGED <<sb, own>> /\ Goto("portmap")
        /\ \A s \in Sandbox : rec'[s] \in {rec[s], None}
    BY <1>0, <1>7, DelRecordFacts DEF BookShape
  <2>2. proc'.op = "DEL" /\ proc'.sb = proc.sb /\ proc'.pc = "portmap"
    BY <1>0, <1>1, <2>1, GotoFacts
  <2>3. own'[proc.sb] = None
    BY <1>1, <2>1 DEF RecordInv
  <2> QED BY <2>1, <2>2, <2>3 DEF RecordInv, At
<1> QED BY <1>4, <1>5, <1>6, <1>7

LEMMA RecordTeardown ==
  ASSUME Shape, RecordInv, Teardown \/ DelInterface
  PROVE  RecordInv'
<1>0. ProcShape /\ SbShape
  BY ShapeParts
<1>1. /\ proc.op = "DEL" /\ proc.sb \in Sandbox /\ UNCHANGED <<rec, own>>
      /\ proc.pc \in {"portmap", "clear", "unlink", "chain", "iface"}
  BY <1>0, TeardownFacts, IfaceFacts DEF At, ProcShape
<1>2. own[proc.sb] = None \/ rec[proc.sb] = None
  BY <1>1 DEF RecordInv
<1>3. CASE DelOK \/ DelFails
  <2>1. proc' = NoProc /\ \A s \in Sandbox : sb'[s] = "none" => sb[s] = "none"
    BY <1>0, <1>1, <1>3 DEF DelOK, DelFails, SbShape
  <2> QED BY <1>1, <2>1, NoProcFacts DEF RecordInv, At
<1>4. CASE UNCHANGED <<proc, sb>>
  BY <1>1, <1>2, <1>4 DEF RecordInv, At
<1>5. CASE (\E pc \in {"clear", "unlink", "chain", "iface"} : Goto(pc)) /\ sb' = sb
  BY <1>0, <1>1, <1>2, <1>5, GotoFacts DEF RecordInv, At
<1> QED BY <1>3, <1>4, <1>5, TeardownFacts, IfaceFacts

LEMMA RecordNode ==
  ASSUME Shape, RecordInv,
         \/ UNCHANGED vars \/ Kill \/ Reboot \/ KubeProxyStarts
         \/ \E s \in Sandbox : StartAdd(s) \/ StartDel(s) \/ ReconcileDelete(s) \/ RemoveNetns(s)
  PROVE  RecordInv'
<1>0. ProcShape /\ SbShape /\ BookShape
  BY ShapeParts
<1>1. CASE Kill \/ Reboot
  <2>1. UNCHANGED <<rec, own>> /\ proc' = NoProc
    BY <1>1, KillFacts, RebootFacts DEF AddFails, DelFails
  <2>2. \A s \in Sandbox : sb'[s] = "none" => sb[s] = "none"
    BY <1>0, <1>1, KillFacts, RebootFacts DEF AddFails, DelFails, SbShape, ProcShape
  <2> QED BY <2>1, <2>2, NoProcFacts DEF RecordInv, At
<1>2. CASE UNCHANGED vars \/ KubeProxyStarts
  BY <1>2, ProxyFacts, RecordSame DEF vars, kubeVars, ruleVars
<1>3. CASE \E s \in Sandbox : StartAdd(s)
  <2>1. PICK s \in Sandbox : StartAdd(s)
    BY <1>3
  <2>2. /\ sb[s] = "none" /\ UNCHANGED <<rec, own>> /\ proc'.op = "ADD" /\ proc'.sb = s /\ proc'.pc # "portmap"
        /\ \A r \in Sandbox : sb'[r] = "none" => sb[r] = "none"
    BY <1>0, <2>1, StartAddFacts DEF SbShape
  <2> QED BY <2>2 DEF RecordInv, At
<1>4. CASE \E s \in Sandbox : StartDel(s)
  <2>1. PICK s \in Sandbox : StartDel(s)
    BY <1>4
  <2>2. /\ UNCHANGED <<rec, own>> /\ proc'.op = "DEL" /\ proc'.pc = "get"
        /\ \A r \in Sandbox : sb'[r] = "none" => sb[r] = "none"
    BY <1>0, <2>1, StartDelFacts DEF SbShape
  <2> QED BY <2>2 DEF RecordInv, At
<1>5. CASE \E s \in Sandbox : ReconcileDelete(s)
  <2>1. PICK s \in Sandbox : ReconcileDelete(s)
    BY <1>5
  <2>2. /\ UNCHANGED <<proc, own, dst, src>> /\ sb[s] \in {"running", "deleting"}
        /\ \A r \in Sandbox : rec'[r] \in {rec[r], None}
        /\ \A r \in Sandbox : r # s => rec'[r] = rec[r]
        /\ \A r \in Sandbox : sb'[r] = "none" => sb[r] = "none"
    BY <1>0, <2>1, ReconcileFacts DEF SbShape, BookShape
  <2>3. proc.op = "ADD" => proc.sb \in Sandbox /\ sb[proc.sb] = "adding"
    BY <1>0 DEF ProcShape
  <2>4. proc.op = "DEL" => proc.sb \in Sandbox
    BY <1>0 DEF ProcShape
  <2>5. proc.op = "ADD" => rec'[proc.sb] = rec[proc.sb]
    BY <2>2, <2>3
  <2>6. (At("DEL", "release") => ~Ruled(proc.ip))'
    BY <2>2 DEF RecordInv, Ruled, At
  <2> QED BY <2>2, <2>4, <2>5, <2>6 DEF RecordInv, At
<1>6. CASE \E s \in Sandbox : RemoveNetns(s)
  <2>1. PICK s \in Sandbox : RemoveNetns(s)
    BY <1>6
  <2>2. /\ UNCHANGED <<proc, own, rec, dst, src>>
        /\ \A r \in Sandbox : sb'[r] = "none" => sb[r] = "none"
    BY <1>0, <2>1, NetnsFacts DEF SbShape
  <2>3. (At("DEL", "release") => ~Ruled(proc.ip))'
    BY <2>2 DEF RecordInv, Ruled, At
  <2> QED BY <2>2, <2>3 DEF RecordInv, At
<1> QED BY <1>1, <1>2, <1>3, <1>4, <1>5, <1>6

LEMMA RecordKeeps ==
  ASSUME Shape, FreshInv, RecordInv, [Next]_vars
  PROVE  RecordInv'
<1>1. CASE AddStep
  BY <1>1, RecordUni, RecordPod, RecordEnds DEF AddStep
<1>2. CASE DelStep
  BY <1>2, RecordDel, RecordTeardown DEF DelStep, Teardown
<1>3. CASE \/ UNCHANGED vars \/ Kill \/ Reboot \/ KubeProxyStarts
           \/ \E s \in Sandbox : StartAdd(s) \/ StartDel(s) \/ ReconcileDelete(s) \/ RemoveNetns(s)
  BY <1>3, RecordNode
<1> QED BY <1>1, <1>2, <1>3 DEF Next

LEMMA ChargedFinite == IsFiniteSet(Charged) /\ IsFiniteSet(Charged') /\ Cardinality(Charged) \in Nat
<1>1. IsFiniteSet(Addr) /\ Charged \subseteq Addr /\ Charged' \subseteq Addr
  BY Consts DEF Charged
<1> QED BY <1>1, FS_Subset, FS_CardinalityType

(* A step charges no address, or a fault pays for the one it charges.      *)
LEMMA RuleBudgetStep ==
  ASSUME Shape, RuleBudget, NEW x,
         \/ Charged' \subseteq Charged /\ faults' \in {faults, faults + 1}
         \/ Charged' \subseteq Charged \cup {x} /\ faults' = faults + 1
  PROVE  RuleBudget'
<1>0. PICK V : V = Charged'
  OBVIOUS
<1>1. PICK W : W = Charged
  OBVIOUS
<1>2. IsFiniteSet(W) /\ Cardinality(W) \in Nat /\ Cardinality(W) <= faults /\ faults \in Nat
  BY <1>1, ChargedFinite DEF RuleBudget, Shape, HistoryShape
<1>3. PICK U : U = W \cup {x}
  OBVIOUS
<1>4. IsFiniteSet(U) /\ Cardinality(U) <= Cardinality(W) + 1 /\ Cardinality(U) \in Nat
  <2>1. IsFiniteSet(U) /\ Cardinality(U) <= Cardinality(W) + 1
    BY <1>2, <1>3, FS_AddElement
  <2> QED BY <2>1, FS_CardinalityType
<1>5. CASE V \subseteq W /\ faults' \in {faults, faults + 1}
  <2>1. Cardinality(V) <= Cardinality(W) /\ Cardinality(V) \in Nat
    BY <1>2, <1>5, FS_Subset, FS_CardinalityType
  <2>2. Cardinality(V) <= faults'
    BY <1>2, <1>5, <2>1
  <2> QED BY <1>0, <2>2 DEF RuleBudget
<1>6. CASE V \subseteq U /\ faults' = faults + 1
  <2>1. Cardinality(V) <= Cardinality(U) /\ Cardinality(V) \in Nat
    BY <1>4, <1>6, FS_Subset, FS_CardinalityType
  <2>2. Cardinality(V) <= faults'
    BY <1>2, <1>4, <1>6, <2>1
  <2> QED BY <1>0, <2>2 DEF RuleBudget
<1> QED BY <1>0, <1>1, <1>3, <1>5, <1>6

LEMMA ChargedWithin ==
  ASSUME NEW X, \A a \in Addr \ X : Ruled(a)' => Ruled(a),
         \A a \in Addr \ X : Ruled(a)' /\ Kept(a) /\ ~Kept(a)' => Forgotten(a) \/ RollsBack(a),
         \A a \in Addr \ X : RollsBack(a)' => RollsBack(a),
         \A a \in Addr \ X : Forgotten(a)' => Forgotten(a) \/ RollsBack(a)
  PROVE  Charged' \subseteq Charged \cup X
BY DEF Charged

(* ADD before the address.                                                 *)
LEMMA ChargeUni ==
  ASSUME Shape, FreshInv, RuleBudget, ensureUNIPrimaryIPRoute \/ UniStep \/ initPodNetworking \/ assignFails
  PROVE  RuleBudget'
<1>0. ProcShape /\ SbShape /\ RuleShape
  BY ShapeParts
<1>1. proc.op = "ADD" /\ proc.pc \in UniPc /\ proc.sb \in Sandbox /\ UNCHANGED <<rec, own, dst>>
  BY <1>0, PrimaryFacts, UniStepFacts, NetworkingFacts, AssignFailsFacts DEF At, UniPc, ProcShape
<1>2. own[proc.sb] = None
  BY <1>1 DEF FreshInv, Past
<1>3. \A a \in Addr : src'[a] = src[a]
  BY <1>0, PrimaryFacts, UniStepFacts, NetworkingFacts, AssignFailsFacts, Consts DEF RuleShape
<1>4. \A s \in Sandbox : sb'[s] = sb[s] \/ sb'[s] = "deleting"
  BY <1>0, <1>1, PrimaryFacts, UniStepFacts, NetworkingFacts, AssignFailsFacts DEF AddFails, SbShape
<1>5. proc'.pc # "rollback" /\ (proc' = NoProc \/ (proc'.op = "ADD" /\ proc'.sb = proc.sb))
  <2>1. CASE AddFails
    BY <2>1, NoProcFacts DEF AddFails
  <2>2. CASE Again
    BY <1>0, <1>1, <2>2, AgainFacts DEF UniPc
  <2>3. CASE \E pc \in {"rp_filter", "uni", "connmark", "assign"} : Goto(pc)
    BY <1>0, <1>1, <2>3, GotoFacts
  <2> QED BY <2>1, <2>2, <2>3, PrimaryFacts, UniStepFacts, NetworkingFacts, AssignFailsFacts
<1>6. \A a \in Addr : Ruled(a)' => Ruled(a)
  BY <1>1, <1>3 DEF Ruled
<1>7. \A a \in Addr : Kept(a) => Kept(a)'
  BY <1>1, <1>4 DEF Kept, Live
<1>8. \A a \in Addr : ~RollsBack(a)'
  BY <1>5 DEF RollsBack, At
<1>9. \A a \in Addr : Forgotten(a)' => Forgotten(a)
  BY <1>1, <1>2, Consts DEF Forgotten, Unrecorded
<1>10. Charged' \subseteq Charged \cup {}
  BY <1>6, <1>7, <1>8, <1>9, ChargedWithin
<1>11. faults' \in {faults, faults + 1}
  BY PrimaryFacts, UniStepFacts, NetworkingFacts, AssignFailsFacts
<1> QED BY <1>10, <1>11, RuleBudgetStep

(* ADD with an address: the sandbox keeps it, and a failure pays.          *)
LEMMA ChargePod ==
  ASSUME Shape, Alone, FreshInv, RuleBudget,
         \/ checkAndCleanOldVeth \/ setupVethPair \/ addRouteRuleForPodIp
         \/ ensureDstIPRoutePolicy \/ PodSrcRule \/ setNodePortRange
         \/ \E ip \in Addr : assignPodIp(ip)
  PROVE  RuleBudget'
<1>0. ProcShape /\ SbShape /\ BookShape /\ RuleShape
  BY ShapeParts
<1>1. /\ proc.op = "ADD" /\ proc.pc \in (PodPc \cup {"assign"}) /\ proc.sb \in Sandbox
      /\ sb[proc.sb] = "adding" /\ UNCHANGED <<rec, sb>>
  BY <1>0, CleanFacts, PairFacts, RouteFacts, DstFacts, SrcFacts, RangeFacts, AssignFacts DEF At, PodPc, ProcShape
<1>2. PICK x : x = proc'.ip
  OBVIOUS
<1>3. CASE \E ip \in Addr : assignPodIp(ip)
  <2>1. PICK ip \in Addr : assignPodIp(ip)
    BY <1>3
  <2>2. /\ proc'.op = "ADD" /\ proc'.sb = proc.sb /\ proc'.pc = "veth" /\ own' = [own EXCEPT ![proc.sb] = ip]
        /\ UNCHANGED <<dst, src>> /\ At("ADD", "assign") /\ faults' \in {faults, faults + 1}
    BY <2>1, AssignFacts
  <2>3. own[proc.sb] = None
    BY <1>1, <2>2 DEF FreshInv, Past, UniPc, At
  <2>4. own'[proc.sb] = ip /\ \A s \in Sandbox \ {proc.sb} : own'[s] = own[s]
    BY <1>0, <1>1, <2>2 DEF BookShape
  <2>5. \A a \in Addr : Ruled(a)' => Ruled(a)
    BY <2>2 DEF Ruled
  <2>6. \A a \in Addr : Kept(a) => Kept(a)'
    <3> SUFFICES ASSUME NEW a \in Addr, NEW s \in Sandbox, own[s] = a, sb[s] \in Live PROVE Kept(a)'
      BY DEF Kept
    <3>1. s # proc.sb
      BY <2>3, Consts
    <3> QED BY <1>1, <2>4, <3>1 DEF Kept
  <2>7. \A a \in Addr : ~RollsBack(a)'
    BY <2>2 DEF RollsBack, At
  <2>8. \A a \in Addr : Forgotten(a)' => Forgotten(a)
    BY <1>1, <2>2, <2>4 DEF Forgotten, Unrecorded
  <2>9. Charged' \subseteq Charged \cup {}
    BY <2>5, <2>6, <2>7, <2>8, ChargedWithin
  <2> QED BY <2>2, <2>9, RuleBudgetStep
<1>4. CASE \/ checkAndCleanOldVeth \/ setupVethPair \/ addRouteRuleForPodIp
           \/ ensureDstIPRoutePolicy \/ PodSrcRule \/ setNodePortRange
  <2>1. PICK pc \in {"pair", "route", "dst", "src", "range", "record", "rollback"} :
          /\ Goto(pc) /\ own' = own
          /\ \/ pc # "rollback" /\ faults' = faults
             \/ faults' = faults + 1
    BY <1>4, CleanFacts, PairFacts, RouteFacts, DstFacts, SrcFacts, RangeFacts
  <2>2. proc'.op = "ADD" /\ proc'.sb = proc.sb /\ proc'.pc = pc /\ proc.ip = x
    BY <1>0, <1>1, <1>2, <2>1, GotoFacts
  <2>3. own[proc.sb] = x
    <3>1. proc.pc \in PodPc
      BY <1>4, CleanFacts, PairFacts, RouteFacts, DstFacts, SrcFacts, RangeFacts DEF At, PodPc
    <3> QED BY <1>0, <1>1, <2>2, <3>1 DEF ProcShape
  <2>4. \A a \in Addr \ {x} : src'[a] = src[a] /\ (a \in dst' => a \in dst)
    <3>1. CASE PodSrcRule
      BY <1>0, <2>2, <3>1, SrcFacts DEF RuleShape
    <3>2. CASE ensureDstIPRoutePolicy
      BY <2>2, <3>2, DstFacts
    <3> QED BY <1>4, <3>1, <3>2, CleanFacts, PairFacts, RouteFacts, RangeFacts
  <2>5. \A a \in Addr \ {x} : Ruled(a)' => Ruled(a)
    BY <2>4 DEF Ruled
  <2>6. \A a \in Addr : Kept(a) => Kept(a)'
    BY <1>1, <2>1 DEF Kept
  <2>7. \A a \in Addr \ {x} : ~RollsBack(a)'
    BY <1>2 DEF RollsBack
  <2>8. \A a \in Addr : Forgotten(a)' => Forgotten(a)
    BY <1>1, <2>1, <2>2 DEF Forgotten, Unrecorded
  <2>9. Charged' \subseteq Charged \cup {x}
    BY <2>5, <2>6, <2>7, <2>8, ChargedWithin
  <2>10. CASE pc # "rollback" /\ faults' = faults
    <3>1. x \notin Charged'
      <4>1. Kept(x)'
        BY <1>1, <2>1, <2>3 DEF Kept, Live
      <4>2. ~RollsBack(x)'
        BY <2>2, <2>10 DEF RollsBack, At
      <4>3. ASSUME x \in Addr PROVE ~Forgotten(x)'
        BY <1>1, <2>1, <2>2, <2>3, <4>3, Consts DEF Alone, OwnOne, Forgotten, Unrecorded
      <4> QED BY <4>1, <4>2, <4>3 DEF Charged
    <3>2. Charged' \subseteq Charged
      BY <2>9, <3>1
    <3> QED BY <2>10, <3>2, RuleBudgetStep
  <2> QED BY <2>1, <2>9, <2>10, RuleBudgetStep
<1> QED BY <1>3, <1>4

LEMMA ChargeEnds ==
  ASSUME Shape, RecordInv, RuleBudget, rollbackReleaseIP \/ addPodNetworkRecord \/ portmapCmdAdd
  PROVE  RuleBudget'
<1>0. ProcShape /\ SbShape /\ BookShape
  BY ShapeParts
<1>1. /\ proc.op = "ADD" /\ proc.pc \in PodPc /\ proc.sb \in Sandbox /\ own[proc.sb] = proc.ip /\ proc.ip \in Addr
      /\ UNCHANGED <<dst, src>> /\ faults' \in {faults, faults + 1}
  BY <1>0, RollbackFacts, RecordFacts, PortFacts DEF At, PodPc, ProcShape
<1>2. PICK x : x = proc.ip
  OBVIOUS
<1>3. \A a \in Addr : Ruled(a)' => Ruled(a)
  BY <1>1 DEF Ruled
<1>4. \A s \in Sandbox : sb[s] \in Live => sb'[s] \in Live
  BY <1>0, <1>1, RollbackFacts, RecordFacts, PortFacts DEF AddFails, AddOK, SbShape, Live
<1>5. proc' = NoProc \/ (proc'.op = "ADD" /\ proc'.sb = proc.sb /\ proc'.pc = "portmap")
  <2>1. CASE AddFails \/ AddOK
    BY <2>1 DEF AddFails, AddOK
  <2>2. CASE Goto("portmap")
    BY <1>0, <1>1, <2>2, GotoFacts
  <2>3. CASE portmapCmdAdd /\ Again
    BY <1>0, <1>1, <2>3, AgainFacts, PortFacts DEF At
  <2> QED BY <2>1, <2>2, <2>3, RollbackFacts, RecordFacts, PortFacts
<1>6. \A a \in Addr : ~RollsBack(a)'
  BY <1>5, NoProcFacts DEF RollsBack, At
<1>7. CASE rollbackReleaseIP
  <2>1. RollsBack(x) /\ rec' = rec /\ \A s \in Sandbox \ {proc.sb} : own'[s] = own[s]
    BY <1>0, <1>2, <1>7, RollbackFacts DEF RollsBack, BookShape
  <2>2. \A a \in Addr \ {x} : Kept(a) => Kept(a)'
    BY <1>1, <1>2, <1>4, <2>1 DEF Kept
  <2>3. own'[proc.sb] \in {None, x}
    BY <1>0, <1>1, <1>2, <1>7, RollbackFacts DEF BookShape
  <2>4. \A a \in Addr \ {x} : Forgotten(a)' => Forgotten(a)
    BY <1>1, <1>2, <2>1, <2>3, Consts DEF Forgotten, Unrecorded
  <2>5. Charged' \subseteq Charged \cup {}
    BY <1>3, <1>6, <2>1, <2>2, <2>4, ChargedWithin
  <2> QED BY <1>1, <2>5, RuleBudgetStep
<1>8. CASE addPodNetworkRecord
  <2>1. own' = own /\ \A s \in Sandbox \ {proc.sb} : rec'[s] = rec[s]
    BY <1>0, <1>8, RecordFacts DEF BookShape
  <2>2. \A a \in Addr : Kept(a) => Kept(a)'
    BY <1>4, <2>1 DEF Kept
  <2>3. \A a \in Addr \ {x} : Forgotten(a)' => Forgotten(a)
    BY <1>1, <1>2, <2>1 DEF Forgotten, Unrecorded
  <2>4. Charged' \subseteq Charged \cup {x}
    BY <1>3, <1>6, <2>2, <2>3, ChargedWithin
  <2>5. CASE Goto("portmap")
    <3>1. proc'.op = "ADD" /\ proc'.sb = proc.sb
      BY <1>0, <1>1, <2>5, GotoFacts
    <3>2. \A a \in Addr : Forgotten(a)' => Forgotten(a)
      BY <1>1, <2>1, <3>1 DEF Forgotten, Unrecorded
    <3>3. Charged' \subseteq Charged \cup {}
      BY <1>3, <1>6, <2>2, <3>2, ChargedWithin
    <3> QED BY <1>1, <3>3, RuleBudgetStep
  <2> QED BY <1>8, <2>4, <2>5, RecordFacts, RuleBudgetStep
<1>9. CASE portmapCmdAdd
  <2>1. UNCHANGED <<own, rec>> /\ proc.pc = "portmap"
    BY <1>9, PortFacts DEF At
  <2>2. rec[proc.sb] # None
    BY <1>1, <2>1, Consts DEF RecordInv
  <2>3. \A a \in Addr : Kept(a) => Kept(a)'
    BY <1>4, <2>1 DEF Kept
  <2>4. \A a \in Addr : Forgotten(a)' => Forgotten(a)
    BY <2>1, <2>2 DEF Forgotten, Unrecorded
  <2>5. Charged' \subseteq Charged \cup {}
    BY <1>3, <1>6, <2>3, <2>4, ChargedWithin
  <2> QED BY <1>1, <2>5, RuleBudgetStep
<1> QED BY <1>7, <1>8, <1>9

(* DEL: what it forgets has no rules, or was charged already.              *)
LEMMA ChargeDel ==
  ASSUME Shape, Alone, RecordInv, RuleBudget, DelStep
  PROVE  RuleBudget'
<1>0. ProcShape /\ SbShape /\ BookShape /\ RuleShape
  BY ShapeParts
<1>1. proc.op = "DEL" /\ proc.sb \in Sandbox
  BY <1>0, GetFacts, RulesFacts, ReleaseFacts, DelRecordFacts, TeardownFacts, IfaceFacts
     DEF DelStep, Teardown, At, ProcShape
<1>2. \A a \in Addr : ~RollsBack(a)'
  <2>1. proc'.op \in {"none", "DEL"}
    BY DelStays
  <2> QED BY <2>1 DEF RollsBack, At
<1>3. \A s \in Sandbox : Unrecorded(s) <=> rec[s] = None
  BY <1>1 DEF Unrecorded
<1>4. faults' \in {faults, faults + 1}
  BY GetFacts, RulesFacts, ReleaseFacts, DelRecordFacts, TeardownFacts, IfaceFacts DEF DelStep, Teardown
<1>5. \A s \in Sandbox : sb'[s] = sb[s] \/ s = proc.sb
  BY <1>0, GetFacts, RulesFacts, ReleaseFacts, DelRecordFacts, TeardownFacts, IfaceFacts
     DEF DelStep, Teardown, DelOK, DelFails, SbShape
<1>6. CASE cleanUpIPRoutePolicy \/ Teardown
  <2>1. UNCHANGED <<own, rec, sb>>
    BY <1>6, RulesFacts, TeardownFacts DEF DelFails
  <2>2. \A a \in Addr : Ruled(a)' => Ruled(a)
    BY <1>0, <1>6, RulesFacts, TeardownFacts DEF RuleShape, Ruled
  <2>3. \A a \in Addr : (Kept(a) => Kept(a)') /\ (Forgotten(a)' => Forgotten(a))
    BY <1>3, <2>1 DEF Kept, Forgotten, Unrecorded
  <2>4. Charged' \subseteq Charged \cup {}
    BY <1>2, <2>2, <2>3, ChargedWithin
  <2> QED BY <1>4, <2>4, RuleBudgetStep
<1>7. CASE getPodNetworkRecord \/ DelInterface
  <2>1. UNCHANGED <<own, rec, dst, src>> /\ proc.pc \in {"get", "iface"}
    BY <1>7, GetFacts, IfaceFacts DEF At
  <2>2. \A a \in Addr : Ruled(a)' => Ruled(a)
    BY <2>1 DEF Ruled
  <2>3. \A a \in Addr : Forgotten(a)' => Forgotten(a)
    BY <1>3, <2>1 DEF Forgotten, Unrecorded
  <2>4. PICK x : x = own[proc.sb]
    OBVIOUS
  <2>5. \A a \in Addr \ {x} : Kept(a) => Kept(a)'
    BY <1>5, <2>1, <2>4 DEF Kept
  <2>6. Charged' \subseteq Charged \cup {x}
    BY <1>2, <2>2, <2>3, <2>5, ChargedWithin
  <2>7. CASE faults' = faults + 1
    BY <2>6, <2>7, RuleBudgetStep
  <2>8. CASE faults' = faults
    <3>0. faults' # faults + 1
      BY <2>8 DEF Shape, HistoryShape
    <3>1. sb' = sb \/ rec[proc.sb] = None \/ own[proc.sb] = None
      <4>1. CASE DelInterface
        BY <1>1, <4>1, IfaceFacts DEF RecordInv, At
      <4> QED BY <1>7, <3>0, <4>1, GetFacts
    <3>2. \A a \in Addr : Kept(a) /\ ~Kept(a)' => Forgotten(a)
      <4> SUFFICES ASSUME NEW a \in Addr, Kept(a), ~Kept(a)' PROVE Forgotten(a)
        OBVIOUS
      <4>1. a = x /\ sb' # sb
        BY <2>1, <2>5 DEF Kept
      <4>2. rec[proc.sb] = None
        BY <2>4, <3>1, <4>1, Consts
      <4> QED BY <1>1, <1>3, <2>4, <4>1, <4>2 DEF Forgotten
    <3>3. Charged' \subseteq Charged \cup {}
      BY <1>2, <2>2, <2>3, <3>2, ChargedWithin
    <3> QED BY <1>4, <3>3, RuleBudgetStep
  <2> QED BY <1>4, <2>7, <2>8
<1>8. CASE releasePodIp
  <2>1. UNCHANGED <<rec, dst, src>> /\ At("DEL", "release") /\ sb' = sb
    BY <1>8, ReleaseFacts DEF DelFails
  <2>2. PICK x : x = proc.ip
    OBVIOUS
  <2>3. ~Ruled(x)
    BY <2>1, <2>2 DEF RecordInv
  <2>4. \A a \in Addr : Ruled(a)' => Ruled(a)
    BY <2>1 DEF Ruled
  <2>5. \A s \in Sandbox : own'[s] = own[s] \/ (own[s] = x /\ own'[s] = None)
    BY <1>8, <2>2, ReleaseFacts
  <2>6. \A a \in Addr \ {x} : Kept(a) => Kept(a)'
    BY <2>1, <2>5 DEF Kept
  <2>7. \A a \in Addr : Forgotten(a)' => Forgotten(a)
    BY <1>3, <2>1, <2>5, Consts DEF Forgotten, Unrecorded
  <2>8. \A a \in Addr : Ruled(a)' => a # x
    BY <2>3, <2>4
  <2>9. \A a \in Addr : Ruled(a)' /\ Kept(a) /\ ~Kept(a)' => Forgotten(a) \/ RollsBack(a)
    BY <2>6, <2>8
  <2>10. Charged' \subseteq Charged \cup {}
    BY <1>2, <2>4, <2>7, <2>9, ChargedWithin
  <2> QED BY <1>4, <2>10, RuleBudgetStep
<1>9. CASE delPodNetworkRecord
  <2>1. UNCHANGED <<own, dst, src, sb>> /\ At("DEL", "record")
    BY <1>9, DelRecordFacts
  <2>2. own[proc.sb] = None /\ \A s \in Sandbox \ {proc.sb} : rec'[s] = rec[s]
    BY <1>0, <1>9, <2>1, DelRecordFacts DEF RecordInv, BookShape
  <2>3. \A a \in Addr : Ruled(a)' => Ruled(a)
    BY <2>1 DEF Ruled
  <2>4. \A a \in Addr : Kept(a) => Kept(a)'
    BY <2>1 DEF Kept
  <2>5. \A a \in Addr : Forgotten(a)' => Forgotten(a)
    BY <1>3, <2>1, <2>2, Consts DEF Forgotten, Unrecorded
  <2>6. Charged' \subseteq Charged \cup {}
    BY <1>2, <2>3, <2>4, <2>5, ChargedWithin
  <2> QED BY <1>4, <2>6, RuleBudgetStep
<1> QED BY <1>6, <1>7, <1>8, <1>9 DEF DelStep, Teardown

LEMMA ChargeNode ==
  ASSUME Shape, Alone, FreshInv, RecordInv, RuleBudget,
         \/ UNCHANGED vars \/ Kill \/ Reboot \/ KubeProxyStarts
         \/ \E s \in Sandbox : StartAdd(s) \/ StartDel(s) \/ ReconcileDelete(s) \/ RemoveNetns(s)
  PROVE  RuleBudget'
<1>0. ProcShape /\ SbShape /\ BookShape /\ RuleShape
  BY ShapeParts
<1>1. CASE Reboot
  <2>1. dst' = {} /\ \A a \in Addr : src'[a] = <<>>
    BY <1>1, RebootFacts
  <2>2. Charged' \subseteq Charged
    BY <2>1 DEF Charged, Ruled
  <2> QED BY <1>1, <2>2, RebootFacts, RuleBudgetStep
<1>2. CASE Kill
  <2>1. UNCHANGED <<own, rec, dst, src>> /\ proc' = NoProc /\ faults' = faults + 1
    BY <1>2, KillFacts DEF AddFails, DelFails
  <2>2. \A s \in Sandbox : sb[s] \in Live => sb'[s] \in Live
    BY <1>0, <1>2, KillFacts DEF AddFails, DelFails, SbShape, ProcShape, Live
  <2>3. PICK x : x = own[proc.sb]
    OBVIOUS
  <2>4. \A a \in Addr : Ruled(a)' => Ruled(a)
    BY <2>1 DEF Ruled
  <2>5. \A a \in Addr : Kept(a) => Kept(a)'
    BY <2>1, <2>2 DEF Kept
  <2>6. \A a \in Addr : ~RollsBack(a)'
    BY <2>1, NoProcFacts DEF RollsBack, At
  <2>7. \A a \in Addr \ {x} : Forgotten(a)' => Forgotten(a)
    BY <2>1, <2>3 DEF Forgotten, Unrecorded
  <2>8. Charged' \subseteq Charged \cup {x}
    BY <2>4, <2>5, <2>6, <2>7, ChargedWithin
  <2> QED BY <2>1, <2>8, RuleBudgetStep
<1>3. CASE UNCHANGED vars \/ KubeProxyStarts \/ \E s \in Sandbox : RemoveNetns(s)
  <2>1. UNCHANGED <<own, rec, dst, src, proc, faults>>
    BY <1>3, ProxyFacts, NetnsFacts DEF vars, kubeVars, ruleVars, history
  <2>2. \A s \in Sandbox : sb[s] \in Live => sb'[s] \in Live
    BY <1>0, <1>3, ProxyFacts, NetnsFacts DEF SbShape, Live, vars, kubeVars
  <2>3. Charged' \subseteq Charged
    BY <2>1, <2>2 DEF Charged, Ruled, Kept, Forgotten, Unrecorded, RollsBack, At
  <2> QED BY <2>1, <2>3, RuleBudgetStep
<1>4. CASE \E s \in Sandbox : StartAdd(s) \/ StartDel(s)
  <2>0. PICK s \in Sandbox : StartAdd(s) \/ StartDel(s)
    BY <1>4
  <2>1. /\ UNCHANGED <<own, rec, dst, src, faults>> /\ proc.op = "none" /\ proc'.pc # "rollback"
        /\ \A r \in Sandbox : sb[r] \in Live => sb'[r] \in Live
    BY <1>0, <2>0, StartAddFacts, StartDelFacts, NoProcFacts DEF SbShape, Live
  <2>2. \A a \in Addr : Ruled(a)' => Ruled(a)
    BY <2>1 DEF Ruled
  <2>3. \A a \in Addr : (Kept(a) => Kept(a)') /\ ~RollsBack(a)' /\ (Forgotten(a)' => Forgotten(a))
    BY <2>1 DEF Kept, RollsBack, At, Forgotten, Unrecorded
  <2>4. Charged' \subseteq Charged \cup {}
    BY <2>2, <2>3, ChargedWithin
  <2> QED BY <2>1, <2>4, RuleBudgetStep
<1>5. CASE \E s \in Sandbox : ReconcileDelete(s)
  <2>0. PICK s \in Sandbox : ReconcileDelete(s)
    BY <1>5
  <2>1. /\ UNCHANGED <<own, dst, src, proc>> /\ faults' = faults + 1
        /\ \A r \in Sandbox : sb[r] \in Live => sb'[r] \in Live
        /\ \A r \in Sandbox \ {s} : rec'[r] = rec[r]
    BY <1>0, <2>0, ReconcileFacts DEF SbShape, BookShape, Live
  <2>2. PICK x : x = own[s]
    OBVIOUS
  <2>3. \A a \in Addr : Ruled(a)' => Ruled(a)
    BY <2>1 DEF Ruled
  <2>4. \A a \in Addr : (Kept(a) => Kept(a)') /\ (RollsBack(a)' => RollsBack(a))
    BY <2>1 DEF Kept, RollsBack, At
  <2>5. \A a \in Addr \ {x} : Forgotten(a)' => Forgotten(a)
    BY <2>1, <2>2 DEF Forgotten, Unrecorded
  <2>6. Charged' \subseteq Charged \cup {x}
    BY <2>3, <2>4, <2>5, ChargedWithin
  <2> QED BY <2>1, <2>6, RuleBudgetStep
<1> QED BY <1>1, <1>2, <1>3, <1>4, <1>5

LEMMA RuleBudgetKeeps ==
  ASSUME Shape, Alone, FreshInv, RecordInv, RuleBudget, [Next]_vars
  PROVE  RuleBudget'
<1>1. CASE AddStep
  BY <1>1, ChargeUni, ChargePod, ChargeEnds DEF AddStep
<1>2. CASE DelStep
  BY <1>2, ChargeDel
<1>3. CASE \/ UNCHANGED vars \/ Kill \/ Reboot \/ KubeProxyStarts
           \/ \E s \in Sandbox : StartAdd(s) \/ StartDel(s) \/ ReconcileDelete(s) \/ RemoveNetns(s)
  BY <1>3, ChargeNode
<1> QED BY <1>1, <1>2, <1>3 DEF Next
=============================================================================
