--------------------------- MODULE NatRulesProofs ---------------------------
(***************************************************************************)
(* The invariants of NatRules for every set of pods, every list of CIDRs   *)
(* and every number of faults and edits.                                   *)
(*                                                                         *)
(* The chains are written one rule at a time, so that what holds of them   *)
(* at the end of an update has to be stated with the list of the rules     *)
(* still to come (ReadyInv).  The ipset is exact under the bypass rule     *)
(* because the migration that precedes the rule works off a plan made from *)
(* the records (PlanInv), and because an address that is given to a pod is *)
(* in nobody's hands and not in the ipset (SetInv).  Both need to know who *)
(* holds an address (Holds, NodeShape) while DEL releases it in one step   *)
(* and deletes its record in another, which may fail or never come: each   *)
(* such fault leaves one address out (risky, RiskBound).                   *)
(***************************************************************************)
EXTENDS NatRules, FiniteSetTheorems, TLAPS

(* The rules that each list of updateIptablesRules is made of.             *)
Cidr == ToSet(Cidrs)
ReturnRule == {Rule("SNAT", r, TRUE, TRUE) : r \in Cidr} \cup {Rule("CONNMARK", r, TRUE, TRUE) : r \in Cidr}
ChainRule ==
  ReturnRule \cup {Rule("POSTROUTING", "jumpSNAT", TRUE, FALSE), Rule("SNAT", "snat", TRUE, FALSE),
                   Rule("mangle", "connmarkPrimary", TRUE, FALSE),
                   Rule("mangle", "connmarkVeth", TRUE, FALSE), Rule("CONNMARK", "mark", TRUE, FALSE)}
BypassRule == {Rule("CONNMARK", "bypass", TRUE, TRUE)}
AttachRule == {Rule("PREROUTING", "jump", should, FALSE) : should \in BOOLEAN}
              \cup {Rule("PREROUTING", "restore", should, FALSE) : should \in BOOLEAN}

AddPc == {"chains", "enable", "migrate", "bypass", "attach", "assign", "finish", "rollback"}
DelPc == {"natdel", "release", "record", "end"}

ProcShape ==
  /\ proc = [op |-> proc.op, pod |-> proc.pod, pc |-> proc.pc, todo |-> proc.todo, add |-> proc.add,
             del |-> proc.del, enabled |-> proc.enabled, ip |-> proc.ip, added |-> proc.added]
  /\ proc.pc \in AddPc \cup DelPc \cup {"idle"}
  /\ proc.enabled \in BOOLEAN /\ proc.added \in BOOLEAN
  /\ proc.ip \in IP \cup {NoIP}
  /\ proc.pc = "idle" => proc = NoProc
  /\ proc.pc \in AddPc => proc.op = "ADD" /\ proc.pod \in Pod /\ pod[proc.pod] = "adding"
  /\ proc.pc \in DelPc => proc.op = "DEL" /\ proc.pod \in Pod /\ pod[proc.pod] = "down"
  /\ proc.pc \in {"finish", "rollback"} => proc.ip \in IP
  /\ proc.pc \in {"natdel", "release", "record"} => proc.ip \in IP /\ proc.ip = net[proc.pod]

TodoShape ==
  /\ proc.pc = "chains" => proc.todo \in Seq(ChainRule)
  /\ proc.pc = "bypass" => proc.todo \in Seq(BypassRule)
  /\ proc.pc = "attach" => proc.todo \in Seq(AttachRule)
  /\ proc.pc \notin {"chains", "bypass", "attach"} => proc.todo = <<>>

(* A pod holds an address while it runs, while its DEL has not released it *)
(* and as long as a record names it.                                       *)
Holds(p) ==
  \/ pod[p] = "up"
  \/ proc.pc \in {"natdel", "release"} /\ proc.pod = p
  \/ rec[p] # NoIP /\ ~(proc.pc = "record" /\ proc.pod = p)

Types ==
  /\ pod \in [Pod -> {"new", "adding", "up", "down", "gone"}]
  /\ rec \in [Pod -> IP \cup {NoIP}] /\ net \in [Pod -> IP \cup {NoIP}]
  /\ want \in [Pod -> {"unset", "node", "gateway"}]
  /\ ipset \subseteq IP /\ taken \subseteq IP /\ risky \subseteq IP
  /\ pol \in [PodNetworking -> BOOLEAN]

(* But for the addresses that a fault has touched, one that a pod holds is *)
(* taken, is held by no other pod and is in the record of a pod that runs. *)
NodeShape ==
  /\ Types
  /\ \A p \in Pod : rec[p] # NoIP => rec[p] = net[p]
  /\ \A p \in Pod : pod[p] = "up" => net[p] # NoIP
  /\ \A p \in Pod : Holds(p) /\ net[p] \notin risky => net[p] \in taken
  /\ \A p, q \in Pod : Holds(p) /\ Holds(q) /\ net[p] = net[q] /\ net[p] \notin risky => p = q
  /\ \A p \in Pod : pod[p] = "up" /\ p \in live /\ net[p] \notin risky => rec[p] = net[p]

ChainShape ==
  /\ chain = [c \in Chain |-> chain[c]]
  /\ \A c \in {"SNAT", "CONNMARK"} : chain[c] \in Seq(RuleName)

Shape == ProcShape /\ TodoShape /\ NodeShape /\ ChainShape

(* Nothing is attached to a chain before its list is worked off.           *)
ToDo(r) == \E j \in DOMAIN proc.todo :
             proc.todo[j].chain = "CONNMARK" /\ proc.todo[j].rule = r /\ proc.todo[j].shouldExist
ReadyInv ==
  /\ proc.pc = "chains" => \A r \in Cidr \cup {"mark"} : Has("CONNMARK", r) \/ ToDo(r)
  /\ proc.pc \in {"enable", "migrate", "bypass", "attach"} =>
       \A r \in Cidr \cup {"mark"} : Has("CONNMARK", r)

(* An address is in the ipset only while it is taken or about to be rolled *)
(* back, and one that a pod has just got is there as decided.              *)
Pending == IF proc.pc = "rollback" THEN {proc.ip} ELSE {}
SetInv ==
  /\ ipset \subseteq taken \cup risky \cup Pending
  /\ proc.pc \in {"release", "record"} => proc.ip \notin ipset \/ proc.ip \in risky
  /\ proc.pc = "record" => proc.ip \notin taken
  /\ proc.pc = "finish" =>
       /\ proc.ip \in taken
       /\ want[proc.pod] # "unset"
       /\ proc.ip \notin risky => /\ \A p \in Pod : Holds(p) => net[p] # proc.ip
                                  /\ proc.ip \in ipset <=> want[proc.pod] = "gateway"
  /\ proc.pc \in {"finish", "rollback"} /\ proc.ip \notin risky =>
       /\ \A p \in Pod : Holds(p) /\ net[p] = proc.ip => p = proc.pod
       /\ proc.ip \in ipset => proc.added

(* The migration brings the ipset to what it has decided for every pod     *)
(* that runs.                                                              *)
Exact(p, member) == want[p] # "unset" /\ (member <=> want[p] = "gateway")
PlanInv ==
  /\ proc.pc = "migrate" =>
       /\ ~Has("CONNMARK", "bypass")
       /\ proc.add \subseteq taken \cup risky /\ proc.add \cap proc.del = {}
       /\ \A p \in Pod : pod[p] = "up" /\ net[p] \notin risky =>
            Exact(p, (net[p] \in ipset /\ net[p] \notin proc.del) \/ net[p] \in proc.add)
  /\ proc.pc = "bypass" =>
       \A p \in Pod : pod[p] = "up" /\ net[p] \notin risky => Exact(p, net[p] \in ipset)

(* A fault touches one address.                                            *)
RiskBound == IsFiniteSet(risky) /\ Cardinality(risky) <= faults /\ faults \in Nat

IInv == Shape /\ ReturnsFirst /\ AttachedReady /\ ReadyInv /\ SetInv /\ PlanInv /\ RiskBound /\ BypassExact

----------------------------------------------------------------------------
(* Sequences.                                                              *)

LEMMA PrependFacts ==
  ASSUME NEW S, NEW s \in Seq(S), NEW x \in S
  PROVE  /\ <<x>> \o s \in Seq(S)
         /\ ToSet(<<x>> \o s) = ToSet(s) \cup {x}
         /\ (<<x>> \o s)[1] = x
         /\ DOMAIN (<<x>> \o s) = 1..(Len(s) + 1)
         /\ \A j \in 2..(Len(s) + 1) : j - 1 \in DOMAIN s /\ (<<x>> \o s)[j] = s[j - 1]
<1> DEFINE t == <<x>> \o s
<1>1. t \in Seq(S) /\ Len(t) = Len(s) + 1 /\ t[1] = x
  OBVIOUS
<1>2. DOMAIN t = 1..(Len(s) + 1) /\ DOMAIN s = 1..Len(s) /\ Len(s) \in Nat
  BY <1>1
<1>3. \A j \in 2..(Len(s) + 1) : j - 1 \in DOMAIN s /\ t[j] = s[j - 1]
  BY <1>2
<1>4. \A k \in DOMAIN s : k + 1 \in DOMAIN t /\ t[k + 1] = s[k]
  BY <1>2
<1>5. ToSet(t) = ToSet(s) \cup {x}
  <2> HIDE DEF t
  <2>1. \A y \in ToSet(t) : y \in ToSet(s) \cup {x}
    BY <1>1, <1>2, <1>3 DEF ToSet
  <2>2. \A y \in ToSet(s) : y \in ToSet(t)
    BY <1>4 DEF ToSet
  <2>3. x \in ToSet(t)
    BY <1>1, <1>2 DEF ToSet
  <2> QED
    BY <2>1, <2>2, <2>3
<1> QED
  BY <1>1, <1>2, <1>3, <1>5

LEMMA AppendFacts ==
  ASSUME NEW S, NEW s \in Seq(S), NEW x \in S
  PROVE  /\ Append(s, x) \in Seq(S)
         /\ ToSet(Append(s, x)) = ToSet(s) \cup {x}
         /\ DOMAIN Append(s, x) = 1..(Len(s) + 1)
         /\ Append(s, x)[Len(s) + 1] = x
         /\ \A j \in 1..Len(s) : j \in DOMAIN s /\ Append(s, x)[j] = s[j]
<1> DEFINE t == Append(s, x)
<1>1. t \in Seq(S) /\ Len(t) = Len(s) + 1 /\ Len(s) \in Nat
  OBVIOUS
<1>2. DOMAIN t = 1..(Len(s) + 1) /\ DOMAIN s = 1..Len(s)
  BY <1>1
<1>3. t[Len(s) + 1] = x /\ \A j \in 1..Len(s) : t[j] = s[j]
  OBVIOUS
<1>4. ToSet(t) = ToSet(s) \cup {x}
  <2> HIDE DEF t
  <2>1. \A y \in ToSet(t) : y \in ToSet(s) \cup {x}
    BY <1>1, <1>2, <1>3 DEF ToSet
  <2>2. \A y \in ToSet(s) : y \in ToSet(t)
    BY <1>1, <1>2, <1>3 DEF ToSet
  <2>3. x \in ToSet(t)
    BY <1>1, <1>2, <1>3 DEF ToSet
  <2> QED
    BY <2>1, <2>2, <2>3
<1> QED
  BY <1>1, <1>2, <1>3, <1>4

LEMMA TailFacts ==
  ASSUME NEW S, NEW s \in Seq(S), s # <<>>
  PROVE  /\ Head(s) \in S /\ Tail(s) \in Seq(S)
         /\ Head(s) = s[1] /\ 1 \in DOMAIN s
         /\ \A j \in DOMAIN s : j = 1 \/ (j - 1 \in DOMAIN Tail(s) /\ Tail(s)[j - 1] = s[j])
<1>1. Head(s) \in S /\ Tail(s) \in Seq(S) /\ Len(Tail(s)) = Len(s) - 1 /\ Len(s) \in Nat /\ Len(s) # 0
  OBVIOUS
<1>2. DOMAIN s = 1..Len(s) /\ DOMAIN Tail(s) = 1..(Len(s) - 1)
  BY <1>1
<1>3. \A j \in 1..(Len(s) - 1) : Tail(s)[j] = s[j + 1]
  OBVIOUS
<1> QED
  BY <1>1, <1>2, <1>3

(* One order for all positions of q and all of r.                          *)
Precedes(s, q, r) == \A j, k \in DOMAIN s : s[j] = r /\ s[k] = q => k < j

LEMMA PrependPrecedes ==
  ASSUME NEW S, NEW s \in Seq(S), NEW x \in S, NEW q, NEW r, x # r, Precedes(s, q, r)
  PROVE  Precedes(<<x>> \o s, q, r)
<1> PICK t : t = <<x>> \o s
  OBVIOUS
<1>1. /\ t[1] = x /\ DOMAIN t = 1..(Len(s) + 1) /\ Len(s) \in Nat
      /\ \A j \in 2..(Len(s) + 1) : j - 1 \in DOMAIN s /\ t[j] = s[j - 1]
  BY PrependFacts
<1>2. ASSUME NEW j \in DOMAIN t, NEW k \in DOMAIN t, t[j] = r, t[k] = q PROVE k < j
  <2>1. j # 1 /\ j \in Nat /\ k \in Nat /\ j > 1 /\ j \in 2..(Len(s) + 1)
    BY <1>1, <1>2
  <2>2. CASE k = 1
    BY <2>1, <2>2
  <2>3. CASE k # 1
    <3>1. k \in 2..(Len(s) + 1)
      BY <1>1, <2>3
    <3>2. k - 1 < j - 1
      BY <1>1, <1>2, <2>1, <3>1 DEF Precedes
    <3> QED
      BY <2>1, <3>1, <3>2
  <2> QED
    BY <2>2, <2>3
<1> QED
  BY <1>2 DEF Precedes

LEMMA AppendPrecedes ==
  ASSUME NEW S, NEW s \in Seq(S), NEW x \in S, NEW q, NEW r, x # q, Precedes(s, q, r)
  PROVE  Precedes(Append(s, x), q, r)
<1> PICK t : t = Append(s, x)
  OBVIOUS
<1>1. /\ t[Len(s) + 1] = x /\ DOMAIN t = 1..(Len(s) + 1) /\ Len(s) \in Nat
      /\ \A j \in 1..Len(s) : j \in DOMAIN s /\ t[j] = s[j]
  BY AppendFacts
<1>2. ASSUME NEW j \in DOMAIN t, NEW k \in DOMAIN t, t[j] = r, t[k] = q PROVE k < j
  <2>1. k # Len(s) + 1 /\ k \in 1..Len(s) /\ j \in 1..(Len(s) + 1)
    BY <1>1, <1>2
  <2>2. CASE j = Len(s) + 1
    BY <1>1, <2>1, <2>2
  <2>3. CASE j \in 1..Len(s)
    BY <1>1, <1>2, <2>1, <2>3 DEF Precedes
  <2> QED
    BY <1>1, <2>1, <2>2, <2>3
<1> QED
  BY <1>2 DEF Precedes

----------------------------------------------------------------------------
(* The chains: one round of updateIptablesRules.                           *)

AnyRule == ChainRule \cup BypassRule \cup AttachRule

(* A rule of the two chains is inserted first if it returns and is         *)
(* appended otherwise, and none is ever deleted.                           *)
LEMMA RuleKinds ==
  ASSUME NEW r \in AnyRule
  PROVE  /\ r.chain \in Chain
         /\ r.chain \in {"SNAT", "CONNMARK"} =>
              /\ r.shouldExist /\ r.rule \in RuleName
              /\ \/ r.first /\ r.rule \in Cidr \cup {"bypass"}
                 \/ ~r.first /\ r.rule \in {"mark", "snat"}
         /\ r \in ChainRule => r.chain # "PREROUTING" /\ r.rule # "bypass"
         /\ r \in BypassRule => r.chain = "CONNMARK" /\ r.rule = "bypass"
         /\ r \in AttachRule => r.chain = "PREROUTING"
<1> USE NatAssumption DEF Chain, RuleName, Cidr, Rule
<1>1. CASE r \in ReturnRule
  BY <1>1 DEF ReturnRule, ChainRule, BypassRule, AttachRule
<1>2. CASE r \in ChainRule \ ReturnRule
  BY <1>2 DEF ChainRule, BypassRule, AttachRule
<1>3. CASE r \in BypassRule
  BY <1>3 DEF ChainRule, ReturnRule, BypassRule, AttachRule
<1>4. CASE r \in AttachRule
  BY <1>4 DEF ChainRule, ReturnRule, BypassRule, AttachRule
<1> QED
  BY <1>1, <1>2, <1>3, <1>4 DEF AnyRule, ChainRule

LEMMA RunEffect ==
  ASSUME ChainShape, NEW r \in AnyRule, updateIptablesRule(r)
  PROVE  /\ ChainShape'
         /\ \A c \in Chain \ {r.chain} : chain'[c] = chain[c]
         /\ \A c \in {"SNAT", "CONNMARK"} : c = r.chain =>
              chain'[c] = IF r.rule \in ToSet(chain[c]) THEN chain[c] ELSE Insert(r)
<1>1. r.chain \in Chain
  BY RuleKinds
<1> DEFINE new == IF r.shouldExist /\ ~(r.rule \in ToSet(chain[r.chain])) THEN Insert(r)
                  ELSE IF r.rule \in ToSet(chain[r.chain]) /\ ~r.shouldExist
                       THEN Remove(chain[r.chain], r.rule) ELSE chain[r.chain]
<1>2. chain' = [chain EXCEPT ![r.chain] = new]
  BY DEF updateIptablesRule
<1> HIDE DEF new
<1>3. chain' = [c \in Chain |-> IF c = r.chain THEN new ELSE chain[c]]
  BY <1>2 DEF ChainShape
<1>4. r.chain \in {"SNAT", "CONNMARK"} =>
        new = IF r.rule \in ToSet(chain[r.chain]) THEN chain[r.chain] ELSE Insert(r)
  BY RuleKinds DEF new
<1>5. ASSUME r.chain \in {"SNAT", "CONNMARK"} PROVE Insert(r) \in Seq(RuleName)
  <2>1. r.rule \in RuleName /\ chain[r.chain] \in Seq(RuleName)
    BY <1>5, RuleKinds DEF ChainShape
  <2> QED
    BY <2>1, PrependFacts, AppendFacts DEF Insert
<1>6. ChainShape'
  BY <1>3, <1>4, <1>5 DEF ChainShape, Chain
<1> QED
  BY <1>1, <1>3, <1>4, <1>6 DEF Chain

(* What is in the two chains stays, what is inserted is there.             *)
LEMMA RunKeeps ==
  ASSUME ChainShape, NEW r \in AnyRule, updateIptablesRule(r)
  PROVE  /\ \A x : Has("CONNMARK", x) => Has("CONNMARK", x)'
         /\ r.chain = "CONNMARK" => Has("CONNMARK", r.rule)'
         /\ \A x : Has("CONNMARK", x)' => Has("CONNMARK", x) \/ (r.chain = "CONNMARK" /\ x = r.rule)
<1>1. CASE r.chain # "CONNMARK"
  <2>1. chain'["CONNMARK"] = chain["CONNMARK"]
    BY <1>1, RunEffect DEF Chain
  <2> QED
    BY <1>1, <2>1 DEF Has
<1>2. CASE r.chain = "CONNMARK"
  <2>1. chain'["CONNMARK"] = IF r.rule \in ToSet(chain["CONNMARK"]) THEN chain["CONNMARK"] ELSE Insert(r)
    BY <1>2, RunEffect
  <2>2. ToSet(Insert(r)) = ToSet(chain["CONNMARK"]) \cup {r.rule}
    <3>1. r.rule \in RuleName /\ chain["CONNMARK"] \in Seq(RuleName)
      BY <1>2, RuleKinds DEF ChainShape
    <3> QED
      BY <1>2, <3>1, PrependFacts, AppendFacts DEF Insert
  <2> QED
    BY <1>2, <2>1, <2>2 DEF Has
<1> QED
  BY <1>1, <1>2

LEMMA ReturnsFirstIs ==
  ReturnsFirst <=> /\ \A q \in Cidr \cup {"bypass"} : Precedes(chain["CONNMARK"], q, "mark")
                   /\ \A q \in Cidr : Precedes(chain["SNAT"], q, "snat")
BY DEF ReturnsFirst, Before, Precedes, Cidr

LEMMA RunReturnsFirst ==
  ASSUME ChainShape, ReturnsFirst, NEW r \in AnyRule, updateIptablesRule(r)
  PROVE  ReturnsFirst'
<1>1. ASSUME NEW c \in {"SNAT", "CONNMARK"}, NEW q \in Cidr \cup {"bypass"}, NEW m \in {"snat", "mark"},
             Precedes(chain[c], q, m)
      PROVE  Precedes(chain'[c], q, m)
  <2>1. CASE chain'[c] = chain[c]
    BY <1>1, <2>1
  <2>2. CASE c = r.chain /\ chain'[c] = Insert(r)
    <3>1. r.rule \in RuleName /\ chain[c] \in Seq(RuleName)
      BY <2>2, RuleKinds DEF ChainShape
    <3>2. CASE r.first /\ r.rule \in Cidr \cup {"bypass"}
      <4>1. r.rule # m
        BY <3>2, NatAssumption DEF Cidr
      <4> QED
        BY <1>1, <2>2, <3>1, <3>2, <4>1, PrependPrecedes DEF Insert
    <3>3. CASE ~r.first /\ r.rule \in {"mark", "snat"}
      <4>1. r.rule # q
        BY <3>3, NatAssumption DEF Cidr
      <4> QED
        BY <1>1, <2>2, <3>1, <3>3, <4>1, AppendPrecedes DEF Insert
    <3> QED
      BY <2>2, <3>2, <3>3, RuleKinds
  <2>3. CASE c # r.chain
    BY <2>1, <2>3, RunEffect DEF Chain
  <2> QED
    BY <2>1, <2>2, <2>3, RunEffect
<1>2. /\ \A q \in Cidr \cup {"bypass"} : Precedes(chain["CONNMARK"], q, "mark")
      /\ \A q \in Cidr : Precedes(chain["SNAT"], q, "snat")
  BY ReturnsFirstIs
<1>3. /\ \A q \in Cidr \cup {"bypass"} : Precedes(chain'["CONNMARK"], q, "mark")
      /\ \A q \in Cidr : Precedes(chain'["SNAT"], q, "snat")
  BY <1>1, <1>2
<1> QED
  BY <1>3 DEF ReturnsFirst, Before, Precedes, Cidr

----------------------------------------------------------------------------
(* The lists of rules.                                                     *)

LEMMA ConcatFacts ==
  ASSUME NEW S, NEW s \in Seq(S), NEW t \in Seq(S)
  PROVE  s \o t \in Seq(S) /\ ToSet(t) \subseteq ToSet(s \o t)
<1>1. s \o t \in Seq(S) /\ Len(s \o t) = Len(s) + Len(t) /\ Len(s) \in Nat /\ Len(t) \in Nat
  OBVIOUS
<1>2. DOMAIN t = 1..Len(t) /\ DOMAIN (s \o t) = 1..(Len(s) + Len(t))
  BY <1>1
<1>3. \A j \in 1..Len(t) : Len(s) + j \in DOMAIN (s \o t) /\ (s \o t)[Len(s) + j] = t[j]
  BY <1>1, <1>2
<1> QED
  BY <1>1, <1>2, <1>3 DEF ToSet

LEMMA ReturnsFacts ==
  ASSUME NEW c \in {"SNAT", "CONNMARK"}
  PROVE  /\ Returns(c) \in Seq(ChainRule)
         /\ \A r \in Cidr : Rule(c, r, TRUE, TRUE) \in ToSet(Returns(c))
<1>1. Cidrs \in Seq(Cidr) /\ DOMAIN Cidrs = 1..Len(Cidrs) /\ Len(Cidrs) \in Nat
  BY NatAssumption DEF Cidr
<1>2. \A k \in 1..Len(Cidrs) : Rule(c, Cidrs[k], TRUE, TRUE) \in ChainRule
  <2>1. \A k \in 1..Len(Cidrs) : Cidrs[k] \in Cidr
    BY <1>1 DEF Cidr, ToSet
  <2>2. \A r \in Cidr : Rule(c, r, TRUE, TRUE) \in ReturnRule
    BY DEF ReturnRule
  <2> QED
    BY <2>1, <2>2 DEF ChainRule
<1>3. Returns(c) = [k \in 1..Len(Cidrs) |-> Rule(c, Cidrs[k], TRUE, TRUE)]
  BY <1>1 DEF Returns
<1>4. Returns(c) \in Seq(ChainRule)
  <2>1. Returns(c) \in [1..Len(Cidrs) -> ChainRule]
    BY <1>2, <1>3
  <2>2. \A n \in Nat : \A f \in [1..n -> ChainRule] : f \in Seq(ChainRule)
    OBVIOUS
  <2> QED
    BY <1>1, <2>1, <2>2
<1>5. \A k \in DOMAIN Cidrs : k \in DOMAIN Returns(c) /\ Returns(c)[k] = Rule(c, Cidrs[k], TRUE, TRUE)
  BY DEF Returns
<1>6. \A r \in Cidr : \E k \in DOMAIN Cidrs : r = Cidrs[k]
  BY DEF Cidr, ToSet
<1>7. ASSUME NEW r \in Cidr PROVE Rule(c, r, TRUE, TRUE) \in ToSet(Returns(c))
  <2>1. PICK k \in DOMAIN Cidrs : r = Cidrs[k]
    BY <1>6
  <2> QED
    BY <1>5, <2>1 DEF ToSet
<1> QED
  BY <1>4, <1>7

LEMMA StartList ==
  /\ buildSNATRules \o buildConnmarkRules \in Seq(ChainRule)
  /\ \A r \in Cidr : Rule("CONNMARK", r, TRUE, TRUE) \in ToSet(buildSNATRules \o buildConnmarkRules)
  /\ Rule("CONNMARK", "mark", TRUE, FALSE) \in ToSet(buildSNATRules \o buildConnmarkRules)
<1> DEFINE mark == Rule("CONNMARK", "mark", TRUE, FALSE)
<1>1. <<mark>> \in Seq(ChainRule) /\ mark \in ToSet(<<mark>>)
  <2>1. mark \in ChainRule
    BY DEF ChainRule
  <2>2. \A x \in ChainRule : <<x>> \in Seq(ChainRule) /\ 1 \in DOMAIN <<x>> /\ <<x>>[1] = x
    OBVIOUS
  <2> QED
    BY <2>1, <2>2 DEF ToSet
<1> DEFINE tail == <<Rule("SNAT", "snat", TRUE, FALSE), Rule("mangle", "connmarkPrimary", TRUE, FALSE),
                     Rule("mangle", "connmarkVeth", TRUE, FALSE)>>
           first == <<Rule("POSTROUTING", "jumpSNAT", TRUE, FALSE)>>
<1>2. first \in Seq(ChainRule) /\ tail \in Seq(ChainRule)
  BY DEF ChainRule
<1>3. buildSNATRules = (first \o Returns("SNAT")) \o tail
  BY DEF buildSNATRules
<1>4. buildConnmarkRules = Returns("CONNMARK") \o <<mark>>
  BY DEF buildConnmarkRules
<1> HIDE DEF mark, tail, first
<1>5. first \o Returns("SNAT") \in Seq(ChainRule)
  BY <1>2, ReturnsFacts, ConcatFacts
<1>6. buildSNATRules \in Seq(ChainRule)
  BY <1>2, <1>3, <1>5, ConcatFacts
<1>7. buildConnmarkRules \in Seq(ChainRule) /\ mark \in ToSet(buildConnmarkRules)
  BY <1>1, <1>4, ReturnsFacts, ConcatFacts
<1>8. \A r \in Cidr : Rule("CONNMARK", r, TRUE, TRUE) \in ToSet(buildConnmarkRules)
  <2>1. PICK s : s = Returns("CONNMARK")
    OBVIOUS
  <2>2. s \in Seq(ChainRule) /\ \A r \in Cidr : Rule("CONNMARK", r, TRUE, TRUE) \in ToSet(s)
    BY <2>1, ReturnsFacts
  <2>3. PICK m : m = mark
    OBVIOUS
  <2>4. buildConnmarkRules = s \o <<m>> /\ m \in ChainRule
    BY <1>1, <1>4, <2>1, <2>3
  <2>5. ToSet(s) \subseteq ToSet(s \o <<m>>)
    <3>1. DOMAIN s = 1..Len(s) /\ DOMAIN (s \o <<m>>) = 1..(Len(s) + 1) /\ Len(s) \in Nat
      BY <2>2, <2>4
    <3>2. \A j \in 1..Len(s) : (s \o <<m>>)[j] = s[j]
      BY <2>2, <2>4
    <3> QED
      BY <3>1, <3>2 DEF ToSet
  <2> QED
    BY <2>2, <2>4, <2>5
<1>9. /\ buildSNATRules \o buildConnmarkRules \in Seq(ChainRule)
      /\ ToSet(buildConnmarkRules) \subseteq ToSet(buildSNATRules \o buildConnmarkRules)
  BY <1>6, <1>7, ConcatFacts
<1> QED
  BY <1>7, <1>8, <1>9 DEF mark

LEMMA OtherLists ==
  /\ natGWOutgoingBypassRule \in Seq(BypassRule)
  /\ buildConnmarkPreroutingRules \in Seq(AttachRule)
<1>1. natGWOutgoingBypassRule \in Seq(BypassRule)
  BY DEF natGWOutgoingBypassRule, BypassRule
<1>2. \A b \in BOOLEAN : Rule("PREROUTING", "jump", b, FALSE) \in AttachRule
                         /\ Rule("PREROUTING", "restore", b, FALSE) \in AttachRule
  BY DEF AttachRule
<1>3. \A a, b, c, d \in AttachRule : <<a, b, c, d>> \in Seq(AttachRule)
  OBVIOUS
<1>4. buildConnmarkPreroutingRules \in Seq(AttachRule)
  BY <1>2, <1>3 DEF buildConnmarkPreroutingRules
<1> QED
  BY <1>1, <1>4

----------------------------------------------------------------------------
(* The process, and what it has still to do to the chains.                 *)

LEMMA NextCases ==
  ASSUME [Next]_vars
  PROVE  \/ \E p \in Pod : StartAdd(p)
         \/ \E p \in Pod : StartDel(p)
         \/ \E p \in Pod : PodEvent(p)
         \/ \E p \in Pod : ReconcileDelete(p) \/ ReconcilePut(p)
         \/ RunRule \/ RulesDone \/ tryEnableNATGWOutgoing \/ migrateLegacyNATGWOutgoingIPs
         \/ syncNATGWOutgoingIP \/ NoAddress \/ finishAdd \/ rollbackNATGWOutgoingIP
         \/ DelNAT \/ releasePodIp \/ delPodNetworkRecord \/ finishDel \/ Kill \/ Reboot
         \/ \E n \in PodNetworking : EditPolicy(n)
         \/ UNCHANGED vars
BY DEF Next

LEMMA IdleProc ==
  ASSUME proc' = NoProc
  PROVE  ProcShape' /\ TodoShape' /\ ReadyInv'
BY DEF ProcShape, TodoShape, ReadyInv, NoProc, AddPc, DelPc

LEMMA ProcStep ==
  ASSUME Shape, [Next]_vars
  PROVE  ProcShape'
<1>0. ProcShape /\ NodeShape
  BY DEF Shape
<1> USE <1>0 DEF AddPc, DelPc
<1>1. CASE \E p \in Pod : StartAdd(p)
  <2>1. PICK p \in Pod : StartAdd(p)
    BY <1>1
  <2>2. proc' = [op |-> "ADD", pod |-> p, pc |-> "chains", todo |-> buildSNATRules \o buildConnmarkRules,
                 add |-> {}, del |-> {}, enabled |-> pol[NetOf[p]], ip |-> NoIP, added |-> FALSE]
    BY <2>1 DEF StartAdd, NoProc
  <2>3. pod' = [pod EXCEPT ![p] = "adding"] /\ pol[NetOf[p]] \in BOOLEAN
    BY <2>1, NatAssumption DEF StartAdd, NodeShape, Types
  <2> QED
    BY <2>1, <2>2, <2>3 DEF ProcShape, NodeShape, Types
<1>2. CASE \E p \in Pod : StartDel(p)
  <2>1. PICK p \in Pod : StartDel(p)
    BY <1>2
  <2>2. CASE proc' = proc
    BY <2>1, <2>2, IdleProc DEF StartDel
  <2>3. CASE rec[p] # NoIP /\ proc' = [NoProc EXCEPT !.op = "DEL", !.pod = p, !.pc = "natdel", !.ip = rec[p]]
             /\ pod' = pod
    <3>1. proc' = [op |-> "DEL", pod |-> p, pc |-> "natdel", todo |-> <<>>, add |-> {}, del |-> {},
                   enabled |-> FALSE, ip |-> rec[p], added |-> FALSE]
      BY <2>3 DEF NoProc
    <3>2. pod[p] = "down" /\ net' = net /\ rec[p] = net[p] /\ rec[p] \in IP
      BY <2>1, <2>3 DEF StartDel, NodeShape, Types
    <3>3. /\ proc'.op = "DEL" /\ proc'.pod = p /\ proc'.pc = "natdel" /\ proc'.ip = rec[p]
          /\ proc'.enabled = FALSE /\ proc'.added = FALSE
          /\ proc' = [op |-> proc'.op, pod |-> proc'.pod, pc |-> proc'.pc, todo |-> proc'.todo, add |-> proc'.add,
                      del |-> proc'.del, enabled |-> proc'.enabled, ip |-> proc'.ip, added |-> proc'.added]
      BY <3>1
    <3> QED
      BY <2>3, <3>2, <3>3 DEF ProcShape
  <2> QED
    BY <2>1, <2>2, <2>3 DEF StartDel
<1>3. CASE \E p \in Pod : PodEvent(p)
  <2>1. PICK p \in Pod : PodEvent(p)
    BY <1>3
  <2>2. proc' = proc /\ net' = net
    BY <2>1 DEF PodEvent
  <2>3. \A q \in Pod : pod[q] \in {"adding", "down"} => pod'[q] = pod[q]
    BY <2>1 DEF PodEvent, NodeShape, Types
  <2> QED
    BY <2>2, <2>3 DEF ProcShape, NoProc
<1>4. CASE RunRule
  <2>1. CASE proc' = [proc EXCEPT !.todo = Tail(@)] /\ pod' = pod
    <3>1. proc.pc # "idle" /\ net' = net
      BY <1>4 DEF ProcShape, NoProc, RunRule
    <3>2. proc' = [proc EXCEPT !.todo = proc'.todo]
      BY <2>1 DEF ProcShape
    <3> QED
      BY <2>1, <3>1, <3>2 DEF ProcShape
  <2>2. CASE At("bypass") /\ GotoRules("attach", buildConnmarkPreroutingRules) /\ pod' = pod
    BY <1>4, <2>2 DEF ProcShape, NoProc, RunRule, At, GotoRules
  <2>3. CASE AddFails
    BY <2>3, IdleProc DEF AddFails
  <2> QED
    BY <1>4, <2>1, <2>2, <2>3 DEF RunRule
<1>5. CASE RulesDone
  <2>1. proc.pc \in AddPc /\ pod' = pod /\ net' = net
    BY <1>5 DEF RulesDone, At, nodeVars
  <2>2. \/ proc' = [proc EXCEPT !.pc = "enable"]
        \/ proc' = [proc EXCEPT !.pc = "attach", !.todo = buildConnmarkPreroutingRules]
        \/ proc' = [proc EXCEPT !.pc = "assign"]
    BY <1>5 DEF RulesDone, Goto, GotoRules
  <2> QED
    BY <2>1, <2>2 DEF ProcShape
<1>6. CASE tryEnableNATGWOutgoing
  <2>1. proc.pc = "enable" /\ pod' = pod /\ net' = net
    BY <1>6 DEF tryEnableNATGWOutgoing, At, nodeVars
  <2>2. \/ proc' = [proc EXCEPT !.pc = "attach", !.todo = buildConnmarkPreroutingRules]
        \/ \E a, d : proc' = [proc EXCEPT !.pc = "migrate", !.add = a, !.del = d]
    BY <1>6 DEF tryEnableNATGWOutgoing, GotoRules
  <2> QED
    BY <2>1, <2>2 DEF ProcShape
<1>7. CASE migrateLegacyNATGWOutgoingIPs
  <2>1. proc.pc = "migrate" /\ pod' = pod /\ net' = net
    BY <1>7 DEF migrateLegacyNATGWOutgoingIPs, At, nodeVars
  <2>2. \E pc \in {"migrate", "bypass", "attach"} : \E t, a, d :
           proc' = [proc EXCEPT !.pc = pc, !.todo = t, !.add = a, !.del = d]
    <3>1. CASE \E i : proc' = [proc EXCEPT !.add = @ \ {i}]
      <4>1. PICK i : proc' = [proc EXCEPT !.add = @ \ {i}]
        BY <3>1
      <4>2. proc' = [proc EXCEPT !.pc = "migrate", !.todo = proc.todo, !.add = proc.add \ {i},
                                 !.del = proc.del]
        BY <2>1, <4>1 DEF ProcShape
      <4> QED
        BY <4>2
    <3>2. CASE \E i : proc' = [proc EXCEPT !.del = @ \ {i}]
      <4>1. PICK i : proc' = [proc EXCEPT !.del = @ \ {i}]
        BY <3>2
      <4>2. proc' = [proc EXCEPT !.pc = "migrate", !.todo = proc.todo, !.add = proc.add,
                                 !.del = proc.del \ {i}]
        BY <2>1, <4>1 DEF ProcShape
      <4> QED
        BY <4>2
    <3>3. CASE GotoRules("bypass", natGWOutgoingBypassRule)
      <4>1. proc' = [proc EXCEPT !.pc = "bypass", !.todo = natGWOutgoingBypassRule, !.add = proc.add,
                                 !.del = proc.del]
        BY <3>3 DEF ProcShape, GotoRules
      <4> QED
        BY <4>1
    <3>4. CASE proc' = [proc EXCEPT !.pc = "attach", !.todo = buildConnmarkPreroutingRules,
                                !.add = {}, !.del = {}]
      BY <3>4
    <3> QED
      BY <1>7, <3>1, <3>2, <3>3, <3>4 DEF migrateLegacyNATGWOutgoingIPs
  <2> QED
    BY <2>1, <2>2 DEF ProcShape
<1>8. CASE syncNATGWOutgoingIP
  <2>1. proc.pc = "assign" /\ pod' = pod /\ net' = net
    BY <1>8 DEF syncNATGWOutgoingIP, At
  <2>2. \/ \E i \in IP : proc' = [proc EXCEPT !.pc = "finish", !.ip = i, !.added = i \notin ipset]
        \/ \E i \in IP : proc' = [proc EXCEPT !.pc = "finish", !.ip = i]
    BY <1>8 DEF syncNATGWOutgoingIP
  <2>3. CASE \E i \in IP : proc' = [proc EXCEPT !.pc = "finish", !.ip = i, !.added = i \notin ipset]
    BY <2>1, <2>3 DEF ProcShape
  <2>4. CASE \E i \in IP : proc' = [proc EXCEPT !.pc = "finish", !.ip = i]
    BY <2>1, <2>4 DEF ProcShape
  <2> QED
    BY <2>2, <2>3, <2>4
<1>9. CASE NoAddress \/ rollbackNATGWOutgoingIP \/ finishDel \/ Kill \/ Reboot
  <2>1. proc' = NoProc
    BY <1>9 DEF NoAddress, rollbackNATGWOutgoingIP, finishDel, Kill, Reboot, AddFails
  <2> QED
    BY <2>1, IdleProc
<1>10. CASE finishAdd
  <2>1. CASE proc' = NoProc
    BY <2>1, IdleProc
  <2>2. CASE Goto("rollback") /\ pod' = pod
    <3>1. proc.pc = "finish"
      BY <1>10 DEF finishAdd, At
    <3> QED
      BY <2>2, <3>1 DEF Goto, ProcShape
  <2> QED
    BY <1>10, <2>1, <2>2 DEF finishAdd
<1>11. CASE DelNAT
  BY <1>11 DEF DelNAT, At, Goto, nodeVars, ProcShape
<1>12. CASE releasePodIp
  <2>1. CASE proc' = NoProc
    BY <2>1, IdleProc
  <2>2. CASE Goto("record")
    BY <1>12, <2>2 DEF releasePodIp, At, Goto, ProcShape
  <2> QED
    BY <1>12, <2>1, <2>2 DEF releasePodIp
<1>13. CASE delPodNetworkRecord
  BY <1>13 DEF delPodNetworkRecord, At, ProcShape
<1>14. CASE proc' = proc /\ pod' = pod /\ net' = net
  BY <1>14 DEF ProcShape, NoProc
<1>15. CASE (\E p \in Pod : ReconcileDelete(p) \/ ReconcilePut(p)) \/ (\E n \in PodNetworking : EditPolicy(n))
            \/ UNCHANGED vars
  BY <1>14, <1>15 DEF ReconcileDelete, ReconcilePut, EditPolicy, vars, nodeVars
<1> QED
  BY <1>1, <1>2, <1>3, <1>4, <1>5, <1>6, <1>7, <1>8, <1>9, <1>10, <1>11, <1>12, <1>13, <1>15, NextCases

(* Between the steps that change the chains the process only moves on.     *)
ChainInv == ChainShape /\ ReturnsFirst /\ AttachedReady
Full == \A r \in Cidr \cup {"mark"} : Has("CONNMARK", r)

LEMMA ChainSame ==
  ASSUME ChainInv, chain' = chain
  PROVE  ChainInv' /\ (Full => Full')
BY DEF ChainInv, ChainShape, ReturnsFirst, AttachedReady, Before, Has, Full

(* The head of a list belongs to the list's own rules.                     *)
LEMMA HeadRule ==
  ASSUME Shape, proc.todo # <<>>
  PROVE  /\ proc.pc \in {"chains", "bypass", "attach"}
         /\ Head(proc.todo) \in AnyRule
         /\ proc.pc = "chains" => Head(proc.todo) \in ChainRule
         /\ proc.pc = "bypass" => Head(proc.todo) \in BypassRule
         /\ proc.pc = "attach" => Head(proc.todo) \in AttachRule
<1>1. TodoShape /\ proc.pc \in {"chains", "bypass", "attach"}
  BY DEF Shape, TodoShape
<1>2. CASE proc.pc = "chains"
  BY <1>1, <1>2, TailFacts DEF TodoShape, AnyRule
<1>3. CASE proc.pc = "bypass"
  BY <1>1, <1>3, TailFacts DEF TodoShape, AnyRule
<1>4. CASE proc.pc = "attach"
  BY <1>1, <1>4, TailFacts DEF TodoShape, AnyRule
<1> QED
  BY <1>1, <1>2, <1>3, <1>4

LEMMA RunStep ==
  ASSUME Shape, ChainInv, ReadyInv, proc.todo # <<>>, updateIptablesRule(Head(proc.todo)),
         proc' = [proc EXCEPT !.todo = Tail(@)]
  PROVE  ChainInv' /\ TodoShape' /\ ReadyInv'
<1>0. ChainShape /\ ReturnsFirst /\ AttachedReady /\ TodoShape /\ ProcShape
  BY DEF Shape, ChainInv
<1>1. PICK r : r = Head(proc.todo)
  OBVIOUS
<1>2. r \in AnyRule /\ updateIptablesRule(r) /\ proc.pc \in {"chains", "bypass", "attach"}
  BY <1>1, HeadRule
<1>3. proc'.pc = proc.pc /\ proc'.todo = Tail(proc.todo)
  BY <1>0 DEF ProcShape
<1>4. TodoShape'
  <2>1. CASE proc.pc = "chains"
    BY <1>0, <1>3, <2>1, TailFacts DEF TodoShape
  <2>2. CASE proc.pc = "bypass"
    BY <1>0, <1>3, <2>2, TailFacts DEF TodoShape
  <2>3. CASE proc.pc = "attach"
    BY <1>0, <1>3, <2>3, TailFacts DEF TodoShape
  <2> QED
    BY <1>2, <2>1, <2>2, <2>3
<1>5. ReadyInv'
  <2>1. CASE proc.pc = "chains"
    <3>1. proc.todo \in Seq(ChainRule)
      BY <1>0, <2>1 DEF TodoShape
    <3>2. ASSUME NEW x \in Cidr \cup {"mark"} PROVE Has("CONNMARK", x)' \/ ToDo(x)'
      <4>1. Has("CONNMARK", x) \/ ToDo(x)
        BY <2>1 DEF ReadyInv
      <4>2. CASE Has("CONNMARK", x)
        BY <1>0, <1>2, <4>2, RunKeeps
      <4>3. CASE ToDo(x)
        <5>1. PICK j \in DOMAIN proc.todo :
                proc.todo[j].chain = "CONNMARK" /\ proc.todo[j].rule = x /\ proc.todo[j].shouldExist
          BY <4>3 DEF ToDo
        <5>2. CASE j = 1
          <6>1. r = proc.todo[1]
            BY <1>1, <3>1, TailFacts
          <6> QED
            BY <1>0, <1>2, <5>1, <5>2, <6>1, RunKeeps
        <5>3. CASE j - 1 \in DOMAIN Tail(proc.todo) /\ Tail(proc.todo)[j - 1] = proc.todo[j]
          BY <1>3, <5>1, <5>3 DEF ToDo
        <5> QED
          BY <3>1, <5>2, <5>3, TailFacts
      <4> QED
        BY <4>1, <4>2, <4>3
    <3> QED
      BY <1>3, <2>1, <3>2 DEF ReadyInv
  <2>2. CASE proc.pc \in {"bypass", "attach"}
    <3>1. \A x \in Cidr \cup {"mark"} : Has("CONNMARK", x)'
      BY <1>0, <1>2, <2>2, RunKeeps DEF ReadyInv
    <3> QED
      BY <1>3, <2>2, <3>1 DEF ReadyInv
  <2> QED
    BY <1>2, <2>1, <2>2
<1>6. AttachedReady'
  <2>1. CASE proc.pc \in {"bypass", "attach"}
    <3>1. \A x \in Cidr \cup {"mark"} : Has("CONNMARK", x)'
      BY <1>0, <1>2, <2>1, RunKeeps DEF ReadyInv
    <3> QED
      BY <3>1 DEF AttachedReady, Cidr
  <2>2. CASE proc.pc = "chains"
    <3>1. r.chain # "PREROUTING"
      BY <1>1, <1>2, <2>2, HeadRule, RuleKinds
    <3>2. chain'["PREROUTING"] = chain["PREROUTING"]
      BY <1>0, <1>2, <3>1, RunEffect DEF Chain
    <3>3. Has("PREROUTING", "jump")' => \A x \in Cidr \cup {"mark"} : Has("CONNMARK", x)
      BY <1>0, <3>2 DEF AttachedReady, Has, Cidr
    <3>4. Has("PREROUTING", "jump")' => \A x \in Cidr \cup {"mark"} : Has("CONNMARK", x)'
      BY <1>0, <1>2, <3>3, RunKeeps
    <3> QED
      BY <3>4 DEF AttachedReady, Cidr
  <2> QED
    BY <1>2, <2>1, <2>2
<1>7. ChainShape' /\ ReturnsFirst'
  BY <1>0, <1>2, RunEffect, RunReturnsFirst
<1> QED
  BY <1>4, <1>5, <1>6, <1>7 DEF ChainInv

LEMMA RunPc ==
  ASSUME Shape, RunRule
  PROVE  proc'.pc \in {proc.pc, "attach", "idle"}
<1>1. ProcShape
  BY DEF Shape
<1>2. CASE proc' = [proc EXCEPT !.todo = Tail(@)]
  BY <1>1, <1>2 DEF ProcShape
<1>3. CASE GotoRules("attach", buildConnmarkPreroutingRules)
  BY <1>1, <1>3 DEF ProcShape, GotoRules
<1>4. CASE AddFails
  BY <1>4 DEF AddFails, NoProc
<1> QED
  BY <1>2, <1>3, <1>4 DEF RunRule

(* A list that is empty, at the end of its phase.                          *)
LEMMA ListDone ==
  ASSUME Shape, ReadyInv, proc.pc \in {"chains", "enable", "migrate", "bypass", "attach"},
         proc.pc = "chains" => proc.todo = <<>>
  PROVE  Full
<1>1. CASE proc.pc = "chains"
  <2>1. \A r : ~ToDo(r)
    BY <1>1 DEF ToDo
  <2> QED
    BY <1>1, <2>1 DEF ReadyInv, Full
<1>2. CASE proc.pc \in {"enable", "migrate", "bypass", "attach"}
  BY <1>2 DEF ReadyInv, Full
<1> QED
  BY <1>1, <1>2

LEMMA ChainStep ==
  ASSUME Shape, ChainInv, ReadyInv, [Next]_vars
  PROVE  ChainInv' /\ TodoShape' /\ ReadyInv'
<1>0. ProcShape /\ TodoShape
  BY DEF Shape
<1>a. ASSUME Full, chain' = chain, proc'.pc \in {"bypass", "attach"},
             proc'.todo = IF proc'.pc = "bypass" THEN natGWOutgoingBypassRule ELSE buildConnmarkPreroutingRules
      PROVE  ChainInv' /\ TodoShape' /\ ReadyInv'
  <2>1. ChainInv' /\ Full'
    BY <1>a, ChainSame
  <2>2. TodoShape'
    BY <1>a, OtherLists DEF TodoShape
  <2>3. ReadyInv'
    BY <1>a, <2>1 DEF ReadyInv, Full
  <2> QED
    BY <2>1, <2>2, <2>3
<1>b. ASSUME Full, chain' = chain, proc'.pc \in {"enable", "migrate"}, proc'.todo = <<>>
      PROVE  ChainInv' /\ TodoShape' /\ ReadyInv'
  BY <1>b, ChainSame DEF TodoShape, ReadyInv, Full
<1>c. ASSUME chain' = chain, proc'.pc \in {"idle", "assign", "finish", "rollback"} \cup DelPc, proc'.todo = <<>>
      PROVE  ChainInv' /\ TodoShape' /\ ReadyInv'
  BY <1>c, ChainSame DEF TodoShape, ReadyInv, DelPc
<1>d. ASSUME chain' = chain, proc' = NoProc
      PROVE  ChainInv' /\ TodoShape' /\ ReadyInv'
  BY <1>c, <1>d DEF NoProc
<1>e. ASSUME chain' = chain, proc' = proc
      PROVE  ChainInv' /\ TodoShape' /\ ReadyInv'
  BY <1>0, <1>e, ChainSame DEF TodoShape, ReadyInv, Has, ToDo
<1>1. CASE \E p \in Pod : StartAdd(p)
  <2>1. /\ proc'.pc = "chains" /\ proc'.todo = buildSNATRules \o buildConnmarkRules
        /\ chain' = chain
    BY <1>1 DEF StartAdd, NoProc
  <2>2. TodoShape'
    BY <2>1, StartList DEF TodoShape
  <2>3. ASSUME NEW r \in Cidr \cup {"mark"} PROVE ToDo(r)'
    <3>1. \E b : Rule("CONNMARK", r, TRUE, b) \in ToSet(proc'.todo)
      BY <2>1, StartList
    <3>2. PICK b : Rule("CONNMARK", r, TRUE, b) \in ToSet(proc'.todo)
      BY <3>1
    <3>3. PICK j \in DOMAIN proc'.todo : proc'.todo[j] = Rule("CONNMARK", r, TRUE, b)
      BY <3>2 DEF ToSet
    <3> QED
      BY <3>3 DEF ToDo, Rule
  <2>4. ReadyInv'
    BY <2>1, <2>3 DEF ReadyInv
  <2> QED
    BY <2>1, <2>2, <2>4, ChainSame
<1>2. CASE \E p \in Pod : StartDel(p)
  <2>1. PICK p \in Pod : StartDel(p)
    BY <1>2
  <2>2. chain' = chain /\ (proc' = proc \/ (proc'.pc = "natdel" /\ proc'.todo = <<>>))
    BY <2>1 DEF StartDel, NoProc
  <2> QED
    BY <1>c, <1>e, <2>2 DEF DelPc
<1>3. CASE RunRule
  <2>1. CASE updateIptablesRule(Head(proc.todo)) /\ proc' = [proc EXCEPT !.todo = Tail(@)]
    BY <1>3, <2>1, RunStep DEF RunRule
  <2>2. CASE proc.pc = "bypass" /\ GotoRules("attach", buildConnmarkPreroutingRules) /\ chain' = chain
    <3>1. proc'.pc = "attach" /\ proc'.todo = buildConnmarkPreroutingRules
      BY <1>0, <2>2 DEF GotoRules, ProcShape
    <3> QED
      BY <1>a, <2>2, <3>1, ListDone
  <2>3. CASE AddFails /\ chain' = chain
    BY <1>d, <2>3 DEF AddFails
  <2> QED
    BY <1>3, <2>1, <2>2, <2>3 DEF RunRule, At
<1>4. CASE RulesDone
  <2>1. proc.todo = <<>> /\ chain' = chain /\ proc.pc \in {"chains", "bypass", "attach"}
    BY <1>4 DEF RulesDone, At
  <2>2. Full
    BY <2>1, ListDone
  <2>3. CASE Goto("enable")
    BY <1>0, <1>b, <2>1, <2>2, <2>3 DEF Goto, ProcShape
  <2>4. CASE GotoRules("attach", buildConnmarkPreroutingRules)
    <3>1. proc'.pc = "attach" /\ proc'.todo = buildConnmarkPreroutingRules
      BY <1>0, <2>4 DEF GotoRules, ProcShape
    <3> QED
      BY <1>a, <2>1, <2>2, <3>1
  <2>5. CASE Goto("assign")
    BY <1>0, <1>c, <2>1, <2>5 DEF Goto, ProcShape
  <2> QED
    BY <1>4, <2>3, <2>4, <2>5 DEF RulesDone
<1>5. CASE tryEnableNATGWOutgoing
  <2>1. proc.pc = "enable" /\ chain' = chain /\ proc.todo = <<>>
    BY <1>0, <1>5 DEF tryEnableNATGWOutgoing, At, TodoShape
  <2>2. Full
    BY <2>1, ListDone
  <2>3. CASE GotoRules("attach", buildConnmarkPreroutingRules)
    <3>1. proc'.pc = "attach" /\ proc'.todo = buildConnmarkPreroutingRules
      BY <1>0, <2>3 DEF GotoRules, ProcShape
    <3> QED
      BY <1>a, <2>1, <2>2, <3>1
  <2>4. CASE \E a, d : proc' = [proc EXCEPT !.pc = "migrate", !.add = a, !.del = d]
    <3>1. proc'.pc = "migrate" /\ proc'.todo = <<>>
      BY <1>0, <2>1, <2>4 DEF ProcShape
    <3> QED
      BY <1>b, <2>1, <2>2, <3>1
  <2> QED
    BY <1>5, <2>3, <2>4 DEF tryEnableNATGWOutgoing
<1>6. CASE migrateLegacyNATGWOutgoingIPs
  <2>1. proc.pc = "migrate" /\ chain' = chain /\ proc.todo = <<>>
    BY <1>0, <1>6 DEF migrateLegacyNATGWOutgoingIPs, At, TodoShape
  <2>2. Full
    BY <2>1, ListDone
  <2>3. \/ proc'.pc = "migrate" /\ proc'.todo = <<>>
        \/ proc'.pc = "bypass" /\ proc'.todo = natGWOutgoingBypassRule
        \/ proc'.pc = "attach" /\ proc'.todo = buildConnmarkPreroutingRules
    BY <1>0, <1>6, <2>1 DEF migrateLegacyNATGWOutgoingIPs, GotoRules, ProcShape
  <2> QED
    BY <1>a, <1>b, <2>1, <2>2, <2>3
<1>7. CASE syncNATGWOutgoingIP
  <2>1. proc.pc = "assign" /\ chain' = chain /\ proc.todo = <<>>
    BY <1>0, <1>7 DEF syncNATGWOutgoingIP, At, TodoShape
  <2>2. proc'.pc = "finish" /\ proc'.todo = <<>>
    BY <1>0, <1>7, <2>1 DEF syncNATGWOutgoingIP, ProcShape
  <2> QED
    BY <1>c, <2>1, <2>2
<1>8. CASE NoAddress \/ rollbackNATGWOutgoingIP \/ finishDel \/ Kill
  BY <1>8, <1>d DEF NoAddress, rollbackNATGWOutgoingIP, finishDel, Kill, AddFails
<1>9. CASE finishAdd \/ DelNAT \/ releasePodIp \/ delPodNetworkRecord
  <2>1. proc' = NoProc \/ (proc'.pc \in {"rollback", "release", "record", "end"} /\ proc'.todo = <<>>)
    BY <1>0, <1>9
       DEF finishAdd, DelNAT, releasePodIp, delPodNetworkRecord, At, Goto, ProcShape, TodoShape
  <2>2. chain' = chain
    BY <1>9 DEF finishAdd, DelNAT, releasePodIp, delPodNetworkRecord
  <2> QED
    BY <1>c, <1>d, <2>1, <2>2 DEF DelPc
<1>10. CASE Reboot
  <2>1. proc' = NoProc /\ chain' = [c \in Chain |-> <<>>]
    BY <1>10 DEF Reboot
  <2>2. ChainShape'
    BY <2>1 DEF ChainShape, Chain
  <2>3. chain'["PREROUTING"] = <<>> /\ chain'["CONNMARK"] = <<>> /\ chain'["SNAT"] = <<>>
    BY <2>1 DEF Chain
  <2>4. AttachedReady' /\ ReturnsFirst'
    BY <2>3 DEF AttachedReady, ReturnsFirst, Has, Before, ToSet
  <2> QED
    BY <2>1, <2>2, <2>4, IdleProc DEF ChainInv
<1>11. CASE (\E p \in Pod : PodEvent(p)) \/ (\E p \in Pod : ReconcileDelete(p) \/ ReconcilePut(p))
            \/ (\E n \in PodNetworking : EditPolicy(n)) \/ UNCHANGED vars
  BY <1>11, <1>e DEF PodEvent, ReconcileDelete, ReconcilePut, EditPolicy, vars
<1> QED
  BY <1>1, <1>2, <1>3, <1>4, <1>5, <1>6, <1>7, <1>8, <1>9, <1>10, <1>11, NextCases

----------------------------------------------------------------------------
(* The addresses that pods hold.                                           *)

LEMMA TypesStep ==
  ASSUME Shape, PlanInv, [Next]_vars
  PROVE  Types'
<1>0. ProcShape /\ Types /\ NoIP \notin IP
  BY NatAssumption DEF Shape, NodeShape
<1>a. \A i \in IP \cup {NoIP} : risky \cup ({i} \ {NoIP}) \subseteq IP
  BY <1>0 DEF Types
<1>b. Unfinished \subseteq IP
  BY <1>0 DEF Unfinished, ProcShape
<1>1. pod' \in [Pod -> {"new", "adding", "up", "down", "gone"}]
  BY <1>0, NextCases
     DEF Types, StartAdd, StartDel, PodEvent, ReconcileDelete, ReconcilePut, RunRule, RulesDone,
         tryEnableNATGWOutgoing, migrateLegacyNATGWOutgoingIPs, syncNATGWOutgoingIP, NoAddress, finishAdd,
         rollbackNATGWOutgoingIP, DelNAT, releasePodIp, delPodNetworkRecord, finishDel, Kill, Reboot,
         EditPolicy, AddFails, vars, nodeVars
<1>2. rec' \in [Pod -> IP \cup {NoIP}] /\ net' \in [Pod -> IP \cup {NoIP}]
  <2>1. (rec' = rec /\ net' = net)
        \/ (\E p \in Pod, i \in IP \cup {NoIP} :
              rec' = [rec EXCEPT ![p] = i] /\ (net' = net \/ net' = [net EXCEPT ![p] = i]))
    <3>1. CASE finishAdd
      BY <1>0, <3>1 DEF finishAdd, addPodNetworkRecord, At, ProcShape, AddPc
    <3>2. CASE delPodNetworkRecord
      BY <1>0, <3>2 DEF delPodNetworkRecord, At, ProcShape, DelPc
    <3>3. CASE \E p \in Pod : ReconcileDelete(p) \/ ReconcilePut(p)
      BY <1>0, <3>3 DEF ReconcileDelete, ReconcilePut, Types
    <3>4. CASE UNCHANGED <<rec, net>>
      BY <3>4
    <3> QED
      BY <3>1, <3>2, <3>3, <3>4, NextCases
         DEF StartAdd, StartDel, PodEvent, RunRule, RulesDone, tryEnableNATGWOutgoing,
             migrateLegacyNATGWOutgoingIPs, syncNATGWOutgoingIP, NoAddress, rollbackNATGWOutgoingIP, DelNAT,
             releasePodIp, finishDel, Kill, Reboot, EditPolicy, vars, nodeVars
  <2> QED
    BY <1>0, <2>1 DEF Types
<1>3. want' \in [Pod -> {"unset", "node", "gateway"}]
  <2>1. CASE tryEnableNATGWOutgoing
    BY <1>0, <2>1 DEF tryEnableNATGWOutgoing, Types
  <2>2. CASE syncNATGWOutgoingIP
    BY <1>0, <2>2 DEF syncNATGWOutgoingIP, Types
  <2>3. CASE \E p \in Pod : StartDel(p)
    BY <1>0, <2>3 DEF StartDel, Types
  <2>4. CASE want' = want
    BY <1>0, <2>4 DEF Types
  <2> QED
    BY <2>1, <2>2, <2>3, <2>4, NextCases
       DEF StartAdd, PodEvent, ReconcileDelete, ReconcilePut, RunRule, RulesDone,
           migrateLegacyNATGWOutgoingIPs, NoAddress, finishAdd, rollbackNATGWOutgoingIP, DelNAT, releasePodIp,
           delPodNetworkRecord, finishDel, Kill, Reboot, EditPolicy, vars, natVars
<1>4. ipset' \subseteq IP
  <2>1. CASE migrateLegacyNATGWOutgoingIPs
    <3>1. proc.add \subseteq IP
      BY <1>0, <2>1 DEF migrateLegacyNATGWOutgoingIPs, At, PlanInv, Types
    <3> QED
      BY <1>0, <2>1, <3>1 DEF migrateLegacyNATGWOutgoingIPs, Types
  <2>2. CASE syncNATGWOutgoingIP
    BY <1>0, <2>2 DEF syncNATGWOutgoingIP, Types
  <2>3. CASE rollbackNATGWOutgoingIP \/ DelNAT
    BY <1>0, <2>3 DEF rollbackNATGWOutgoingIP, DelNAT, deleteNATGWOutgoingIP, Types
  <2>4. CASE ipset' = ipset \/ ipset' = {}
    BY <1>0, <2>4 DEF Types
  <2> QED
    BY <2>1, <2>2, <2>3, <2>4, NextCases
       DEF StartAdd, StartDel, PodEvent, ReconcileDelete, ReconcilePut, RunRule, RulesDone,
           tryEnableNATGWOutgoing, NoAddress, finishAdd, releasePodIp, delPodNetworkRecord, finishDel, Kill,
           Reboot, EditPolicy, vars, natVars
<1>5. taken' \subseteq IP
  <2>1. CASE syncNATGWOutgoingIP
    BY <1>0, <2>1 DEF syncNATGWOutgoingIP, Types
  <2>2. CASE finishAdd \/ releasePodIp
    BY <1>0, <2>2 DEF finishAdd, releasePodIp, Types
  <2>3. CASE taken' = taken
    BY <1>0, <2>3 DEF Types
  <2> QED
    BY <2>1, <2>2, <2>3, NextCases
       DEF StartAdd, StartDel, PodEvent, ReconcileDelete, ReconcilePut, RunRule, RulesDone,
           tryEnableNATGWOutgoing, migrateLegacyNATGWOutgoingIPs, NoAddress, rollbackNATGWOutgoingIP, DelNAT,
           delPodNetworkRecord, finishDel, Kill, Reboot, EditPolicy, vars, nodeVars
<1>6. risky' \subseteq IP
  <2>1. CASE rollbackNATGWOutgoingIP
    BY <1>0, <2>1 DEF rollbackNATGWOutgoingIP, deleteNATGWOutgoingIP, At, ProcShape, Types
  <2>2. CASE DelNAT \/ releasePodIp \/ delPodNetworkRecord
    BY <1>0, <2>2 DEF DelNAT, deleteNATGWOutgoingIP, releasePodIp, delPodNetworkRecord, At, ProcShape, Types
  <2>3. CASE \E p \in Pod : ReconcileDelete(p) \/ ReconcilePut(p)
    BY <1>0, <2>3 DEF ReconcileDelete, ReconcilePut, Types
  <2>4. CASE Kill \/ Reboot
    BY <1>0, <1>b, <2>4 DEF Kill, Reboot, Types
  <2>5. CASE risky' = risky
    BY <1>0, <2>5 DEF Types
  <2> QED
    BY <2>1, <2>2, <2>3, <2>4, <2>5, NextCases
       DEF StartAdd, StartDel, PodEvent, RunRule, RulesDone, tryEnableNATGWOutgoing,
           migrateLegacyNATGWOutgoingIPs, syncNATGWOutgoingIP, NoAddress, finishAdd, finishDel, EditPolicy,
           vars, natVars
<1>7. pol' \in [PodNetworking -> BOOLEAN]
  BY <1>0, NextCases
     DEF Types, StartAdd, StartDel, PodEvent, ReconcileDelete, ReconcilePut, RunRule, RulesDone,
         tryEnableNATGWOutgoing, migrateLegacyNATGWOutgoingIPs, syncNATGWOutgoingIP, NoAddress, finishAdd,
         rollbackNATGWOutgoingIP, DelNAT, releasePodIp, delPodNetworkRecord, finishDel, Kill, Reboot,
         EditPolicy, vars
<1> QED
  BY <1>1, <1>2, <1>3, <1>4, <1>5, <1>6, <1>7 DEF Types

(* A step that gives no pod an address.                                    *)
LEMMA NodeKeep ==
  ASSUME NodeShape, Types', net' = net, risky \subseteq risky',
         \A p \in Pod : pod'[p] = "up" => pod[p] = "up",
         \A p \in Pod : rec'[p] # NoIP => rec'[p] = net[p],
         \A p \in Pod : Holds(p)' => Holds(p) \/ net[p] \in risky',
         \A p \in Pod : Holds(p)' /\ net[p] \in taken /\ net[p] \notin risky' => net[p] \in taken',
         \A p \in Pod : pod'[p] = "up" /\ p \in live' /\ net[p] \notin risky' => p \in live /\ rec'[p] = rec[p]
  PROVE  NodeShape'
<1>1. \A p \in Pod : Holds(p)' /\ net[p] \notin risky' => net[p] \in taken'
  BY DEF NodeShape
<1>2. \A p, q \in Pod : Holds(p)' /\ Holds(q)' /\ net[p] = net[q] /\ net[p] \notin risky' => p = q
  BY DEF NodeShape
<1>3. \A p \in Pod : pod'[p] = "up" => net[p] # NoIP
  BY DEF NodeShape
<1>4. \A p \in Pod : pod'[p] = "up" /\ p \in live' /\ net[p] \notin risky' => rec'[p] = net[p]
  BY DEF NodeShape
<1> QED
  BY <1>1, <1>2, <1>3, <1>4 DEF NodeShape

(* Steps that leave the records alone and keep every pod that holds an     *)
(* address to the same pc of its DEL.                                      *)
LEMMA NodeSame ==
  ASSUME NodeShape, Types', UNCHANGED <<rec, net>>, risky \subseteq risky', taken \subseteq taken', live' \subseteq live,
         \A p \in Pod : pod'[p] = "up" => pod[p] = "up",
         \A p \in Pod : Holds(p)' => Holds(p) \/ net[p] \in risky'
  PROVE  NodeShape'
<1>1. \A p \in Pod : rec'[p] # NoIP => rec'[p] = net[p]
  BY DEF NodeShape
<1> QED
  BY <1>1, NodeKeep

LEMMA NodeStep ==
  ASSUME Shape, SetInv, PlanInv, [Next]_vars
  PROVE  NodeShape'
<1>0. ProcShape /\ NodeShape /\ Types /\ Types' /\ NoIP \notin IP
  BY TypesStep, NatAssumption DEF Shape, NodeShape
<1>a. ASSUME UNCHANGED <<rec, net, taken, live, risky>>, \A p \in Pod : pod'[p] = "up" => pod[p] = "up",
             \A p \in Pod : proc'.pc \in {"natdel", "release"} /\ proc'.pod = p => Holds(p),
             proc.pc = "record" => proc' = proc
      PROVE  NodeShape'
  BY <1>0, <1>a, NodeSame DEF Holds
<1>1. CASE \E p \in Pod : StartAdd(p)
  BY <1>0, <1>1, <1>a DEF StartAdd, NoProc, Types, natVars
<1>2. CASE \E p \in Pod : StartDel(p)
  <2>1. PICK p \in Pod : StartDel(p)
    BY <1>2
  <2>2. UNCHANGED <<rec, net, taken, live, risky>> /\ proc = NoProc
    BY <2>1 DEF StartDel
  <2>3. \A q \in Pod : pod'[q] = "up" => pod[q] = "up"
    BY <1>0, <2>1 DEF StartDel, Types
  <2>4. \A q \in Pod : proc'.pc \in {"natdel", "release"} /\ proc'.pod = q => Holds(q)
    <3>1. \/ rec[p] # NoIP /\ proc'.pod = p
          \/ proc' = proc
      BY <2>1 DEF StartDel, NoProc
    <3>2. proc.pc = "idle"
      BY <2>2 DEF NoProc
    <3> QED
      BY <3>1, <3>2 DEF Holds
  <2> QED
    BY <1>a, <2>2, <2>3, <2>4 DEF NoProc
<1>3. CASE \E p \in Pod : PodEvent(p)
  <2>1. PICK p \in Pod : PodEvent(p)
    BY <1>3
  <2>2. UNCHANGED <<rec, net, taken, proc, risky>>
    BY <2>1 DEF PodEvent, natVars
  <2>3. \A q \in Pod : pod'[q] = "up" => pod[q] = "up" /\ (q \in live' => q \in live)
    BY <1>0, <2>1 DEF PodEvent, Types
  <2>4. \A q \in Pod : Holds(q)' => Holds(q)
    BY <2>2, <2>3 DEF Holds
  <2>5. \A q \in Pod : rec'[q] # NoIP => rec'[q] = net[q]
    BY <1>0, <2>2 DEF NodeShape
  <2> QED
    BY <1>0, <2>2, <2>3, <2>4, <2>5, NodeKeep
<1>4. CASE RunRule
  <2>1. proc'.pc \in {"chains", "bypass", "attach", "idle"} /\ proc.pc \in {"chains", "bypass", "attach"}
    BY <1>4, HeadRule, RunPc DEF RunRule
  <2>2. \A p \in Pod : pod'[p] = "up" => pod[p] = "up"
    BY <1>0, <1>4 DEF RunRule, AddFails, Types
  <2> QED
    BY <1>4, <1>a, <2>1, <2>2 DEF RunRule, natVars
<1>5. CASE RulesDone \/ tryEnableNATGWOutgoing \/ migrateLegacyNATGWOutgoingIPs
  <2>1. UNCHANGED <<rec, net, taken, live, risky, pod>>
    BY <1>5 DEF RulesDone, tryEnableNATGWOutgoing, migrateLegacyNATGWOutgoingIPs, nodeVars, natVars
  <2>2. proc'.pc \in {"enable", "attach", "assign", "migrate", "bypass"} /\ proc.pc # "record"
    BY <1>0, <1>5
       DEF RulesDone, tryEnableNATGWOutgoing, migrateLegacyNATGWOutgoingIPs, At, Goto, GotoRules, ProcShape
  <2> QED
    BY <1>a, <2>1, <2>2
<1>6. CASE syncNATGWOutgoingIP
  <2>1. proc'.pc = "finish" /\ proc.pc = "assign"
    BY <1>0, <1>6 DEF syncNATGWOutgoingIP, At, ProcShape
  <2>2. UNCHANGED <<rec, net, live, risky, pod>> /\ taken \subseteq taken'
    BY <1>6 DEF syncNATGWOutgoingIP
  <2>3. \A p \in Pod : Holds(p)' => Holds(p)
    BY <2>1, <2>2 DEF Holds
  <2> QED
    BY <1>0, <2>2, <2>3, NodeSame
<1>7. CASE NoAddress
  <2>1. proc' = NoProc /\ proc.pc = "assign" /\ UNCHANGED <<rec, net, taken, live, risky>>
    BY <1>7 DEF NoAddress, AddFails, At, natVars
  <2>2. \A p \in Pod : pod'[p] = "up" => pod[p] = "up"
    BY <1>0, <1>7 DEF NoAddress, AddFails, Types
  <2> QED
    BY <1>a, <2>1, <2>2 DEF NoProc
<1>8. CASE finishAdd
  <2>0. /\ proc.pc = "finish" /\ proc.pod \in Pod /\ pod[proc.pod] = "adding" /\ proc.ip \in IP
        /\ proc.ip \in taken /\ proc'.pc \in {"idle", "rollback"} /\ UNCHANGED <<live, risky>>
    BY <1>0, <1>8 DEF finishAdd, At, Goto, ProcShape, AddPc, SetInv, NoProc, natVars
  <2>1. proc.ip \notin risky => \A p \in Pod : Holds(p) => net[p] # proc.ip
    BY <2>0 DEF SetInv
  <2>2. \A p \in Pod \ {proc.pod} : pod'[p] = pod[p]
    BY <1>0, <1>8 DEF finishAdd, Types
  <2>3. CASE addPodNetworkRecord /\ taken' = taken
    <3>1. /\ rec'[proc.pod] = proc.ip /\ net'[proc.pod] = proc.ip
          /\ \A p \in Pod \ {proc.pod} : rec'[p] = rec[p] /\ net'[p] = net[p]
      BY <1>0, <2>0, <2>3 DEF addPodNetworkRecord, Types
    <3>2. \A p \in Pod \ {proc.pod} : Holds(p)' => Holds(p)
      BY <2>0, <2>2, <3>1 DEF Holds
    <3>3. \A p \in Pod : rec'[p] # NoIP => rec'[p] = net'[p]
      BY <1>0, <3>1 DEF NodeShape
    <3>4. \A p \in Pod : pod'[p] = "up" => net'[p] # NoIP
      BY <1>0, <2>0, <2>2, <3>1 DEF NodeShape
    <3>5. \A p \in Pod : Holds(p)' /\ net'[p] \notin risky => net'[p] \in taken
      BY <1>0, <2>0, <3>1, <3>2 DEF NodeShape
    <3>6. \A p, q \in Pod : Holds(p)' /\ Holds(q)' /\ net'[p] = net'[q] /\ net'[p] \notin risky => p = q
      BY <1>0, <2>1, <3>1, <3>2 DEF NodeShape
    <3>7. \A p \in Pod : pod'[p] = "up" /\ p \in live' /\ net'[p] \notin risky => rec'[p] = net'[p]
      BY <1>0, <2>0, <2>2, <3>1 DEF NodeShape
    <3> QED
      BY <1>0, <2>0, <2>3, <3>3, <3>4, <3>5, <3>6, <3>7 DEF NodeShape
  <2>4. CASE pod' = pod /\ taken' \in {taken, taken \ {proc.ip}} /\ UNCHANGED <<rec, net>>
    <3>1. \A p \in Pod : Holds(p)' => Holds(p)
      BY <2>0, <2>4 DEF Holds
    <3>2. \A p \in Pod : rec'[p] # NoIP => rec'[p] = net[p]
      BY <1>0, <2>4 DEF NodeShape
    <3>3. \A p \in Pod : Holds(p)' /\ net[p] \in taken /\ net[p] \notin risky' => net[p] \in taken'
      BY <2>0, <2>1, <2>4, <3>1
    <3> QED
      BY <1>0, <2>0, <2>4, <3>1, <3>2, <3>3, NodeKeep
  <2> QED
    BY <1>8, <2>3, <2>4 DEF finishAdd
<1>9. CASE rollbackNATGWOutgoingIP
  <2>1. /\ proc' = NoProc /\ proc.pc = "rollback" /\ UNCHANGED <<rec, net, taken, live>>
        /\ risky \subseteq risky'
    BY <1>9 DEF rollbackNATGWOutgoingIP, deleteNATGWOutgoingIP, AddFails, At
  <2>2. \A p \in Pod : pod'[p] = "up" => pod[p] = "up"
    BY <1>0, <1>9 DEF rollbackNATGWOutgoingIP, AddFails, Types
  <2>3. \A p \in Pod : Holds(p)' => Holds(p)
    BY <2>1, <2>2 DEF Holds, NoProc
  <2> QED
    BY <1>0, <2>1, <2>2, <2>3, NodeSame
<1>10. CASE DelNAT
  <2>1. /\ proc.pc = "natdel" /\ proc'.pc = "release" /\ proc'.pod = proc.pod
        /\ UNCHANGED <<rec, net, taken, live, pod>> /\ risky \subseteq risky'
    BY <1>0, <1>10 DEF DelNAT, deleteNATGWOutgoingIP, At, Goto, ProcShape, nodeVars
  <2>2. \A p \in Pod : Holds(p)' => Holds(p)
    BY <2>1 DEF Holds
  <2> QED
    BY <1>0, <2>1, <2>2, NodeSame
<1>11. CASE releasePodIp
  <2>0. /\ proc.pc = "release" /\ proc.pod \in Pod /\ pod[proc.pod] = "down" /\ proc.ip = net[proc.pod]
        /\ UNCHANGED <<rec, net, live, pod>>
    BY <1>0, <1>11 DEF releasePodIp, At, ProcShape, DelPc
  <2>1. Holds(proc.pod)
    BY <2>0 DEF Holds
  <2>2. \A p \in Pod : rec'[p] # NoIP => rec'[p] = net[p]
    BY <1>0, <2>0 DEF NodeShape
  <2>3. CASE taken' = taken \ {proc.ip} /\ Goto("record") /\ risky' = risky
    <3>1. proc'.pc = "record" /\ proc'.pod = proc.pod
      BY <1>0, <2>3 DEF Goto, ProcShape
    <3>2. \A p \in Pod : Holds(p)' => Holds(p) /\ p # proc.pod
      BY <2>0, <3>1 DEF Holds
    <3>3. \A p \in Pod : Holds(p)' /\ net[p] \in taken /\ net[p] \notin risky' => net[p] \in taken'
      BY <1>0, <2>0, <2>1, <2>3, <3>2 DEF NodeShape
    <3> QED
      BY <1>0, <2>0, <2>2, <2>3, <3>2, <3>3, NodeKeep
  <2>4. CASE proc' = NoProc /\ taken' = taken /\ risky' = risky
    <3>1. \A p \in Pod : Holds(p)' => Holds(p)
      BY <2>0, <2>4 DEF Holds, NoProc
    <3> QED
      BY <1>0, <2>0, <2>4, <3>1, NodeSame
  <2>5. CASE proc' = NoProc /\ taken' = taken \ {proc.ip} /\ risky' = risky \cup {proc.ip}
    <3>1. \A p \in Pod : Holds(p)' => Holds(p)
      BY <2>0, <2>5 DEF Holds, NoProc
    <3> QED
      BY <1>0, <2>0, <2>2, <2>5, <3>1, NodeKeep
  <2> QED
    BY <1>11, <2>3, <2>4, <2>5 DEF releasePodIp
<1>12. CASE delPodNetworkRecord
  <2>0. /\ proc.pc = "record" /\ proc.pod \in Pod /\ pod[proc.pod] = "down" /\ proc.ip = net[proc.pod]
        /\ proc'.pc = "end" /\ UNCHANGED <<net, live, pod, taken>>
    BY <1>0, <1>12 DEF delPodNetworkRecord, At, ProcShape, DelPc
  <2>1. CASE rec' = [rec EXCEPT ![proc.pod] = NoIP] /\ risky' = risky
    <3>1. rec'[proc.pod] = NoIP /\ \A p \in Pod \ {proc.pod} : rec'[p] = rec[p]
      BY <1>0, <2>0, <2>1 DEF Types
    <3>2. \A p \in Pod : Holds(p)' => Holds(p)
      BY <2>0, <3>1 DEF Holds
    <3>3. \A p \in Pod : rec'[p] # NoIP => rec'[p] = net[p]
      BY <1>0, <3>1 DEF NodeShape
    <3> QED
      BY <1>0, <2>0, <2>1, <3>1, <3>2, <3>3, NodeKeep
  <2>2. CASE rec' = rec /\ risky' = risky \cup {proc.ip}
    <3>1. \A p \in Pod : Holds(p)' => Holds(p) \/ net[p] \in risky'
      BY <2>0, <2>2 DEF Holds
    <3> QED
      BY <1>0, <2>0, <2>2, <3>1, NodeSame
  <2> QED
    BY <1>12, <2>1, <2>2 DEF delPodNetworkRecord
<1>13. CASE finishDel
  <2>1. proc' = NoProc /\ proc.pc = "end" /\ UNCHANGED <<rec, net, taken, live, risky>>
    BY <1>13 DEF finishDel, At, natVars
  <2>2. \A p \in Pod : pod'[p] = "up" => pod[p] = "up"
    BY <1>0, <1>13 DEF finishDel, Types
  <2> QED
    BY <1>a, <2>1, <2>2 DEF NoProc
<1>14. CASE \E p \in Pod : ReconcileDelete(p)
  <2>1. PICK p \in Pod : ReconcileDelete(p)
    BY <1>14
  <2>2. /\ UNCHANGED <<pod, net, taken, live, proc>> /\ risky \subseteq risky'
        /\ rec'[p] = NoIP /\ \A q \in Pod \ {p} : rec'[q] = rec[q]
        /\ p \in live => rec[p] \in risky'
    BY <1>0, <2>1 DEF ReconcileDelete, Types
  <2>3. \A q \in Pod : Holds(q)' => Holds(q)
    BY <2>2 DEF Holds
  <2>4. \A q \in Pod : rec'[q] # NoIP => rec'[q] = net[q]
    BY <1>0, <2>2 DEF NodeShape
  <2>5. rec[p] = net[p]
    BY <1>0, <2>1 DEF NodeShape, ReconcileDelete
  <2> QED
    BY <1>0, <2>2, <2>3, <2>4, <2>5, NodeKeep
<1>15. CASE \E p \in Pod : ReconcilePut(p)
  <2>1. PICK p \in Pod : ReconcilePut(p)
    BY <1>15
  <2>2. /\ UNCHANGED <<pod, net, taken, live, proc>> /\ risky' = risky \cup {net[p]}
        /\ rec'[p] = net[p] /\ pod[p] # "up" /\ \A q \in Pod \ {p} : rec'[q] = rec[q]
    BY <1>0, <2>1 DEF ReconcilePut, Types
  <2>3. \A q \in Pod : Holds(q)' => Holds(q) \/ net[q] \in risky'
    BY <2>2 DEF Holds
  <2>4. \A q \in Pod : rec'[q] # NoIP => rec'[q] = net[q]
    BY <1>0, <2>2 DEF NodeShape
  <2> QED
    BY <1>0, <2>2, <2>3, <2>4, NodeKeep
<1>16. CASE Kill \/ Reboot
  <2>1. /\ proc' = NoProc /\ UNCHANGED <<rec, net, taken, live>> /\ risky' = risky \cup Unfinished
    BY <1>16 DEF Kill, Reboot, AddFails
  <2>2. \A p \in Pod : pod'[p] = "up" => pod[p] = "up"
    BY <1>0, <1>16 DEF Kill, Reboot, AddFails, Types
  <2>3. ASSUME proc.pc = "record" PROVE net[proc.pod] \in risky'
    BY <1>0, <2>1, <2>3 DEF ProcShape, SetInv, Unfinished
  <2>4. \A p \in Pod : Holds(p)' => Holds(p) \/ net[p] \in risky'
    BY <2>1, <2>2, <2>3 DEF Holds, NoProc
  <2> QED
    BY <1>0, <2>1, <2>2, <2>4, NodeSame
<1>17. CASE (\E n \in PodNetworking : EditPolicy(n)) \/ UNCHANGED vars
  <2>1. UNCHANGED <<rec, net, taken, live, risky, pod, proc>>
    BY <1>17 DEF EditPolicy, vars, natVars, nodeVars
  <2> QED
    BY <1>0, <2>1, NodeSame DEF Holds
<1> QED
  BY <1>1, <1>2, <1>3, <1>4, <1>5, <1>6, <1>7, <1>8, <1>9, <1>10, <1>11, <1>12, <1>13, <1>14, <1>15,
     <1>16, <1>17, NextCases

----------------------------------------------------------------------------
(* The ipset.                                                              *)

(* Steps beside the process, and steps after which nothing is to be said   *)
(* of the address that it has in hand.                                     *)
LEMMA SetSame ==
  ASSUME SetInv, proc' = proc, UNCHANGED <<net, taken, ipset>>, risky \subseteq risky',
         proc.pc = "finish" => want' = want,
         \A p \in Pod : Holds(p)' => Holds(p) \/ net[p] \in risky'
  PROVE  SetInv'
BY DEF SetInv, Pending

LEMMA SetMoved ==
  ASSUME proc'.pc \notin {"release", "record", "finish", "rollback"}, ipset' \subseteq taken' \cup risky'
  PROVE  SetInv'
BY DEF SetInv, Pending

LEMMA SetStep ==
  ASSUME Shape, SetInv, PlanInv, [Next]_vars
  PROVE  SetInv'
<1>0. ProcShape /\ NodeShape /\ TodoShape /\ Types /\ NoIP \notin IP
  BY NatAssumption DEF Shape, NodeShape
<1>a. ASSUME proc.pc # "rollback", UNCHANGED <<taken, ipset, risky>>,
             proc'.pc \notin {"release", "record", "finish", "rollback"}
      PROVE  SetInv'
  <2>1. ipset \subseteq taken \cup risky
    BY <1>a DEF SetInv, Pending
  <2> QED
    BY <1>a, <2>1, SetMoved
<1>1. CASE (\E p \in Pod : StartAdd(p)) \/ (\E p \in Pod : StartDel(p))
  <2>1. proc = NoProc /\ (proc' = proc \/ proc'.pc \in {"chains", "natdel"})
    BY <1>1 DEF StartAdd, StartDel, NoProc
  <2>2. UNCHANGED <<taken, ipset, risky>>
    BY <1>1 DEF StartAdd, StartDel, natVars
  <2> QED
    BY <1>a, <2>1, <2>2 DEF NoProc
<1>2. CASE (\E p \in Pod : PodEvent(p)) \/ (\E n \in PodNetworking : EditPolicy(n)) \/ UNCHANGED vars
  <2>1. UNCHANGED <<net, rec, taken, ipset, risky, want, proc>>
    BY <1>2 DEF PodEvent, EditPolicy, vars, natVars, nodeVars
  <2>2. \A p \in Pod : pod'[p] = "up" => pod[p] = "up"
    BY <1>0, <1>2 DEF PodEvent, EditPolicy, vars, nodeVars, Types
  <2> QED
    BY <2>1, <2>2, SetSame DEF Holds
<1>3. CASE \E p \in Pod : ReconcileDelete(p) \/ ReconcilePut(p)
  <2>1. PICK p \in Pod : ReconcileDelete(p) \/ ReconcilePut(p)
    BY <1>3
  <2>2. UNCHANGED <<net, pod, taken, ipset, want, proc>> /\ risky \subseteq risky'
    BY <2>1 DEF ReconcileDelete, ReconcilePut
  <2>3. \A q \in Pod : rec'[q] # NoIP => rec[q] # NoIP \/ net[q] \in risky'
    BY <1>0, <2>1 DEF ReconcileDelete, ReconcilePut, Types
  <2>4. \A q \in Pod : Holds(q)' => Holds(q) \/ net[q] \in risky'
    BY <2>2, <2>3 DEF Holds
  <2> QED
    BY <2>2, <2>4, SetSame
<1>4. CASE RunRule
  <2>1. proc'.pc \in {"chains", "bypass", "attach", "idle"} /\ proc.pc \in {"chains", "bypass", "attach"}
    BY <1>4, HeadRule, RunPc DEF RunRule
  <2> QED
    BY <1>4, <1>a, <2>1 DEF RunRule, natVars
<1>5. CASE RulesDone \/ tryEnableNATGWOutgoing
  <2>1. UNCHANGED <<taken, ipset, risky>>
    BY <1>5 DEF RulesDone, tryEnableNATGWOutgoing, nodeVars, natVars
  <2>2. proc'.pc \in {"enable", "attach", "assign", "migrate"} /\ proc.pc # "rollback"
    BY <1>0, <1>5 DEF RulesDone, tryEnableNATGWOutgoing, At, Goto, GotoRules, ProcShape
  <2> QED
    BY <1>a, <2>1, <2>2
<1>6. CASE migrateLegacyNATGWOutgoingIPs
  <2>1. proc'.pc \in {"migrate", "bypass", "attach"} /\ proc.pc = "migrate"
    BY <1>0, <1>6 DEF migrateLegacyNATGWOutgoingIPs, At, GotoRules, ProcShape
  <2>2. UNCHANGED <<taken, risky>> /\ proc.add \subseteq taken \cup risky
    BY <1>6, <2>1 DEF migrateLegacyNATGWOutgoingIPs, nodeVars, PlanInv
  <2>3. \/ \E i \in proc.add : ipset' = ipset \cup {i}
        \/ \E i : ipset' = ipset \ {i}
        \/ ipset' = ipset
    BY <1>6 DEF migrateLegacyNATGWOutgoingIPs
  <2>4. ipset \subseteq taken \cup risky
    BY <2>1 DEF SetInv, Pending
  <2> QED
    BY <2>1, <2>2, <2>3, <2>4, SetMoved
<1>7. CASE syncNATGWOutgoingIP
  <2>0. proc.pc = "assign" /\ proc.pod \in Pod /\ UNCHANGED <<rec, net, pod, risky>>
    BY <1>0, <1>7 DEF syncNATGWOutgoingIP, At, ProcShape, AddPc
  <2>1. PICK i \in IP \ taken :
          /\ taken' = taken \cup {i}
          /\ \/ /\ ipset' = ipset \cup {i}
                /\ proc' = [proc EXCEPT !.pc = "finish", !.ip = i, !.added = i \notin ipset]
                /\ want' = [want EXCEPT ![proc.pod] = "gateway"]
             \/ /\ proc' = [proc EXCEPT !.pc = "finish", !.ip = i]
                /\ want' = [want EXCEPT ![proc.pod] = "node"]
                /\ ipset' = ipset
    BY <1>7 DEF syncNATGWOutgoingIP
  <2>2. proc'.pc = "finish" /\ proc'.ip = i /\ proc'.pod = proc.pod
    BY <1>0, <2>1 DEF ProcShape
  <2>3. \A p \in Pod : Holds(p)' <=> Holds(p)
    BY <2>0, <2>2 DEF Holds
  <2>4. \A p \in Pod : Holds(p)' /\ net'[p] = i => i \in risky
    BY <1>0, <2>0, <2>1, <2>3 DEF NodeShape
  <2>5. ipset \subseteq taken \cup risky /\ ipset' \subseteq taken' \cup risky
    BY <2>0, <2>1 DEF SetInv, Pending
  <2>6. CASE /\ ipset' = ipset \cup {i} /\ want' = [want EXCEPT ![proc.pod] = "gateway"]
             /\ proc' = [proc EXCEPT !.pc = "finish", !.ip = i, !.added = i \notin ipset]
    <3>1. want'[proc.pod] = "gateway" /\ (i \notin risky => proc'.added)
      BY <1>0, <2>0, <2>1, <2>5, <2>6 DEF Types, ProcShape
    <3> QED
      BY <2>0, <2>1, <2>2, <2>4, <2>5, <2>6, <3>1 DEF SetInv
  <2>7. CASE ipset' = ipset /\ want' = [want EXCEPT ![proc.pod] = "node"]
    <3>1. want'[proc.pod] = "node"
      BY <1>0, <2>0, <2>7 DEF Types
    <3> QED
      BY <2>0, <2>1, <2>2, <2>4, <2>5, <2>7, <3>1 DEF SetInv
  <2> QED
    BY <2>1, <2>6, <2>7
<1>8. CASE NoAddress \/ finishDel
  <2>1. proc' = NoProc /\ proc.pc # "rollback" /\ UNCHANGED <<taken, ipset, risky>>
    BY <1>8 DEF NoAddress, finishDel, AddFails, At, natVars
  <2> QED
    BY <1>a, <2>1 DEF NoProc
<1>9. CASE finishAdd
  <2>0. /\ proc.pc = "finish" /\ proc.pod \in Pod /\ UNCHANGED <<ipset, risky, want>>
        /\ proc.ip \in taken /\ ipset \subseteq taken \cup risky
    BY <1>0, <1>9 DEF finishAdd, At, ProcShape, AddPc, SetInv, Pending, natVars
  <2>1. CASE proc' = NoProc /\ taken' = taken
    BY <1>a, <2>0, <2>1 DEF NoProc
  <2>2. CASE Goto("rollback") /\ pod' = pod
    <3>1. proc'.pc = "rollback" /\ proc'.ip = proc.ip /\ proc'.pod = proc.pod /\ proc'.added = proc.added
      BY <1>0, <2>2 DEF Goto, ProcShape
    <3>2. ipset' \subseteq taken' \cup risky' \cup {proc.ip}
      BY <1>9, <2>0 DEF finishAdd
    <3>3. \A p \in Pod \ {proc.pod} : rec'[p] = rec[p] /\ net'[p] = net[p]
      BY <1>0, <1>9, <2>0 DEF finishAdd, addPodNetworkRecord, Types
    <3>4. \A p \in Pod \ {proc.pod} : Holds(p)' => Holds(p)
      BY <2>0, <2>2, <3>1, <3>3 DEF Holds
    <3>5. proc.ip \notin risky => \A p \in Pod : Holds(p)' /\ net'[p] = proc.ip => p = proc.pod
      BY <2>0, <3>3, <3>4 DEF SetInv
    <3>6. proc.ip \notin risky => (proc.ip \in ipset => proc.added)
      BY <2>0 DEF SetInv
    <3> QED
      BY <2>0, <3>1, <3>2, <3>5, <3>6 DEF SetInv, Pending
  <2> QED
    BY <1>9, <2>1, <2>2 DEF finishAdd
<1>10. CASE rollbackNATGWOutgoingIP
  <2>0. proc.pc = "rollback" /\ proc' = NoProc /\ taken' = taken
    BY <1>10 DEF rollbackNATGWOutgoingIP, AddFails, At
  <2>1. ipset \subseteq taken \cup risky \cup {proc.ip} /\ (proc.ip \in ipset => proc.added \/ proc.ip \in risky)
    BY <2>0 DEF SetInv, Pending
  <2>2. \/ ipset' = ipset \ {proc.ip} /\ risky' = risky
        \/ ipset' = ipset /\ risky' = risky \cup {proc.ip}
        \/ ~proc.added /\ ipset' = ipset /\ risky' = risky
    BY <1>10 DEF rollbackNATGWOutgoingIP, deleteNATGWOutgoingIP
  <2>3. ipset' \subseteq taken' \cup risky'
    BY <2>0, <2>1, <2>2
  <2> QED
    BY <2>0, <2>3, SetMoved DEF NoProc
<1>11. CASE DelNAT
  <2>0. proc'.pc = "release" /\ proc'.ip = proc.ip /\ proc.pc = "natdel" /\ taken' = taken
    BY <1>0, <1>11 DEF DelNAT, At, Goto, ProcShape, nodeVars
  <2>1. \/ ipset' = ipset \ {proc.ip} /\ risky' = risky
        \/ ipset' = ipset /\ risky' = risky \cup {proc.ip}
    BY <1>11 DEF DelNAT, deleteNATGWOutgoingIP
  <2>2. ipset \subseteq taken \cup risky
    BY <2>0 DEF SetInv, Pending
  <2> QED
    BY <2>0, <2>1, <2>2 DEF SetInv, Pending
<1>12. CASE releasePodIp
  <2>0. proc.pc = "release" /\ ipset' = ipset
    BY <1>12 DEF releasePodIp, At
  <2>1. ipset \subseteq taken \cup risky /\ (proc.ip \notin ipset \/ proc.ip \in risky)
    BY <2>0 DEF SetInv, Pending
  <2>2. CASE taken' = taken \ {proc.ip} /\ Goto("record") /\ risky' = risky
    <3>1. proc'.pc = "record" /\ proc'.ip = proc.ip
      BY <1>0, <2>2 DEF Goto, ProcShape
    <3> QED
      BY <2>0, <2>1, <2>2, <3>1 DEF SetInv, Pending
  <2>3. CASE proc' = NoProc /\ (\/ taken' = taken /\ risky' = risky
                                \/ taken' = taken \ {proc.ip} /\ risky' = risky \cup {proc.ip})
    BY <2>0, <2>1, <2>3, SetMoved DEF NoProc
  <2> QED
    BY <1>12, <2>2, <2>3 DEF releasePodIp
<1>13. CASE delPodNetworkRecord
  <2>0. proc.pc = "record" /\ proc'.pc = "end" /\ UNCHANGED <<ipset, taken>> /\ risky \subseteq risky'
    BY <1>0, <1>13 DEF delPodNetworkRecord, At, ProcShape
  <2>1. ipset \subseteq taken \cup risky
    BY <2>0 DEF SetInv, Pending
  <2> QED
    BY <2>0, <2>1, SetMoved
<1>14. CASE Kill \/ Reboot
  <2>0. /\ proc' = NoProc /\ ipset' \subseteq ipset /\ taken' = taken /\ risky' = risky \cup Unfinished
    BY <1>14 DEF Kill, Reboot, AddFails
  <2>1. ipset \subseteq taken \cup risky \cup Unfinished
    BY <1>0 DEF SetInv, Pending, Unfinished, Types
  <2> QED
    BY <2>0, <2>1, SetMoved DEF NoProc
<1> QED
  BY <1>1, <1>2, <1>3, <1>4, <1>5, <1>6, <1>7, <1>8, <1>9, <1>10, <1>11, <1>12, <1>13, <1>14, NextCases

LEMMA PlanStep ==
  ASSUME Shape, SetInv, PlanInv, [Next]_vars
  PROVE  PlanInv'
<1>0. ProcShape /\ NodeShape /\ TodoShape /\ ChainShape /\ Types /\ NoIP \notin IP
  BY NatAssumption DEF Shape, NodeShape
<1>a. ASSUME proc'.pc \notin {"migrate", "bypass"} PROVE PlanInv'
  BY <1>a DEF PlanInv
<1>b. ASSUME UNCHANGED <<chain, net, taken, want, ipset, proc>>, risky \subseteq risky',
             \A p \in Pod : pod'[p] = "up" => pod[p] = "up"
      PROVE  PlanInv'
  BY <1>b DEF PlanInv, Exact, Has
<1>1. CASE (\E p \in Pod : StartAdd(p)) \/ (\E p \in Pod : StartDel(p))
  <2>1. (proc' = proc /\ proc = NoProc) \/ proc'.pc \in {"chains", "natdel"}
    BY <1>1 DEF StartAdd, StartDel, NoProc
  <2> QED
    BY <1>a, <2>1 DEF NoProc
<1>2. CASE (\E p \in Pod : PodEvent(p)) \/ (\E n \in PodNetworking : EditPolicy(n)) \/ UNCHANGED vars
  <2>1. UNCHANGED <<chain, net, taken, want, ipset, proc, risky>>
    BY <1>2 DEF PodEvent, EditPolicy, vars, natVars, nodeVars
  <2>2. \A p \in Pod : pod'[p] = "up" => pod[p] = "up"
    BY <1>0, <1>2 DEF PodEvent, EditPolicy, vars, nodeVars, Types
  <2> QED
    BY <1>b, <2>1, <2>2
<1>3. CASE \E p \in Pod : ReconcileDelete(p) \/ ReconcilePut(p)
  BY <1>3, <1>b DEF ReconcileDelete, ReconcilePut
<1>4. CASE RunRule
  <2>1. proc.pc \in {"chains", "bypass", "attach"} /\ UNCHANGED <<net, want, ipset, risky>>
    BY <1>4, HeadRule DEF RunRule, natVars
  <2>2. proc'.pc # "migrate" /\ (proc'.pc = "bypass" => proc.pc = "bypass")
    BY <1>4, <2>1, RunPc
  <2>3. \A p \in Pod : pod'[p] = "up" => pod[p] = "up"
    BY <1>0, <1>4 DEF RunRule, AddFails, Types
  <2> QED
    BY <2>1, <2>2, <2>3 DEF PlanInv, Exact
<1>5. CASE RulesDone
  <2>1. proc'.pc \in {"enable", "attach", "assign"}
    BY <1>0, <1>5 DEF RulesDone, Goto, GotoRules, ProcShape
  <2> QED
    BY <1>a, <2>1
<1>6. CASE tryEnableNATGWOutgoing
  <2>1. CASE GotoRules("attach", buildConnmarkPreroutingRules)
    BY <1>0, <1>a, <2>1 DEF GotoRules, ProcShape
  <2>2. CASE /\ "bypass" \notin ToSet(chain["CONNMARK"])
             /\ proc' = [proc EXCEPT !.pc = "migrate", !.add = desiredNATGWOutgoingIPs \ ipset,
                                     !.del = ipset \ desiredNATGWOutgoingIPs]
             /\ want' = [p \in Pod |-> IF pod[p] # "up" \/ p \in live \ listPodNetworkRecords THEN want[p]
                                       ELSE IF p \in live /\ pol[NetOf[p]] THEN "gateway" ELSE "node"]
    <3>1. /\ proc'.pc = "migrate" /\ proc'.add = desiredNATGWOutgoingIPs \ ipset
          /\ proc'.del = ipset \ desiredNATGWOutgoingIPs
      BY <1>0, <2>2 DEF ProcShape
    <3>2. UNCHANGED <<chain, rec, net, pod, taken, ipset, risky>> /\ proc.pc = "enable"
      BY <1>6 DEF tryEnableNATGWOutgoing, nodeVars, At
    <3>3. \A i \in desiredNATGWOutgoingIPs :
            \E q \in live : q \in Pod /\ Holds(q) /\ net[q] = i /\ pol[NetOf[q]]
      BY <1>0, <3>2 DEF desiredNATGWOutgoingIPs, listPodNetworkRecords, Holds, NodeShape
    <3>4. desiredNATGWOutgoingIPs \subseteq taken \cup risky
      BY <1>0, <3>3 DEF NodeShape
    <3>5. ASSUME NEW p \in Pod, pod[p] = "up", net[p] \notin risky
          PROVE  /\ want'[p] \in {"node", "gateway"}
                 /\ want'[p] = "gateway" <=> net[p] \in desiredNATGWOutgoingIPs
      <4>1. Holds(p) /\ net[p] # NoIP /\ (p \in live => rec[p] = net[p])
        BY <1>0, <3>5 DEF Holds, NodeShape
      <4>2. want'[p] = IF p \in live /\ pol[NetOf[p]] THEN "gateway" ELSE "node"
        BY <2>2, <3>5, <4>1 DEF listPodNetworkRecords
      <4>3. p \in live /\ pol[NetOf[p]] => net[p] \in desiredNATGWOutgoingIPs
        BY <4>1 DEF desiredNATGWOutgoingIPs, listPodNetworkRecords
      <4>4. net[p] \in desiredNATGWOutgoingIPs => p \in live /\ pol[NetOf[p]]
        BY <1>0, <3>3, <3>5, <4>1 DEF NodeShape
      <4> QED
        BY <4>2, <4>3, <4>4
    <3>6. ASSUME NEW p \in Pod, pod'[p] = "up", net'[p] \notin risky'
          PROVE  Exact(p, (net[p] \in ipset /\ net[p] \notin proc.del) \/ net[p] \in proc.add)'
      <4>1. (net[p] \in ipset /\ net[p] \notin proc'.del) \/ net[p] \in proc'.add
              <=> net[p] \in desiredNATGWOutgoingIPs
        BY <3>1
      <4>2. pod[p] = "up" /\ net[p] \notin risky
        BY <3>2, <3>6
      <4> QED
        BY <3>2, <3>5, <4>1, <4>2 DEF Exact
    <3> QED
      BY <2>2, <3>1, <3>2, <3>4, <3>6 DEF PlanInv, Has
  <2> QED
    BY <1>6, <2>1, <2>2 DEF tryEnableNATGWOutgoing
<1>7. CASE migrateLegacyNATGWOutgoingIPs
  <2>0. proc.pc = "migrate" /\ UNCHANGED <<chain, net, pod, taken, want, risky>>
    BY <1>7 DEF migrateLegacyNATGWOutgoingIPs, At, nodeVars
  <2>1. /\ ~Has("CONNMARK", "bypass")
        /\ proc.add \subseteq taken \cup risky /\ proc.add \cap proc.del = {}
        /\ \A p \in Pod : pod[p] = "up" /\ net[p] \notin risky =>
            Exact(p, (net[p] \in ipset /\ net[p] \notin proc.del) \/ net[p] \in proc.add)
    BY <2>0 DEF PlanInv
  <2>2. CASE \E i \in proc.add : ipset' = ipset \cup {i} /\ proc' = [proc EXCEPT !.add = @ \ {i}]
    <3> PICK i \in proc.add : ipset' = ipset \cup {i} /\ proc' = [proc EXCEPT !.add = @ \ {i}]
      BY <2>2
    <3>1. proc'.pc = "migrate" /\ proc'.add = proc.add \ {i} /\ proc'.del = proc.del
      BY <1>0, <2>0 DEF ProcShape
    <3>2. \A x : ((x \in ipset' /\ x \notin proc'.del) \/ x \in proc'.add)
                   <=> ((x \in ipset /\ x \notin proc.del) \/ x \in proc.add)
      BY <2>1, <3>1
    <3> QED
      BY <2>0, <2>1, <3>1, <3>2 DEF PlanInv, Exact, Has
  <2>3. CASE \E i \in proc.del : ipset' = ipset \ {i} /\ proc' = [proc EXCEPT !.del = @ \ {i}]
    <3> PICK i \in proc.del : ipset' = ipset \ {i} /\ proc' = [proc EXCEPT !.del = @ \ {i}]
      BY <2>3
    <3>1. proc'.pc = "migrate" /\ proc'.add = proc.add /\ proc'.del = proc.del \ {i}
      BY <1>0, <2>0 DEF ProcShape
    <3>2. \A x : ((x \in ipset' /\ x \notin proc'.del) \/ x \in proc'.add)
                   <=> ((x \in ipset /\ x \notin proc.del) \/ x \in proc.add)
      BY <2>1, <3>1
    <3> QED
      BY <2>0, <2>1, <3>1, <3>2 DEF PlanInv, Exact, Has
  <2>4. CASE proc.add = {} /\ proc.del = {} /\ ipset' = ipset /\ GotoRules("bypass", natGWOutgoingBypassRule)
    <3>1. proc'.pc = "bypass"
      BY <1>0, <2>4 DEF GotoRules, ProcShape
    <3> QED
      BY <2>0, <2>1, <2>4, <3>1 DEF PlanInv, Exact
  <2>5. CASE proc' = [proc EXCEPT !.pc = "attach", !.todo = buildConnmarkPreroutingRules,
                                  !.add = {}, !.del = {}]
    BY <1>0, <1>a, <2>5 DEF ProcShape
  <2> QED
    BY <1>7, <2>2, <2>3, <2>4, <2>5 DEF migrateLegacyNATGWOutgoingIPs
<1>8. CASE syncNATGWOutgoingIP
  <2>1. proc'.pc = "finish"
    BY <1>0, <1>8 DEF syncNATGWOutgoingIP, ProcShape
  <2> QED
    BY <1>a, <2>1
<1>9. CASE NoAddress \/ rollbackNATGWOutgoingIP \/ finishDel \/ Kill \/ Reboot
  <2>1. proc' = NoProc
    BY <1>9 DEF NoAddress, rollbackNATGWOutgoingIP, finishDel, Kill, Reboot, AddFails
  <2> QED
    BY <1>a, <2>1 DEF NoProc
<1>10. CASE finishAdd \/ DelNAT \/ releasePodIp \/ delPodNetworkRecord
  <2>1. proc' = NoProc \/ proc'.pc \in {"rollback", "release", "record", "end"}
    BY <1>0, <1>10 DEF finishAdd, DelNAT, releasePodIp, delPodNetworkRecord, Goto, ProcShape
  <2> QED
    BY <1>a, <2>1 DEF NoProc
<1> QED
  BY <1>1, <1>2, <1>3, <1>4, <1>5, <1>6, <1>7, <1>8, <1>9, <1>10, NextCases

----------------------------------------------------------------------------
(* The bypass.                                                             *)

(* The second half of BypassExact.                                         *)
Right(p) == want[p] # "unset" /\ (net[p] \in ipset <=> want[p] = "gateway")
Bypassed == Has("CONNMARK", "bypass") => \A p \in Pod : pod[p] = "up" /\ net[p] \notin risky => Right(p)

LEMMA BypassIs == BypassExact <=> Cardinality(risky) <= faults /\ Bypassed
BY DEF BypassExact, Bypassed, Right

(* Membership in the ipset changes for addresses of no running pod, and a  *)
(* pod that starts to run has its address there as decided.                *)
LEMMA BypassStep ==
  ASSUME Shape, ChainInv, SetInv, PlanInv, Bypassed, [Next]_vars
  PROVE  Bypassed'
<1>0. ProcShape /\ NodeShape /\ TodoShape /\ ChainShape /\ Types /\ NoIP \notin IP
  BY NatAssumption DEF Shape, NodeShape
<1> DEFINE On == Has("CONNMARK", "bypass")
<1>a. ASSUME chain' = chain \/ (On' => On), UNCHANGED <<net, want, ipset>>, risky \subseteq risky',
             \A p \in Pod : pod'[p] = "up" => pod[p] = "up"
      PROVE  Bypassed'
  BY <1>a DEF Bypassed, Right, Has
<1>1. CASE \E p \in Pod : StartAdd(p)
  BY <1>0, <1>1, <1>a DEF StartAdd, natVars, Types
<1>2. CASE \E p \in Pod : StartDel(p)
  <2>1. PICK p \in Pod : StartDel(p)
    BY <1>2
  <2>2. UNCHANGED <<chain, net, ipset, risky>> /\ pod[p] = "down"
    BY <2>1 DEF StartDel
  <2>3. \A q \in Pod : pod'[q] = "up" => pod[q] = "up" /\ want'[q] = want[q]
    BY <1>0, <2>1 DEF StartDel, Types
  <2> QED
    BY <2>2, <2>3 DEF Bypassed, Right, Has
<1>3. CASE \E p \in Pod : PodEvent(p)
  BY <1>0, <1>3, <1>a DEF PodEvent, natVars, Types
<1>4. CASE RunRule
  <2>0. UNCHANGED <<net, want, ipset, risky>>
    BY <1>4 DEF RunRule, natVars
  <2>1. \A p \in Pod : pod'[p] = "up" => pod[p] = "up"
    BY <1>0, <1>4 DEF RunRule, AddFails, Types
  <2>2. CASE chain' = chain
    BY <1>a, <2>0, <2>1, <2>2
  <2>3. CASE updateIptablesRule(Head(proc.todo))
    <3>1. proc.todo # <<>> /\ Head(proc.todo) \in AnyRule
      BY <1>4, HeadRule DEF RunRule
    <3>2. CASE proc.pc = "bypass"
      <4>1. \A p \in Pod : pod[p] = "up" /\ net[p] \notin risky => Right(p)
        BY <3>2 DEF PlanInv, Exact, Right
      <4> QED
        BY <2>0, <2>1, <4>1 DEF Bypassed, Right
    <3>3. CASE proc.pc \in {"chains", "attach"}
      <4>1. Head(proc.todo).chain = "CONNMARK" => Head(proc.todo).rule # "bypass"
        BY <3>1, <3>3, HeadRule, RuleKinds
      <4>2. On' => On
        BY <1>0, <2>3, <3>1, <4>1, RunKeeps
      <4> QED
        BY <1>a, <2>0, <2>1, <4>2
    <3> QED
      BY <3>1, <3>2, <3>3, HeadRule
  <2> QED
    BY <1>4, <2>2, <2>3 DEF RunRule
<1>5. CASE RulesDone
  BY <1>5, <1>a DEF RulesDone, natVars, nodeVars
<1>6. CASE tryEnableNATGWOutgoing
  <2>1. UNCHANGED <<chain, net, pod, ipset, risky>>
    BY <1>6 DEF tryEnableNATGWOutgoing, nodeVars
  <2>2. CASE On
    <3>1. want' = want
      BY <1>6, <2>2 DEF tryEnableNATGWOutgoing, Has
    <3> QED
      BY <1>a, <2>1, <3>1
  <2>3. CASE ~On
    BY <2>1, <2>3 DEF Bypassed, Has
  <2> QED
    BY <2>2, <2>3
<1>7. CASE migrateLegacyNATGWOutgoingIPs
  <2>1. ~On /\ chain' = chain
    BY <1>7 DEF migrateLegacyNATGWOutgoingIPs, At, PlanInv
  <2> QED
    BY <2>1 DEF Bypassed, Has
<1>8. CASE syncNATGWOutgoingIP
  <2>0. /\ proc.pod \in Pod /\ pod[proc.pod] = "adding"
        /\ UNCHANGED <<chain, net, risky, pod>>
    BY <1>0, <1>8 DEF syncNATGWOutgoingIP, At, ProcShape, AddPc
  <2>1. PICK i \in IP \ taken :
          /\ ipset' = ipset \/ ipset' = ipset \cup {i}
          /\ \E w : want' = [want EXCEPT ![proc.pod] = w]
    BY <1>8 DEF syncNATGWOutgoingIP
  <2>2. ASSUME NEW p \in Pod, pod[p] = "up", net[p] \notin risky
        PROVE  want'[p] = want[p] /\ (net[p] \in ipset' <=> net[p] \in ipset)
    <3>1. p # proc.pod /\ net[p] \in taken
      BY <1>0, <2>0, <2>2 DEF NodeShape, Holds
    <3> QED
      BY <1>0, <2>1, <3>1 DEF Types
  <2> QED
    BY <2>0, <2>2 DEF Bypassed, Right, Has
<1>9. CASE NoAddress
  BY <1>0, <1>9, <1>a DEF NoAddress, AddFails, natVars, Types
<1>10. CASE finishAdd
  <2>0. /\ proc.pc = "finish" /\ proc.pod \in Pod /\ pod[proc.pod] = "adding"
        /\ UNCHANGED <<chain, want, ipset, risky>>
    BY <1>0, <1>10 DEF finishAdd, At, ProcShape, AddPc, natVars
  <2>1. /\ want[proc.pod] # "unset"
        /\ proc.ip \notin risky => (proc.ip \in ipset <=> want[proc.pod] = "gateway")
    BY <2>0 DEF SetInv
  <2>2. \A p \in Pod \ {proc.pod} : pod'[p] = pod[p] /\ net'[p] = net[p]
    BY <1>0, <1>10 DEF finishAdd, addPodNetworkRecord, Types
  <2>3. pod'[proc.pod] = "up" => net'[proc.pod] = proc.ip
    BY <1>0, <1>10, <2>0 DEF finishAdd, addPodNetworkRecord, Types
  <2> QED
    BY <2>0, <2>1, <2>2, <2>3 DEF Bypassed, Right, Has
<1>11. CASE rollbackNATGWOutgoingIP
  <2>0. /\ proc.pc = "rollback" /\ proc.pod \in Pod /\ pod[proc.pod] = "adding"
        /\ UNCHANGED <<chain, want, net>> /\ risky \subseteq risky'
        /\ ipset' = ipset \/ ipset' = ipset \ {proc.ip}
    BY <1>0, <1>11
       DEF rollbackNATGWOutgoingIP, deleteNATGWOutgoingIP, At, ProcShape, AddPc
  <2>1. \A p \in Pod : pod'[p] = "up" => pod[p] = "up" /\ p # proc.pod
    BY <1>0, <1>11, <2>0 DEF rollbackNATGWOutgoingIP, AddFails, Types
  <2>2. ASSUME NEW p \in Pod, pod'[p] = "up", net[p] \notin risky' PROVE net[p] \in ipset' <=> net[p] \in ipset
    <3>1. Holds(p) /\ p # proc.pod /\ net[p] \notin risky
      BY <2>0, <2>1, <2>2 DEF Holds
    <3>2. net[p] # proc.ip
      BY <2>0, <3>1 DEF SetInv
    <3> QED
      BY <2>0, <3>2
  <2> QED
    BY <2>0, <2>1, <2>2 DEF Bypassed, Right, Has
<1>12. CASE DelNAT
  <2>0. /\ proc.pc = "natdel" /\ proc.pod \in Pod /\ pod[proc.pod] = "down" /\ proc.ip = net[proc.pod]
        /\ UNCHANGED <<chain, want, net, pod>> /\ risky \subseteq risky'
        /\ ipset' = ipset \/ ipset' = ipset \ {proc.ip}
    BY <1>0, <1>12 DEF DelNAT, deleteNATGWOutgoingIP, At, ProcShape, DelPc, nodeVars
  <2>1. ASSUME NEW p \in Pod, pod[p] = "up", net[p] \notin risky PROVE net[p] # proc.ip
    <3>1. Holds(p) /\ Holds(proc.pod) /\ p # proc.pod
      BY <2>0, <2>1 DEF Holds
    <3> QED
      BY <1>0, <2>0, <2>1, <3>1 DEF NodeShape
  <2> QED
    BY <2>0, <2>1 DEF Bypassed, Right, Has
<1>13. CASE releasePodIp \/ delPodNetworkRecord
  BY <1>13, <1>a DEF releasePodIp, delPodNetworkRecord
<1>14. CASE finishDel
  BY <1>0, <1>14, <1>a DEF finishDel, natVars, Types
<1>15. CASE \E p \in Pod : ReconcileDelete(p) \/ ReconcilePut(p)
  BY <1>15, <1>a DEF ReconcileDelete, ReconcilePut
<1>16. CASE Kill
  <2>1. \A p \in Pod : pod'[p] = "up" => pod[p] = "up"
    BY <1>0, <1>16 DEF Kill, AddFails, Types
  <2> QED
    BY <1>16, <1>a, <2>1 DEF Kill
<1>17. CASE Reboot
  <2>1. chain'["CONNMARK"] = <<>>
    BY <1>17 DEF Reboot, Chain
  <2>2. ~On'
    BY <2>1 DEF Has, ToSet
  <2> QED
    BY <2>2 DEF Bypassed
<1>18. CASE (\E n \in PodNetworking : EditPolicy(n)) \/ UNCHANGED vars
  BY <1>18, <1>a DEF EditPolicy, vars, natVars, nodeVars
<1> QED
  BY <1>1, <1>2, <1>3, <1>4, <1>5, <1>6, <1>7, <1>8, <1>9, <1>10, <1>11, <1>12, <1>13, <1>14,
     <1>15, <1>16, <1>17, <1>18, NextCases

----------------------------------------------------------------------------
(* One address for each fault.                                             *)

LEMMA RiskStep ==
  ASSUME RiskBound, [Next]_vars
  PROVE  RiskBound'
<1>1. \/ risky' = risky /\ faults' \in {faults, faults + 1}
      \/ (\E i : risky' = risky \cup {i}) /\ faults' = faults + 1
  <2>1. CASE Kill \/ Reboot
    <3>1. risky' = risky \cup Unfinished /\ faults' = faults + 1
      BY <2>1 DEF Kill, Reboot, Fault
    <3>2. Unfinished = {} \/ Unfinished = {proc.ip}
      BY DEF Unfinished
    <3> QED
      BY <3>1, <3>2
  <2>2. CASE \E p \in Pod : StartAdd(p) \/ StartDel(p) \/ PodEvent(p) \/ ReconcileDelete(p) \/ ReconcilePut(p)
    BY <2>2 DEF StartAdd, StartDel, PodEvent, ReconcileDelete, ReconcilePut, Fault, natVars
  <2>3. CASE RunRule \/ RulesDone \/ tryEnableNATGWOutgoing \/ migrateLegacyNATGWOutgoingIPs
             \/ syncNATGWOutgoingIP \/ NoAddress \/ finishAdd
    <3>1. risky' = risky
      BY <2>3 DEF RunRule, RulesDone, tryEnableNATGWOutgoing, migrateLegacyNATGWOutgoingIPs,
                  syncNATGWOutgoingIP, NoAddress, finishAdd, natVars
    <3>2. faults' \in {faults, faults + 1}
      BY <2>3 DEF RunRule, RulesDone, tryEnableNATGWOutgoing, migrateLegacyNATGWOutgoingIPs,
                  syncNATGWOutgoingIP, NoAddress, finishAdd, Fault
    <3> QED
      BY <3>1, <3>2
  <2>4. CASE rollbackNATGWOutgoingIP \/ DelNAT \/ releasePodIp \/ delPodNetworkRecord \/ finishDel
    BY <2>4 DEF rollbackNATGWOutgoingIP, DelNAT, deleteNATGWOutgoingIP, releasePodIp, delPodNetworkRecord,
                finishDel, Fault, natVars
  <2>5. CASE (\E n \in PodNetworking : EditPolicy(n)) \/ UNCHANGED vars
    BY <2>5 DEF EditPolicy, vars, natVars
  <2> QED
    BY <2>1, <2>2, <2>3, <2>4, <2>5, NextCases
<1>2. Cardinality(risky) \in Nat
  BY FS_CardinalityType DEF RiskBound
<1>3. CASE risky' = risky /\ faults' \in {faults, faults + 1}
  BY <1>2, <1>3 DEF RiskBound
<1>4. CASE (\E i : risky' = risky \cup {i}) /\ faults' = faults + 1
  <2>1. PICK i : risky' = risky \cup {i}
    BY <1>4
  <2>2. IsFiniteSet(risky') /\ Cardinality(risky') \in {Cardinality(risky), Cardinality(risky) + 1}
    BY <2>1, FS_AddElement DEF RiskBound
  <2> QED
    BY <1>2, <1>4, <2>2 DEF RiskBound
<1> QED
  BY <1>1, <1>3, <1>4

----------------------------------------------------------------------------
(* The theorems.                                                           *)

LEMMA InitChains ==
  ASSUME Init
  PROVE  ChainInv
<1>1. CASE chain = [c \in Chain |-> <<>>]
  <2>1. chain["PREROUTING"] = <<>> /\ chain["CONNMARK"] = <<>> /\ chain["SNAT"] = <<>>
    BY <1>1 DEF Chain
  <2>2. AttachedReady /\ ReturnsFirst
    BY <2>1 DEF AttachedReady, ReturnsFirst, Has, Before, ToSet
  <2> QED
    BY <1>1, <2>1, <2>2 DEF ChainInv, ChainShape, Chain
<1>2. CASE chain = [c \in Chain |->
                      CASE c = "CONNMARK" -> Append(Cidrs, "mark")
                        [] c = "SNAT" -> Append(Cidrs, "snat")
                        [] c = "PREROUTING" -> <<"jump", "restore">>
                        [] c = "POSTROUTING" -> <<"jumpSNAT">>
                        [] c = "mangle" -> <<"connmarkPrimary", "connmarkVeth">>]
  <2>1. chain["CONNMARK"] = Append(Cidrs, "mark") /\ chain["SNAT"] = Append(Cidrs, "snat")
    BY <1>2 DEF Chain
  <2>2. Cidrs \in Seq(RuleName) /\ "mark" \in RuleName /\ "snat" \in RuleName
    <3>1. Cidr \subseteq RuleName /\ Cidrs \in Seq(Cidr)
      BY NatAssumption DEF RuleName, Cidr
    <3> QED
      BY <3>1 DEF RuleName
  <2>3. \A q, m : m \notin Cidr => Precedes(Cidrs, q, m)
    BY DEF Precedes, Cidr, ToSet
  <2>4. \A q \in Cidr \cup {"bypass"} : q # "mark" /\ q # "snat"
    BY NatAssumption DEF Cidr
  <2>5. /\ \A q \in Cidr \cup {"bypass"} : Precedes(Append(Cidrs, "mark"), q, "mark")
        /\ \A q \in Cidr : Precedes(Append(Cidrs, "snat"), q, "snat")
    BY <2>2, <2>3, <2>4, AppendPrecedes
  <2>6. ReturnsFirst
    BY <2>1, <2>5, ReturnsFirstIs
  <2>7. ToSet(chain["CONNMARK"]) = Cidr \cup {"mark"}
    BY <2>1, <2>2, AppendFacts DEF Cidr
  <2>8. AttachedReady
    BY <2>7 DEF AttachedReady, Has, Cidr
  <2>9. ChainShape
    <3>1. chain["CONNMARK"] \in Seq(RuleName) /\ chain["SNAT"] \in Seq(RuleName)
      BY <2>1, <2>2, AppendFacts
    <3>2. chain = [c \in Chain |-> chain[c]]
      <4> DEFINE F(c) == CASE c = "CONNMARK" -> Append(Cidrs, "mark")
                           [] c = "SNAT" -> Append(Cidrs, "snat")
                           [] c = "PREROUTING" -> <<"jump", "restore">>
                           [] c = "POSTROUTING" -> <<"jumpSNAT">>
                           [] c = "mangle" -> <<"connmarkPrimary", "connmarkVeth">>
      <4>1. chain = [c \in Chain |-> F(c)]
        BY <1>2
      <4> HIDE DEF F
      <4> QED
        BY <4>1
    <3> QED
      BY <3>1, <3>2 DEF ChainShape
  <2> QED
    BY <2>6, <2>8, <2>9 DEF ChainInv
<1> QED
  BY <1>1, <1>2 DEF Init

LEMMA InitIInv == Init => IInv
<1> SUFFICES ASSUME Init PROVE IInv
  OBVIOUS
<1>1. ChainInv
  BY InitChains
<1>2. proc.pc = "idle" /\ proc.ip = NoIP
  BY DEF Init, NoProc
<1>3. ProcShape /\ TodoShape /\ ReadyInv /\ PlanInv
  BY DEF Init, ProcShape, TodoShape, ReadyInv, PlanInv, NoProc, AddPc, DelPc
<1>4. NodeShape
  <2>0. net = rec /\ risky = {} /\ taken = {rec[p] : p \in Pod} \ {NoIP} /\ live = {p \in Pod : pod[p] = "up"}
    BY DEF Init
  <2>1. CASE /\ pod = [p \in Pod |-> IF p \in Legacy THEN "gone" ELSE "new"]
             /\ rec = [p \in Pod |-> NoIP]
    <3>1. taken = {}
      BY <2>0, <2>1
    <3>2. Types
      BY <2>0, <2>1, <3>1 DEF Init, Types
    <3>3. \A p \in Pod : ~Holds(p) /\ pod[p] # "up" /\ rec[p] = NoIP
      BY <1>2, <2>1 DEF Holds
    <3> QED
      BY <3>2, <3>3 DEF NodeShape
  <2>2. CASE /\ pod = [p \in Pod |-> IF p \in Legacy THEN "up" ELSE "new"]
             /\ rec = [p \in Pod |-> IF p \in Legacy THEN LegacyIP[p] ELSE NoIP]
    <3>1. \A p \in Pod : rec[p] # NoIP => p \in Legacy /\ rec[p] = LegacyIP[p]
      BY <2>2
    <3>2. \A p \in Legacy : p \in Pod /\ rec[p] = LegacyIP[p] /\ rec[p] \in IP /\ rec[p] # NoIP
      BY <2>2, NatAssumption
    <3>3. \A p, q \in Pod : rec[p] # NoIP /\ rec[p] = rec[q] => p = q
      BY <3>1, NatAssumption
    <3>4. rec \in [Pod -> IP \cup {NoIP}] /\ pod \in [Pod -> {"new", "adding", "up", "down", "gone"}]
      BY <2>2, <3>2
    <3>5. \A p \in Pod : pod[p] = "up" => rec[p] # NoIP
      BY <2>2, <3>2
    <3>6. taken \subseteq IP /\ \A p \in Pod : rec[p] # NoIP => rec[p] \in taken
      BY <2>0, <3>4
    <3>7. Types
      BY <2>0, <3>4, <3>6 DEF Init, Types
    <3>8. \A p \in Pod : Holds(p) => rec[p] # NoIP
      BY <1>2, <3>5 DEF Holds
    <3> QED
      BY <2>0, <3>3, <3>5, <3>6, <3>7, <3>8 DEF NodeShape
  <2> QED
    BY <2>1, <2>2 DEF Init
<1>5. SetInv
  BY <1>2 DEF Init, SetInv
<1>6. RiskBound
  BY FS_EmptySet DEF Init, RiskBound
<1>7. BypassExact
  <2>1. ~Has("CONNMARK", "bypass")
    <3>1. CASE chain = [c \in Chain |-> <<>>]
      BY <3>1 DEF Has, ToSet, Chain
    <3>2. CASE chain["CONNMARK"] = Append(Cidrs, "mark")
      <4>1. Cidrs \in Seq(Cidr \cup {"mark"}) /\ "bypass" \notin Cidr
        <5>1. Cidrs \in Seq(Cidr) /\ "bypass" \notin Cidr
          BY NatAssumption DEF Cidr
        <5> QED
          BY <5>1
      <4>2. ToSet(Append(Cidrs, "mark")) = Cidr \cup {"mark"}
        BY <4>1, AppendFacts DEF Cidr
      <4> QED
        BY <3>2, <4>1, <4>2 DEF Has
    <3> QED
      BY <3>1, <3>2 DEF Init, Chain
  <2> QED
    BY <1>6, <2>1 DEF BypassExact, RiskBound
<1> QED
  BY <1>1, <1>3, <1>4, <1>5, <1>6, <1>7 DEF IInv, Shape, ChainInv

LEMMA IInvStep == IInv /\ [Next]_vars => IInv'
<1> SUFFICES ASSUME IInv, [Next]_vars PROVE IInv'
  OBVIOUS
<1>1. Shape /\ ChainInv /\ ReadyInv /\ SetInv /\ PlanInv /\ RiskBound /\ Bypassed
  BY BypassIs DEF IInv, ChainInv, Shape
<1>2. ProcShape' /\ NodeShape' /\ SetInv' /\ PlanInv' /\ RiskBound' /\ Bypassed'
  BY <1>1, ProcStep, NodeStep, SetStep, PlanStep, RiskStep, BypassStep
<1>3. BypassExact'
  BY <1>2 DEF BypassExact, Bypassed, Right, RiskBound
<1>4. ChainInv' /\ TodoShape' /\ ReadyInv'
  BY <1>1, ChainStep
<1> QED
  BY <1>2, <1>3, <1>4 DEF IInv, Shape, ChainInv

LEMMA Invariant == Spec => []IInv
BY InitIInv, IInvStep, PTL DEF Spec

(* updateIptablesRules keeps the return rules of both chains before the    *)
(* rule that marks or translates, wherever an update stops.                *)
THEOREM ReturnsStayFirst == Spec => []ReturnsFirst
<1>1. IInv => ReturnsFirst
  BY DEF IInv
<1> QED
  BY <1>1, Invariant, PTL

(* updateRules never attaches the chain to the traffic before every CIDR   *)
(* rule and the mark are in it.                                            *)
THEOREM ChainsReadyWhenAttached == Spec => []AttachedReady
<1>1. IInv => AttachedReady
  BY DEF IInv
<1> QED
  BY <1>1, Invariant, PTL

(* tryEnableNATGWOutgoing installs the bypass only on an ipset that agrees *)
(* with what was decided for each running pod, and ADD, DEL and the        *)
(* reconciler keep it so, but for one address for every fault: also where  *)
(* the release, the deletion of the record and the end of a DEL are calls  *)
(* that fail one by one, and where the reconciler edits records in between.*)
THEOREM BypassIsExact == Spec => []BypassExact
<1>1. IInv => BypassExact
  BY DEF IInv
<1> QED
  BY <1>1, Invariant, PTL

=============================================================================
