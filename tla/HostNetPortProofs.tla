------------------------- MODULE HostNetPortProofs -------------------------
(***************************************************************************)
(* The port mappings of HostNet: the types, what may be left behind of a   *)
(* sandbox that is gone, and where a connection to a host port arrives,    *)
(* for every cluster, every list of port mappings and any number of        *)
(* faults.                                                                 *)
(*                                                                         *)
(* The state is made of sequences of rules, so the types rest on lemmas    *)
(* about what the operators on sequences return.  A sandbox is forwarded   *)
(* to by a program of commands that ADD runs one by one: the invariant     *)
(* says that the commands before the current one are done and stay done    *)
(* (Progress, RunsForwarded), that a chain leads nowhere but to its        *)
(* sandbox, behind the marks (ChainInv), and that an entry is made last    *)
(* (EntryLast).                                                            *)
(***************************************************************************)
EXTENDS HostNetProofs, WellFoundedInduction

----------------------------------------------------------------------------
(* Sequences.  Induction over the naturals is the principle of the least   *)
(* element of a set.                                                       *)

LEMMA Least ==
  ASSUME NEW I, I \subseteq Nat, I # {}
  PROVE  \E j \in I : \A y \in I : j <= y
<1>1. IsWellFoundedOn(OpToRel(<, Nat), Nat)
  BY NatLessThanWellFounded
<1>2. PICK j \in I : \A y \in I : ~(<<y, j>> \in OpToRel(<, Nat))
  BY <1>1, WFMin
<1>3. OpToRel(<, Nat) = {ss \in Nat \X Nat : ss[1] < ss[2]}
  BY Zenon DEF OpToRel
<1>4. \A y \in I : ~(y < j)
  BY <1>2, <1>3
<1>5. j \in Nat /\ \A y \in I : y \in Nat
  BY <1>2
<1>6. \A y \in I : j <= y
  BY <1>4, <1>5
<1> QED BY <1>2, <1>6

LEMMA Induct ==
  ASSUME NEW T, NEW n \in Nat, 1 \in T, \A i \in 1 .. n - 1 : i \in T => i + 1 \in T
  PROVE  \A i \in 1 .. n : i \in T
<1> SUFFICES ASSUME NEW i \in 1 .. n, i \notin T PROVE FALSE
  OBVIOUS
<1> DEFINE I == {j \in 1 .. n : j \notin T}
<1>1. I \subseteq Nat /\ I # {}
  OBVIOUS
<1>2. PICK j \in I : \A y \in I : j <= y
  <2> HIDE DEF I
  <2> QED BY <1>1, Least
<1>3. j # 1 /\ j - 1 \in 1 .. n - 1
  BY <1>2
<1>4. j - 1 \in T
  BY <1>2, <1>3
<1>5. j - 1 + 1 = j
  BY <1>2
<1> QED BY <1>2, <1>3, <1>4, <1>5

LEMMA FunctionIsSeq ==
  ASSUME NEW T, NEW n \in Nat, NEW f, f = [i \in 1 .. n |-> f[i]], \A i \in 1 .. n : f[i] \in T
  PROVE  f \in Seq(T) /\ Len(f) = n
<1>1. f \in [1 .. n -> T]
  OBVIOUS
<1> QED BY <1>1

IsJoin(T, w, u, v) ==
  /\ w \in Seq(T) /\ Len(w) = Len(u) + Len(v)
  /\ \A k \in 1 .. Len(u) : w[k] = u[k]
  /\ \A k \in 1 .. Len(v) : w[Len(u) + k] = v[k]
LEMMA Joined ==
  ASSUME NEW T, NEW u \in Seq(T), NEW v \in Seq(T)
  PROVE  IsJoin(T, u \o v, u, v)
BY ConcatProperties DEF IsJoin

(* The recursive function in FlattenSeq exists.                            *)
Joins(ss, f, n) ==
  /\ f = [i \in 1 .. n |-> f[i]]
  /\ \A i \in 1 .. n : f[i] = IF i = 1 THEN ss[i] ELSE f[i - 1] \o ss[i]

LEMMA JoinsExist ==
  ASSUME NEW ss, NEW n \in Nat \ {0}
  PROVE  \E f : Joins(ss, f, n)
<1> DEFINE T == {m \in 1 .. n : \E f : Joins(ss, f, m)}
<1>1. 1 \in T
  <2> DEFINE g == [i \in 1 .. 1 |-> ss[i]]
  <2>1. Joins(ss, g, 1)
    BY DEF Joins
  <2> QED BY <2>1
<1>2. ASSUME NEW m \in 1 .. n - 1, m \in T PROVE m + 1 \in T
  <2>1. PICK f : Joins(ss, f, m)
    BY <1>2
  <2> DEFINE g == [i \in 1 .. m + 1 |-> IF i = m + 1 THEN f[m] \o ss[m + 1] ELSE f[i]]
  <2>2. g = [i \in 1 .. m + 1 |-> g[i]]
    OBVIOUS
  <2>3. \A i \in 1 .. m : g[i] = f[i]
    OBVIOUS
  <2>4. g[m + 1] = f[m] \o ss[m + 1]
    <3>1. m + 1 \in 1 .. m + 1
      OBVIOUS
    <3> QED BY <3>1
  <2> HIDE DEF g
  <2>5. ASSUME NEW i \in 1 .. m + 1 PROVE g[i] = IF i = 1 THEN ss[i] ELSE g[i - 1] \o ss[i]
    <3>1. CASE i = m + 1
      <4>1. i # 1 /\ i - 1 = m /\ m \in 1 .. m
        BY <3>1
      <4> QED BY <2>3, <2>4, <3>1, <4>1
    <3>2. CASE i \in 1 .. m
      <4>1. f[i] = IF i = 1 THEN ss[i] ELSE f[i - 1] \o ss[i]
        BY <2>1, <3>2 DEF Joins
      <4>2. i # 1 => i - 1 \in 1 .. m
        BY <3>2
      <4> QED BY <2>3, <3>2, <4>1, <4>2
    <3> QED BY <3>1, <3>2
  <2>6. Joins(ss, g, m + 1)
    BY <2>2, <2>5 DEF Joins
  <2> QED BY <2>6
<1> HIDE DEF T
<1>3. n \in T
  BY <1>1, <1>2, Induct
<1> QED BY <1>3 DEF T

LEMMA FlattenIsJoin ==
  ASSUME NEW ss, Len(ss) \in Nat \ {0}
  PROVE  \E f : Joins(ss, f, Len(ss)) /\ FlattenSeq(ss) = f[Len(ss)]
<1>1. PICK n \in Nat \ {0} : n = Len(ss)
  OBVIOUS
<1>2. PICK g : Joins(ss, g, n)
  BY JoinsExist
<1>3. g = [i \in 1 .. n |-> IF i = 1 THEN ss[i] ELSE g[i - 1] \o ss[i]]
  BY <1>2 DEF Joins
<1>4. PICK f : f = CHOOSE h : h = [i \in 1 .. n |-> IF i = 1 THEN ss[i] ELSE h[i - 1] \o ss[i]]
  OBVIOUS
<1>5. f = [i \in 1 .. n |-> IF i = 1 THEN ss[i] ELSE f[i - 1] \o ss[i]]
  BY <1>3, <1>4
<1>6. FlattenSeq(ss) = f[n]
  BY <1>1, <1>4 DEF FlattenSeq
<1>7. Joins(ss, f, n)
  BY <1>5 DEF Joins
<1> QED BY <1>1, <1>6, <1>7

(* The elements of a flattened sequence are those of its parts, each with  *)
(* the ones before it in its part before it.                               *)
InPart(ss, f, k) ==
  \E i \in 1 .. Len(ss) : \E m \in 1 .. Len(ss[i]) :
    m <= k /\ \A l \in 1 .. m : f[k - m + l] = ss[i][l]

IsFlat(T, ss, f) ==
  /\ f \in Seq(T)
  /\ \A k \in 1 .. Len(f) : InPart(ss, f, k)
  /\ \A i \in 1 .. Len(ss) : \A m \in 1 .. Len(ss[i]) : \E k \in 1 .. Len(f) : f[k] = ss[i][m]

LEMMA FlattenFacts ==
  ASSUME NEW T, NEW ss \in Seq(Seq(T))
  PROVE  IsFlat(T, ss, FlattenSeq(ss))
<1>1. CASE Len(ss) = 0
  <2>1. FlattenSeq(ss) = ss /\ ss = <<>>
    BY <1>1 DEF FlattenSeq
  <2> QED BY <2>1 DEF IsFlat
<1>2. CASE Len(ss) # 0
  <2>0. PICK n \in Nat \ {0} : n = Len(ss)
    BY <1>2
  <2>1. PICK f : Joins(ss, f, n) /\ FlattenSeq(ss) = f[n]
    BY <2>0, FlattenIsJoin
  <2> DEFINE Good(j) ==
        /\ f[j] \in Seq(T)
        /\ \A k \in 1 .. Len(f[j]) : InPart(ss, f[j], k)
        /\ \A i \in 1 .. j : \A m \in 1 .. Len(ss[i]) : \E k \in 1 .. Len(f[j]) : f[j][k] = ss[i][m]
  <2> DEFINE G == {j \in 1 .. n : Good(j)}
  <2>2. Good(1)
    <3>1. f[1] = ss[1]
      <4>1. 1 \in 1 .. n
        OBVIOUS
      <4> QED BY <2>1, <4>1 DEF Joins
    <3>2. ss[1] \in Seq(T)
      BY <2>0
    <3>3. \A k \in 1 .. Len(ss[1]) : InPart(ss, ss[1], k)
      <4> SUFFICES ASSUME NEW k \in 1 .. Len(ss[1]) PROVE InPart(ss, ss[1], k)
        OBVIOUS
      <4>1. \A l \in 1 .. k : k - k + l = l
        BY <3>2
      <4>2. 1 \in 1 .. Len(ss)
        BY <2>0
      <4> QED BY <3>2, <4>1, <4>2 DEF InPart
    <3> QED BY <3>1, <3>2, <3>3
  <2>3. ASSUME NEW j \in 1 .. n - 1, Good(j) PROVE Good(j + 1)
    <3>1. f[j + 1] = f[j] \o ss[j + 1]
      <4>1. PICK i \in 1 .. n : i = j + 1 /\ i # 1 /\ i - 1 = j
        OBVIOUS
      <4>2. f[i] = f[i - 1] \o ss[i]
        BY <2>1, <4>1 DEF Joins
      <4> QED BY <4>1, <4>2
    <3>2. PICK u \in Seq(T) : u = f[j]
      BY <2>3
    <3>3. PICK v \in Seq(T) : v = ss[j + 1]
      BY <2>0
    <3>4. PICK w : w = u \o v
      OBVIOUS
    <3>5. /\ w \in Seq(T) /\ Len(w) = Len(u) + Len(v)
          /\ \A k \in 1 .. Len(u) : w[k] = u[k]
          /\ \A k \in 1 .. Len(v) : w[Len(u) + k] = v[k]
      BY <3>4, Joined DEF IsJoin
    <3>6. ASSUME NEW k \in 1 .. Len(w) PROVE InPart(ss, w, k)
      <4>1. CASE k <= Len(u)
        <5>1. PICK i \in 1 .. Len(ss) : \E m \in 1 .. Len(ss[i]) :
                m <= k /\ \A l \in 1 .. m : u[k - m + l] = ss[i][l]
          <6>1. k \in 1 .. Len(u)
            BY <4>1
          <6>2. InPart(ss, u, k)
            BY <2>3, <3>2, <6>1
          <6> QED BY <6>2 DEF InPart
        <5>2. PICK m \in 1 .. Len(ss[i]) : m <= k /\ \A l \in 1 .. m : u[k - m + l] = ss[i][l]
          BY <5>1
        <5>3. ss[i] \in Seq(T)
          OBVIOUS
        <5>4. \A l \in 1 .. m : k - m + l \in 1 .. Len(u)
          BY <3>5, <4>1, <5>2, <5>3
        <5>5. \A l \in 1 .. m : w[k - m + l] = ss[i][l]
          BY <3>5, <5>2, <5>4
        <5> QED BY <5>2, <5>5 DEF InPart
      <4>2. CASE k > Len(u)
        <5>1. PICK m \in 1 .. Len(v) : k = Len(u) + m
          <6>1. k - Len(u) \in 1 .. Len(v) /\ k = Len(u) + (k - Len(u))
            BY <3>5, <4>2
          <6> QED BY <6>1
        <5>2. \A l \in 1 .. m : k - m + l = Len(u) + l /\ l \in 1 .. Len(v)
          BY <5>1
        <5>3. \A l \in 1 .. m : w[k - m + l] = v[l]
          BY <3>5, <5>2
        <5>4. j + 1 \in 1 .. Len(ss) /\ m <= k
          BY <2>0, <5>1
        <5> QED BY <3>3, <5>3, <5>4 DEF InPart
      <4> QED BY <3>5, <4>1, <4>2
    <3>7. ASSUME NEW i \in 1 .. j + 1, NEW m \in 1 .. Len(ss[i]) PROVE \E k \in 1 .. Len(w) : w[k] = ss[i][m]
      <4>1. CASE i \in 1 .. j
        <5>1. PICK k \in 1 .. Len(u) : u[k] = ss[i][m]
          BY <2>3, <3>2, <4>1
        <5>2. k \in 1 .. Len(w)
          BY <3>5, <5>1
        <5> QED BY <3>5, <5>1, <5>2
      <4>2. CASE i = j + 1
        <5>1. m \in 1 .. Len(v)
          BY <3>3, <4>2
        <5>2. Len(u) + m \in 1 .. Len(w)
          BY <3>5, <5>1
        <5> QED BY <3>3, <3>5, <4>2, <5>1, <5>2
      <4> QED BY <4>1, <4>2
    <3>8. f[j + 1] = w
      BY <3>1, <3>2, <3>3, <3>4
    <3> QED BY <3>5, <3>6, <3>7, <3>8
  <2> HIDE DEF Good
  <2>4. \A j \in 1 .. n : j \in G
    <3>1. 1 \in G
      BY <2>2
    <3>2. \A i \in 1 .. n - 1 : i \in G => i + 1 \in G
      BY <2>3
    <3> HIDE DEF G
    <3> QED BY <3>1, <3>2, Induct
  <2>5. Good(n)
    BY <2>4
  <2>6. PICK w : w = f[n]
    OBVIOUS
  <2>7. /\ w \in Seq(T)
        /\ \A k \in 1 .. Len(w) : InPart(ss, w, k)
        /\ \A i \in 1 .. n : \A m \in 1 .. Len(ss[i]) : \E k \in 1 .. Len(w) : w[k] = ss[i][m]
    BY <2>5, <2>6 DEF Good
  <2>8. FlattenSeq(ss) = w
    BY <2>1, <2>6
  <2> QED BY <2>0, <2>7, <2>8 DEF IsFlat
<1> QED BY <1>1, <1>2

----------------------------------------------------------------------------
(* The commands that forward the ports of a sandbox.                       *)

Cmd == [chain : Chain, rule : Rule, prepend : BOOLEAN]

LEMMA CommandFacts ==
  ASSUME NEW c \in Chain, NEW r \in Rule, NEW b \in BOOLEAN
  PROVE  /\ Command(c, r, b) \in Cmd /\ Command(c, r, b).chain = c
         /\ Command(c, r, b).rule = r /\ Command(c, r, b).prepend = b
BY DEF Command, Cmd

LEMMA RuleFacts ==
  /\ NoRule \in Rule /\ NoRule.on = {} /\ NoRule.to = "RETURN"
  /\ \A S, c : Jump(S, c).on = S /\ Jump(S, c).to = c /\ Jump(S, c).from = "any"
  /\ \A S \in SUBSET Port, c \in Chain \cup Target : Jump(S, c) \in Rule
BY DEF NoRule, Rule, Target, Jump

LEMMA SetupFacts ==
  ASSUME NEW c, c.name \in Chain, c.rules \in Seq(Rule), c.entryChains \in Seq(Chain),
         c.entryRules \in Seq(SUBSET Port), c.prependEntry \in BOOLEAN
  PROVE  /\ setup(c) \in Seq(Cmd) /\ Len(setup(c)) >= 1 + Len(c.rules)
         /\ setup(c)[1] = Command(c.name, NoRule, FALSE)
         /\ \A i \in 1 .. Len(c.rules) : setup(c)[1 + i] = Command(c.name, c.rules[i], FALSE)
         /\ \A k \in 2 + Len(c.rules) .. Len(setup(c)) :
              \E i \in 1 .. Len(c.entryChains), j \in 1 .. Len(c.entryRules) :
                setup(c)[k] = Command(c.entryChains[i], Jump(c.entryRules[j], c.name), c.prependEntry)
         /\ \A i \in 1 .. Len(c.entryChains), j \in 1 .. Len(c.entryRules) :
              \E k \in 2 + Len(c.rules) .. Len(setup(c)) :
                setup(c)[k] = Command(c.entryChains[i], Jump(c.entryRules[j], c.name), c.prependEntry)
<1>1. PICK a : a = <<Command(c.name, NoRule, FALSE)>>
  OBVIOUS
<1>2. PICK b : b = [i \in DOMAIN c.rules |-> Command(c.name, c.rules[i], FALSE)]
  OBVIOUS
<1>3. PICK ss : ss = [i \in DOMAIN c.entryChains |->
                        [j \in DOMAIN c.entryRules |->
                           Command(c.entryChains[i], Jump(c.entryRules[j], c.name), c.prependEntry)]]
  OBVIOUS
<1>4. PICK d : d = FlattenSeq(ss)
  OBVIOUS
<1>5. setup(c) = (a \o b) \o d
  BY <1>1, <1>2, <1>3, <1>4 DEF setup
<1>6. a \in Seq(Cmd) /\ Len(a) = 1 /\ a[1] = Command(c.name, NoRule, FALSE)
  <2>1. PICK h \in Cmd : h = Command(c.name, NoRule, FALSE)
    BY CommandFacts, RuleFacts
  <2>2. a = <<h>>
    BY <1>1, <2>1
  <2>3. <<h>> \in Seq(Cmd) /\ Len(<<h>>) = 1 /\ <<h>>[1] = h
    OBVIOUS
  <2> QED BY <2>1, <2>2, <2>3
<1>7. /\ b \in Seq(Cmd) /\ Len(b) = Len(c.rules)
      /\ \A i \in 1 .. Len(c.rules) : b[i] = Command(c.name, c.rules[i], FALSE)
  <2>1. PICK n \in Nat : n = Len(c.rules) /\ DOMAIN c.rules = 1 .. n /\ \A i \in 1 .. n : c.rules[i] \in Rule
    OBVIOUS
  <2>2. \A i \in 1 .. n : b[i] = Command(c.name, c.rules[i], FALSE)
    BY <1>2, <2>1
  <2>3. \A i \in 1 .. n : b[i] \in Cmd
    <3> SUFFICES ASSUME NEW i \in 1 .. n PROVE b[i] \in Cmd
      OBVIOUS
    <3>1. c.rules[i] \in Rule
      BY <2>1
    <3>2. Command(c.name, c.rules[i], FALSE) \in Cmd
      BY <3>1, CommandFacts
    <3> QED BY <2>2, <3>2
  <2>4. b = [i \in 1 .. n |-> b[i]]
    BY <1>2, <2>1
  <2>5. b \in Seq(Cmd) /\ Len(b) = n
    BY <2>3, <2>4, FunctionIsSeq
  <2> QED BY <2>1, <2>2, <2>5
<1>8. /\ ss \in Seq(Seq(Cmd)) /\ Len(ss) = Len(c.entryChains)
      /\ \A i \in 1 .. Len(ss) : /\ Len(ss[i]) = Len(c.entryRules)
           /\ \A j \in 1 .. Len(ss[i]) :
                ss[i][j] = Command(c.entryChains[i], Jump(c.entryRules[j], c.name), c.prependEntry)
  <2>1. PICK n \in Nat : n = Len(c.entryChains) /\ DOMAIN c.entryChains = 1 .. n
    OBVIOUS
  <2>2. PICK m \in Nat : m = Len(c.entryRules) /\ DOMAIN c.entryRules = 1 .. m
    OBVIOUS
  <2>3. \A i \in 1 .. n, j \in 1 .. m :
          Command(c.entryChains[i], Jump(c.entryRules[j], c.name), c.prependEntry) \in Cmd
    <3> SUFFICES ASSUME NEW i \in 1 .. n, NEW j \in 1 .. m
                 PROVE  Command(c.entryChains[i], Jump(c.entryRules[j], c.name), c.prependEntry) \in Cmd
      OBVIOUS
    <3>1. c.entryChains[i] \in Chain /\ c.entryRules[j] \in SUBSET Port
      BY <2>1, <2>2
    <3>2. Jump(c.entryRules[j], c.name) \in Rule
      BY <3>1, RuleFacts
    <3> QED BY <3>1, <3>2, CommandFacts
  <2>4. ASSUME NEW i \in 1 .. n
        PROVE  /\ ss[i] \in Seq(Cmd) /\ Len(ss[i]) = m
               /\ \A j \in 1 .. m :
                    ss[i][j] = Command(c.entryChains[i], Jump(c.entryRules[j], c.name), c.prependEntry)
    <3>1. ss[i] = [j \in 1 .. m |->
                     Command(c.entryChains[i], Jump(c.entryRules[j], c.name), c.prependEntry)]
      BY <1>3, <2>1, <2>2
    <3> QED BY <2>3, <3>1
  <2>5. ss = [i \in 1 .. n |-> ss[i]]
    BY <1>3, <2>1
  <2>6. ss \in Seq(Seq(Cmd)) /\ Len(ss) = n
    BY <2>4, <2>5, FunctionIsSeq, SMTT(30)
  <2> QED BY <2>1, <2>2, <2>4, <2>6
<1>9. /\ d \in Seq(Cmd)
      /\ \A k \in 1 .. Len(d) : InPart(ss, d, k)
      /\ \A i \in 1 .. Len(ss) : \A m \in 1 .. Len(ss[i]) : \E k \in 1 .. Len(d) : d[k] = ss[i][m]
  BY <1>4, <1>8, FlattenFacts DEF IsFlat
<1>10. PICK ab : ab = a \o b
  OBVIOUS
<1>11. /\ ab \in Seq(Cmd) /\ Len(ab) = 1 + Len(c.rules) /\ ab[1] = Command(c.name, NoRule, FALSE)
       /\ \A i \in 1 .. Len(c.rules) : ab[1 + i] = Command(c.name, c.rules[i], FALSE)
  <2>1. PICK n \in Nat : n = Len(c.rules)
    OBVIOUS
  <2>2. /\ ab \in Seq(Cmd) /\ Len(ab) = 1 + n
        /\ \A k \in 1 .. 1 : ab[k] = a[k]
        /\ \A k \in 1 .. n : ab[1 + k] = b[k]
    <3>1. a \in Seq(Cmd) /\ Len(a) = 1 /\ b \in Seq(Cmd) /\ Len(b) = n
      BY <1>6, <1>7, <2>1
    <3>2. /\ ab \in Seq(Cmd) /\ Len(ab) = Len(a) + Len(b)
          /\ \A k \in 1 .. Len(a) : ab[k] = a[k]
          /\ \A k \in 1 .. Len(b) : ab[Len(a) + k] = b[k]
      <4>1. IsJoin(Cmd, ab, a, b)
        BY <1>10, <3>1, Joined
      <4> QED BY <4>1 DEF IsJoin
    <3> QED BY <3>1, <3>2
  <2>3. ab[1] = a[1]
    BY <2>2
  <2> QED BY <1>6, <1>7, <2>1, <2>2, <2>3
<1>12. PICK s : s = ab \o d
  OBVIOUS
<1>13. PICK q \in Nat : q = Len(c.rules)
  OBVIOUS
<1>14. /\ s \in Seq(Cmd) /\ Len(s) = 1 + q + Len(d)
       /\ \A i \in 1 .. 1 + q : s[i] = ab[i]
       /\ \A k \in 1 .. Len(d) : s[1 + q + k] = d[k]
  <2>1. ab \in Seq(Cmd) /\ Len(ab) = 1 + q /\ d \in Seq(Cmd)
    BY <1>9, <1>11, <1>13
  <2>2. /\ s \in Seq(Cmd) /\ Len(s) = Len(ab) + Len(d)
        /\ \A k \in 1 .. Len(ab) : s[k] = ab[k]
        /\ \A k \in 1 .. Len(d) : s[Len(ab) + k] = d[k]
    <3>1. IsJoin(Cmd, s, ab, d)
      BY <1>12, <2>1, Joined
    <3> QED BY <3>1 DEF IsJoin
  <2> QED BY <2>1, <2>2
<1>15. ASSUME NEW k \in 2 + q .. Len(s)
       PROVE  \E i \in 1 .. Len(c.entryChains), j \in 1 .. Len(c.entryRules) :
                s[k] = Command(c.entryChains[i], Jump(c.entryRules[j], c.name), c.prependEntry)
  <2>1. PICK l \in 1 .. Len(d) : k = 1 + q + l
    <3>1. k - 1 - q \in 1 .. Len(d) /\ k = 1 + q + (k - 1 - q)
      BY <1>9, <1>14
    <3> QED BY <3>1
  <2>2. PICK i \in 1 .. Len(ss) : \E m \in 1 .. Len(ss[i]) :
          m <= l /\ \A x \in 1 .. m : d[l - m + x] = ss[i][x]
    BY <1>9 DEF InPart
  <2>3. PICK m \in 1 .. Len(ss[i]) : m <= l /\ \A x \in 1 .. m : d[l - m + x] = ss[i][x]
    BY <2>2
  <2>4. m \in Nat /\ m \in 1 .. m /\ l - m + m = l
    BY <1>8
  <2>5. s[k] = ss[i][m]
    BY <1>14, <2>1, <2>3, <2>4
  <2> QED BY <1>8, <2>5
<1>16. ASSUME NEW i \in 1 .. Len(c.entryChains), NEW j \in 1 .. Len(c.entryRules)
       PROVE  \E k \in 2 + q .. Len(s) :
                s[k] = Command(c.entryChains[i], Jump(c.entryRules[j], c.name), c.prependEntry)
  <2>1. PICK l \in 1 .. Len(d) : d[l] = ss[i][j]
    BY <1>8, <1>9
  <2>2. 1 + q + l \in 2 + q .. Len(s)
    BY <1>9, <1>14
  <2>3. s[1 + q + l] = Command(c.entryChains[i], Jump(c.entryRules[j], c.name), c.prependEntry)
    BY <1>8, <1>14, <2>1
  <2> QED BY <2>2, <2>3
<1>17. setup(c) = s
  BY <1>5, <1>10, <1>12
<1>18. s[1] = ab[1] /\ \A i \in 1 .. q : s[1 + i] = ab[1 + i]
  BY <1>14
<1>19. /\ s[1] = Command(c.name, NoRule, FALSE) /\ s \in Seq(Cmd) /\ Len(s) >= 1 + q
       /\ \A i \in 1 .. q : s[1 + i] = Command(c.name, c.rules[i], FALSE)
  <2>1. Len(d) \in Nat
    BY <1>9
  <2>2. Len(s) >= 1 + q
    BY <1>14, <2>1
  <2>3. \A i \in 1 .. q : ab[1 + i] = Command(c.name, c.rules[i], FALSE)
    BY <1>11, <1>13
  <2> QED BY <1>11, <1>14, <1>18, <2>2, <2>3
<1> QED BY <1>13, <1>15, <1>16, <1>17, <1>19

(* The port mappings of the pods.                                          *)
Mapping == {e \in PortMapEntry : <<e.proto, e.port>> \in Port}

LEMMA PortMapFacts ==
  ASSUME NEW s \in Sandbox
  PROVE  /\ PortMaps[PodOf[s]] \in Seq(Mapping)
         /\ ToSet(PortMaps[PodOf[s]]) = {PortMaps[PodOf[s]][i] : i \in 1 .. Len(PortMaps[PodOf[s]])}
<1>1. PICK p \in Pod : p = PodOf[s]
  BY Consts
<1>2. PICK es \in Seq(PortMapEntry) : es = PortMaps[p]
  BY PortAssumption
<1>3. \A i \in 1 .. Len(es) : es[i] \in ToSet(PortMaps[p])
  BY <1>2 DEF ToSet
<1>4. \A i \in 1 .. Len(es) : es[i] \in Mapping
  BY <1>2, <1>3 DEF Mapping, Port
<1>5. es \in Seq(Mapping)
  BY <1>4
<1> QED BY <1>1, <1>2, <1>5 DEF ToSet

LEMMA GroupFacts ==
  ASSUME NEW T, NEW entries \in Seq(T), NEW proto
  PROVE  /\ groupByProto(entries, proto) \in Seq(T)
         /\ \A i \in 1 .. Len(entries) : entries[i].proto = proto =>
              \E k \in 1 .. Len(groupByProto(entries, proto)) : groupByProto(entries, proto)[k] = entries[i]
<1>1. PICK n \in Nat : n = Len(entries) /\ DOMAIN entries = 1 .. n
  OBVIOUS
<1>2. PICK ss : ss = [i \in 1 .. n |-> IF entries[i].proto = proto THEN <<entries[i]>> ELSE <<>>]
  OBVIOUS
<1>3. ASSUME NEW i \in 1 .. n
      PROVE  /\ ss[i] \in Seq(T)
             /\ entries[i].proto = proto => 1 \in 1 .. Len(ss[i]) /\ ss[i][1] = entries[i]
  <2>1. PICK e \in T : e = entries[i]
    BY <1>1
  <2>2. ss[i] = IF e.proto = proto THEN <<e>> ELSE <<>>
    BY <1>2, <2>1
  <2>3. <<e>> \in Seq(T) /\ <<>> \in Seq(T) /\ 1 \in 1 .. Len(<<e>>) /\ <<e>>[1] = e
    OBVIOUS
  <2> QED BY <2>1, <2>2, <2>3
<1>4. ss = [i \in 1 .. n |-> ss[i]]
  BY <1>2
<1>5. ss \in Seq(Seq(T)) /\ Len(ss) = n
  BY <1>3, <1>4, FunctionIsSeq
<1>6. groupByProto(entries, proto) = FlattenSeq(ss)
  BY <1>1, <1>2 DEF groupByProto
<1>7. PICK g : g = FlattenSeq(ss)
  OBVIOUS
<1>8. /\ g \in Seq(T)
      /\ \A i \in 1 .. Len(ss) : \A m \in 1 .. Len(ss[i]) : \E k \in 1 .. Len(g) : g[k] = ss[i][m]
  BY <1>5, <1>7, FlattenFacts, ZenonT(60) DEF IsFlat
<1>9. ASSUME NEW i \in 1 .. n, entries[i].proto = proto PROVE \E k \in 1 .. Len(g) : g[k] = entries[i]
  BY <1>3, <1>5, <1>8, <1>9
<1> QED BY <1>1, <1>6, <1>7, <1>8, <1>9

LEMMA DivMono ==
  ASSUME NEW a \in Nat, NEW b \in Nat, NEW m \in Nat \ {0}, a <= b
  PROVE  /\ a \div m \in Nat /\ a \div m <= b \div m
         /\ (b + m) \div m = b \div m + 1
<1>1. PICK q : q = a \div m
  OBVIOUS
<1>2. PICK p : p = b \div m
  OBVIOUS
<1>3. q \in Int /\ m * q <= a /\ a < m * (q + 1)
  BY <1>1
<1>4. p \in Int /\ m * p <= b /\ b < m * (p + 1)
  BY <1>2
<1>5. q <= p
  BY <1>3, <1>4
<1>6. q >= 0
  BY <1>3
<1>7. PICK r : r = (b + m) \div m
  OBVIOUS
<1>8. r \in Int /\ m * r <= b + m /\ b + m < m * (r + 1)
  BY <1>7
<1>9. r = p + 1
  BY <1>4, <1>8
<1> QED BY <1>1, <1>2, <1>5, <1>6, <1>7, <1>9

LEMMA SplitFacts ==
  ASSUME NEW l \in Seq(Mapping)
  PROVE  /\ splitPortList(l) \in Seq(SUBSET Port)
         /\ \A i \in 1 .. Len(l) : \E g \in 1 .. Len(splitPortList(l)) :
              <<l[i].proto, l[i].port>> \in splitPortList(l)[g]
<1>0. PICK m \in Nat \ {0} : m = Multiport
  BY PortAssumption
<1>1. PICK n \in Nat : n = Len(l) /\ DOMAIN l = 1 .. n
  OBVIOUS
<1>2. PICK q : q = (n + m - 1) \div m
  OBVIOUS
<1>3. q \in Nat
  BY <1>2, DivMono, n + m - 1 \in Nat
<1>4. PICK f : f = splitPortList(l)
  OBVIOUS
<1>5. f = [g \in 1 .. q |-> {<<l[i].proto, l[i].port>> : i \in {j \in 1 .. n : (j - 1) \div m = g - 1}}]
  BY <1>0, <1>1, <1>2, <1>4 DEF splitPortList
<1>6. \A i \in 1 .. n : <<l[i].proto, l[i].port>> \in Port
  BY <1>1 DEF Mapping
<1>7. \A g \in 1 .. q : f[g] \in SUBSET Port
  BY <1>5, <1>6
<1>8. f \in Seq(SUBSET Port) /\ Len(f) = q
  BY <1>3, <1>5, <1>7, FunctionIsSeq
<1>9. ASSUME NEW i \in 1 .. n PROVE \E g \in 1 .. q : <<l[i].proto, l[i].port>> \in f[g]
  <2>1. PICK c : c = (i - 1) \div m
    OBVIOUS
  <2>2. c \in Nat /\ c <= (n - 1) \div m /\ ((n - 1) + m) \div m = (n - 1) \div m + 1
    BY <2>1, DivMono, i - 1 \in Nat, n - 1 \in Nat, i - 1 <= n - 1
  <2>3. (n - 1) + m = n + m - 1
    OBVIOUS
  <2>4. (n - 1) \div m \in Nat
    BY DivMono, n - 1 \in Nat
  <2>5. c + 1 \in 1 .. q /\ (c + 1) - 1 = c
    BY <1>2, <2>2, <2>3, <2>4
  <2>6. <<l[i].proto, l[i].port>> \in f[c + 1]
    BY <1>5, <2>1, <2>5
  <2> QED BY <2>5, <2>6
<1> QED BY <1>1, <1>4, <1>8, <1>9

LEMMA EntryFacts ==
  ASSUME NEW entries \in Seq(Mapping)
  PROVE  /\ EntryRules(entries) \in Seq(SUBSET Port)
         /\ \A i \in 1 .. Len(entries) : \E g \in 1 .. Len(EntryRules(entries)) :
              <<entries[i].proto, entries[i].port>> \in EntryRules(entries)[g]
<1>1. PICK a : a = groupByProto(entries, "tcp")
  OBVIOUS
<1>2. PICK b : b = groupByProto(entries, "udp")
  OBVIOUS
<1>3. PICK u : u = splitPortList(a)
  OBVIOUS
<1>4. PICK v : v = splitPortList(b)
  OBVIOUS
<1>5. a \in Seq(Mapping) /\ b \in Seq(Mapping)
  BY <1>1, <1>2, GroupFacts
<1>6. /\ u \in Seq(SUBSET Port) /\ v \in Seq(SUBSET Port)
      /\ \A i \in 1 .. Len(a) : \E g \in 1 .. Len(u) : <<a[i].proto, a[i].port>> \in u[g]
      /\ \A i \in 1 .. Len(b) : \E g \in 1 .. Len(v) : <<b[i].proto, b[i].port>> \in v[g]
  BY <1>3, <1>4, <1>5, SplitFacts
<1>7. PICK w : w = u \o v
  OBVIOUS
<1>8. IsJoin(SUBSET Port, w, u, v)
  BY <1>6, <1>7, Joined
<1>9. EntryRules(entries) = w
  BY <1>1, <1>2, <1>3, <1>4, <1>7 DEF EntryRules
<1>10. ASSUME NEW i \in 1 .. Len(entries)
       PROVE  \E g \in 1 .. Len(w) : <<entries[i].proto, entries[i].port>> \in w[g]
  <2>1. PICK e : e = entries[i]
    OBVIOUS
  <2>2. e.proto \in {"tcp", "udp"}
    <3>1. e \in Mapping
      BY <2>1
    <3>2. e \in PortMapEntry
      BY <3>1 DEF Mapping
    <3> QED BY <3>2 DEF PortMapEntry
  <2>3. CASE e.proto = "tcp"
    <3>1. PICK k \in 1 .. Len(a) : a[k] = e
      BY <1>1, <2>1, <2>3, GroupFacts
    <3>2. PICK g \in 1 .. Len(u) : <<e.proto, e.port>> \in u[g]
      BY <1>6, <3>1
    <3>3. g \in 1 .. Len(w) /\ w[g] = u[g]
      BY <1>6, <1>8 DEF IsJoin
    <3> QED BY <2>1, <3>2, <3>3
  <2>4. CASE e.proto = "udp"
    <3>1. PICK k \in 1 .. Len(b) : b[k] = e
      BY <1>2, <2>1, <2>4, GroupFacts
    <3>2. PICK g \in 1 .. Len(v) : <<e.proto, e.port>> \in v[g]
      BY <1>6, <3>1
    <3>3. Len(u) + g \in 1 .. Len(w) /\ w[Len(u) + g] = v[g]
      BY <1>6, <1>8 DEF IsJoin
    <3> QED BY <2>1, <3>2, <3>3
  <2> QED BY <2>2, <2>3, <2>4
<1> QED BY <1>8, <1>9, <1>10 DEF IsJoin

LEMMA Names ==
  /\ SetMarkChainName \in Common /\ SetMarkChainName # "TOP" /\ "TOP" \in Common
  /\ \A c \in Common : c \in Chain /\ c \notin Sandbox /\ c \notin Addr
  /\ \A s \in Sandbox : s \in Chain /\ s \notin Target /\ s \notin Addr
  /\ \A a \in Addr : a \notin Chain /\ a \notin Target /\ a \notin {"any", "localhost"}
<1>1. Sandbox \cap (Common \cup Target) = {} /\ Addr \cap (Chain \cup Target \cup {"any", "localhost"}) = {}
  BY NameAssumption
<1> QED BY <1>1 DEF SetMarkChainName, Chain, Common

(* Every rewrite of a destination comes right after its two marks.         *)
Mark(ports, from) == [on |-> ports, from |-> from, to |-> SetMarkChainName]
Rewrite(ports, ip) == [on |-> ports, from |-> "any", to |-> ip]

HasRewrites(rules, entries, ip) ==
  \A i \in 1 .. Len(entries) : entries[i].host # "v6" =>
    \E k \in 1 .. Len(rules) : rules[k] = Rewrite({<<entries[i].proto, entries[i].port>>}, ip)

LEMMA DnatRuleFacts ==
  ASSUME NEW P \in SUBSET Port, NEW ip \in Addr
  PROVE  /\ Mark(P, ip) \in Rule /\ Mark(P, ip).to \notin Addr /\ Mark(P, ip).on = P
         /\ Mark(P, "localhost") \in Rule /\ Mark(P, "localhost").to \notin Addr
         /\ Mark(P, "localhost").on = P
         /\ Rewrite(P, ip) \in Rule /\ Rewrite(P, ip).to = ip /\ Rewrite(P, ip).on = P
<1>1. SetMarkChainName \in Chain /\ SetMarkChainName \notin Addr
  BY Names
<1> QED BY <1>1 DEF Mark, Rewrite, Rule

LEMMA DnatFacts ==
  ASSUME NEW s \in Sandbox, NEW ip \in Addr, NEW rules, rules = fillDnatRules(s, ip).rules,
         NEW entries, entries = PortMaps[PodOf[s]]
  PROVE  /\ rules \in Seq(Rule)
         /\ \A k \in 1 .. Len(rules) : rules[k].to \in Addr =>
              /\ rules[k].to = ip /\ k > 2
              /\ rules[k - 2] = Mark(rules[k].on, ip) /\ rules[k - 1] = Mark(rules[k].on, "localhost")
         /\ HasRewrites(rules, entries, ip)
<1>1. entries \in Seq(Mapping)
  BY PortMapFacts
<1>2. PICK n \in Nat : n = Len(entries) /\ DOMAIN entries = 1 .. n
  BY <1>1
<1>3. PICK ss : ss = [i \in 1 .. n |-> DnatRules(entries[i], ip)]
  OBVIOUS
<1>4. rules = FlattenSeq(ss)
  BY <1>2, <1>3 DEF fillDnatRules
<1>6. ASSUME NEW i \in 1 .. n
      PROVE  /\ ss[i] \in Seq(Rule)
             /\ \A m \in 1 .. Len(ss[i]) : ss[i][m].to \in Addr =>
                  /\ m = 3 /\ ss[i][3].to = ip
                  /\ ss[i][1] = Mark(ss[i][3].on, ip) /\ ss[i][2] = Mark(ss[i][3].on, "localhost")
             /\ entries[i].host # "v6" =>
                  3 \in 1 .. Len(ss[i]) /\ ss[i][3] = Rewrite({<<entries[i].proto, entries[i].port>>}, ip)
  <2>1. PICK P : P = {<<entries[i].proto, entries[i].port>>}
    OBVIOUS
  <2>2. P \in SUBSET Port
    <3>1. entries[i] \in Mapping
      BY <1>1, <1>2
    <3> QED BY <2>1, <3>1 DEF Mapping
  <2>3. PICK a \in Rule : a = Mark(P, ip) /\ a.to \notin Addr
    BY <2>2, DnatRuleFacts
  <2>4. PICK b \in Rule : b = Mark(P, "localhost") /\ b.to \notin Addr
    BY <2>2, DnatRuleFacts
  <2>5. PICK c \in Rule : c = Rewrite(P, ip) /\ c.to = ip /\ c.on = P
    BY <2>2, DnatRuleFacts
  <2>6. ss[i] = IF entries[i].host = "v6" THEN <<>> ELSE <<a, b, c>>
    BY <1>3, <2>1, <2>3, <2>4, <2>5 DEF DnatRules, Mark, Rewrite
  <2>7. CASE entries[i].host = "v6"
    <3>1. ss[i] = <<>>
      BY <2>6, <2>7
    <3> QED BY <2>7, <3>1
  <2>8. CASE entries[i].host # "v6"
    <3>1. PICK t : t = <<a, b, c>>
      OBVIOUS
    <3>2. t \in Seq(Rule) /\ Len(t) = 3 /\ t[1] = a /\ t[2] = b /\ t[3] = c
      BY <3>1
    <3>3. ss[i] = t
      BY <2>6, <2>8, <3>1
    <3>4. \A m \in 1 .. 3 : m = 1 \/ m = 2 \/ m = 3
      OBVIOUS
    <3>5. \A m \in 1 .. 3 : t[m].to \in Addr => m = 3
      BY <2>3, <2>4, <3>2, <3>4
    <3>6. \A m \in 1 .. 3 : t[m].to \in Addr =>
            m = 3 /\ t[3].to = ip /\ t[1] = Mark(t[3].on, ip) /\ t[2] = Mark(t[3].on, "localhost")
      BY <2>3, <2>4, <2>5, <3>2, <3>5
    <3>7. 3 \in 1 .. Len(t) /\ t[3] = Rewrite(P, ip)
      BY <2>5, <3>2
    <3> QED BY <2>1, <3>2, <3>3, <3>6, <3>7
  <2> QED BY <2>7, <2>8
<1>7. ss \in Seq(Seq(Rule)) /\ Len(ss) = n
  <2>1. ss = [i \in 1 .. n |-> ss[i]]
    BY <1>3
  <2>2. \A i \in 1 .. n : ss[i] \in Seq(Rule)
    BY <1>6
  <2> QED BY <2>1, <2>2, FunctionIsSeq
<1>8. /\ rules \in Seq(Rule)
      /\ \A k \in 1 .. Len(rules) : InPart(ss, rules, k)
      /\ \A i \in 1 .. Len(ss) : \A m \in 1 .. Len(ss[i]) : \E k \in 1 .. Len(rules) : rules[k] = ss[i][m]
  <2>1. IsFlat(Rule, ss, rules)
    BY <1>4, <1>7, FlattenFacts
  <2> QED BY <2>1 DEF IsFlat
<1>9. ASSUME NEW k \in 1 .. Len(rules), rules[k].to \in Addr
      PROVE  /\ rules[k].to = ip /\ k > 2
             /\ rules[k - 2] = Mark(rules[k].on, ip) /\ rules[k - 1] = Mark(rules[k].on, "localhost")
  <2>1. PICK i \in 1 .. n : \E m \in 1 .. Len(ss[i]) :
          m <= k /\ \A l \in 1 .. m : rules[k - m + l] = ss[i][l]
    BY <1>7, <1>8 DEF InPart
  <2>2. PICK m \in 1 .. Len(ss[i]) : m <= k /\ \A l \in 1 .. m : rules[k - m + l] = ss[i][l]
    BY <2>1
  <2>3. ss[i] \in Seq(Rule)
    BY <1>6
  <2>4. m \in 1 .. m /\ k - m + m = k
    BY <1>8, <2>3
  <2>5. rules[k] = ss[i][m]
    BY <2>2, <2>4
  <2>6. /\ m = 3 /\ ss[i][3].to = ip
        /\ ss[i][1] = Mark(ss[i][3].on, ip) /\ ss[i][2] = Mark(ss[i][3].on, "localhost")
    BY <1>6, <1>9, <2>5
  <2>7. k - m + 1 = k - 2 /\ k - m + 2 = k - 1 /\ 1 \in 1 .. m /\ 2 \in 1 .. m
    BY <1>8, <2>6
  <2>8. rules[k - 2] = ss[i][1] /\ rules[k - 1] = ss[i][2]
    BY <2>2, <2>7
  <2> QED BY <1>8, <2>2, <2>5, <2>6, <2>8
<1>10. ASSUME NEW i \in 1 .. n, entries[i].host # "v6"
       PROVE  \E k \in 1 .. Len(rules) : rules[k] = Rewrite({<<entries[i].proto, entries[i].port>>}, ip)
  <2>1. i \in 1 .. Len(ss) /\ 3 \in 1 .. Len(ss[i])
    BY <1>6, <1>7, <1>10
  <2>2. PICK k \in 1 .. Len(rules) : rules[k] = ss[i][3]
    BY <1>8, <2>1
  <2> QED BY <1>6, <1>10, <2>2
<1>11. HasRewrites(rules, entries, ip)
  BY <1>2, <1>10 DEF HasRewrites
<1> QED BY <1>8, <1>9, <1>11

OnlyCommon(p) ==
  \A k \in 1 .. Len(p) : p[k].chain \in Common /\ (p[k].chain = "TOP" => p[k].rule = NoRule)
HasCommand(p, c, r) == \E k \in 1 .. Len(p) : p[k].chain = c /\ p[k].rule = r

LEMMA JoinCommands ==
  ASSUME NEW u \in Seq(Cmd), NEW v \in Seq(Cmd)
  PROVE  /\ u \o v \in Seq(Cmd)
         /\ OnlyCommon(u) /\ OnlyCommon(v) => OnlyCommon(u \o v)
         /\ \A c, r : HasCommand(u, c, r) \/ HasCommand(v, c, r) => HasCommand(u \o v, c, r)
<1>1. PICK w : w = u \o v
  OBVIOUS
<1>2. /\ w \in Seq(Cmd) /\ Len(w) = Len(u) + Len(v)
      /\ \A k \in 1 .. Len(u) : w[k] = u[k]
      /\ \A k \in 1 .. Len(v) : w[Len(u) + k] = v[k]
  BY <1>1, Joined DEF IsJoin
<1>3. ASSUME OnlyCommon(u), OnlyCommon(v) PROVE OnlyCommon(w)
  <2> SUFFICES ASSUME NEW k \in 1 .. Len(w)
               PROVE  w[k].chain \in Common /\ (w[k].chain = "TOP" => w[k].rule = NoRule)
    BY DEF OnlyCommon
  <2>1. CASE k <= Len(u)
    BY <1>2, <1>3, <2>1 DEF OnlyCommon
  <2>2. CASE k > Len(u)
    <3>1. PICK l \in 1 .. Len(v) : k = Len(u) + l
      <4>1. k - Len(u) \in 1 .. Len(v) /\ k = Len(u) + (k - Len(u))
        BY <1>2, <2>2
      <4> QED BY <4>1
    <3> QED BY <1>2, <1>3, <3>1 DEF OnlyCommon
  <2> QED BY <1>2, <2>1, <2>2
<1>4. ASSUME NEW c, NEW r, HasCommand(u, c, r) \/ HasCommand(v, c, r) PROVE HasCommand(w, c, r)
  <2>1. CASE HasCommand(u, c, r)
    <3>1. PICK k \in 1 .. Len(u) : u[k].chain = c /\ u[k].rule = r
      BY <2>1 DEF HasCommand
    <3>2. k \in 1 .. Len(w) /\ w[k] = u[k]
      BY <1>2
    <3> QED BY <3>1, <3>2 DEF HasCommand
  <2>2. CASE HasCommand(v, c, r)
    <3>1. PICK k \in 1 .. Len(v) : v[k].chain = c /\ v[k].rule = r
      BY <2>2 DEF HasCommand
    <3>2. Len(u) + k \in 1 .. Len(w) /\ w[Len(u) + k] = v[k]
      BY <1>2
    <3> QED BY <3>1, <3>2 DEF HasCommand
  <2> QED BY <1>4, <2>1, <2>2
<1> QED BY <1>1, <1>2, <1>3, <1>4

(* The chains every sandbox shares.                                        *)
LEMMA CommonSetup ==
  ASSUME NEW c, c.name \in Common, c.rules \in Seq(Rule), c.entryChains \in Seq(Common \ {"TOP"}),
         c.entryRules \in Seq(SUBSET Port), c.prependEntry \in BOOLEAN,
         c.name = "TOP" => c.rules = <<>>
  PROVE  /\ setup(c) \in Seq(Cmd) /\ OnlyCommon(setup(c))
         /\ \A i \in 1 .. Len(c.rules) : HasCommand(setup(c), c.name, c.rules[i])
         /\ \A i \in 1 .. Len(c.entryChains), j \in 1 .. Len(c.entryRules) :
              HasCommand(setup(c), c.entryChains[i], Jump(c.entryRules[j], c.name))
<1>1. c.name \in Chain /\ c.entryChains \in Seq(Chain)
  BY DEF Chain
<1>2. PICK p : p = setup(c)
  OBVIOUS
<1>3. PICK q \in Nat : q = Len(c.rules)
  OBVIOUS
<1>4. /\ p \in Seq(Cmd) /\ Len(p) >= 1 + q
      /\ p[1] = Command(c.name, NoRule, FALSE)
      /\ \A i \in 1 .. q : p[1 + i] = Command(c.name, c.rules[i], FALSE)
      /\ \A k \in 2 + q .. Len(p) :
           \E i \in 1 .. Len(c.entryChains), j \in 1 .. Len(c.entryRules) :
             p[k] = Command(c.entryChains[i], Jump(c.entryRules[j], c.name), c.prependEntry)
      /\ \A i \in 1 .. Len(c.entryChains), j \in 1 .. Len(c.entryRules) :
           \E k \in 2 + q .. Len(p) :
             p[k] = Command(c.entryChains[i], Jump(c.entryRules[j], c.name), c.prependEntry)
  BY <1>1, <1>2, <1>3, SetupFacts
<1>5. \A x, y, z : Command(x, y, z).chain = x /\ Command(x, y, z).rule = y
  BY DEF Command
<1>6. ASSUME NEW k \in 1 .. Len(p)
      PROVE  p[k].chain \in Common /\ (p[k].chain = "TOP" => p[k].rule = NoRule)
  <2>1. CASE k = 1
    <3>1. p[k] = Command(c.name, NoRule, FALSE)
      BY <1>4, <2>1
    <3> QED BY <3>1 DEF Command
  <2>2. CASE k \in 2 .. 1 + q
    <3>1. PICK i \in 1 .. q : k = 1 + i
      <4>1. k - 1 \in 1 .. q /\ k = 1 + (k - 1)
        BY <2>2
      <4> QED BY <4>1
    <3>2. c.name # "TOP"
      BY <1>3, <3>1
    <3>3. p[k] = Command(c.name, c.rules[i], FALSE)
      BY <1>4, <3>1
    <3> QED BY <3>2, <3>3 DEF Command
  <2>3. CASE k \in 2 + q .. Len(p)
    <3>1. PICK i \in 1 .. Len(c.entryChains), j \in 1 .. Len(c.entryRules) :
            p[k] = Command(c.entryChains[i], Jump(c.entryRules[j], c.name), c.prependEntry)
      BY <1>4, <2>3
    <3>2. c.entryChains[i] \in Common \ {"TOP"}
      OBVIOUS
    <3> QED BY <1>5, <3>1, <3>2
  <2> QED BY <1>4, <2>1, <2>2, <2>3
<1>7. ASSUME NEW i \in 1 .. q PROVE HasCommand(p, c.name, c.rules[i])
  <2>1. 1 + i \in 1 .. Len(p)
    BY <1>4
  <2>2. p[1 + i] = Command(c.name, c.rules[i], FALSE)
    BY <1>4
  <2> QED BY <2>1, <2>2 DEF HasCommand, Command
<1>8. ASSUME NEW i \in 1 .. Len(c.entryChains), NEW j \in 1 .. Len(c.entryRules)
      PROVE  HasCommand(p, c.entryChains[i], Jump(c.entryRules[j], c.name))
  <2>1. PICK k \in 2 + q .. Len(p) :
           p[k] = Command(c.entryChains[i], Jump(c.entryRules[j], c.name), c.prependEntry)
    BY <1>4
  <2>2. k \in 1 .. Len(p)
    BY <1>4
  <2> QED BY <1>5, <2>1, <2>2 DEF HasCommand
<1> QED BY <1>2, <1>3, <1>4, <1>6, <1>7, <1>8 DEF OnlyCommon

LEMMA SetMarkSetup ==
  /\ setup(genSetMarkChain) \in Seq(Cmd) /\ OnlyCommon(setup(genSetMarkChain))
  /\ HasCommand(setup(genSetMarkChain), "SETMARK", Jump(Port, "MARK"))
<1>1. PICK c : c = genSetMarkChain
  OBVIOUS
<1>2. PICK r \in Rule : r = Jump(Port, "MARK")
  BY RuleFacts DEF Target
<1>3. /\ <<r>> \in Seq(Rule) /\ Len(<<r>>) = 1 /\ <<r>>[1] = r /\ 1 \in 1 .. 1
      /\ <<>> \in Seq(Common \ {"TOP"}) /\ <<>> \in Seq(SUBSET Port)
  OBVIOUS
<1>4. /\ c.name = "SETMARK" /\ c.rules = <<r>> /\ c.entryChains = <<>> /\ c.entryRules = <<>>
      /\ c.prependEntry = FALSE
  BY <1>1, <1>2 DEF genSetMarkChain
<1>5. c.name \in Common /\ c.name # "TOP"
  BY <1>4 DEF Common
<1>6. /\ setup(c) \in Seq(Cmd) /\ OnlyCommon(setup(c))
      /\ \A i \in 1 .. Len(c.rules) : HasCommand(setup(c), c.name, c.rules[i])
  BY <1>3, <1>4, <1>5, CommonSetup
<1> QED BY <1>1, <1>2, <1>3, <1>4, <1>6

LEMMA MarkMasqSetup ==
  /\ setup(genMarkMasqChain) \in Seq(Cmd) /\ OnlyCommon(setup(genMarkMasqChain))
  /\ HasCommand(setup(genMarkMasqChain), "MASQ", Jump(Port, "MASQUERADE"))
  /\ HasCommand(setup(genMarkMasqChain), "POSTROUTING", Jump(Port, "MASQ"))
<1>1. PICK c : c = genMarkMasqChain
  OBVIOUS
<1>2. PICK r \in Rule : r = Jump(Port, "MASQUERADE")
  BY RuleFacts DEF Target
<1>3. <<r>> \in Seq(Rule) /\ Len(<<r>>) = 1 /\ <<r>>[1] = r /\ 1 \in 1 .. 1
  OBVIOUS
<1>4. PICK x \in Common \ {"TOP"} : x = "POSTROUTING"
  BY DEF Common, Builtin
<1>5. /\ <<x>> \in Seq(Common \ {"TOP"}) /\ Len(<<x>>) = 1 /\ <<x>>[1] = x
      /\ <<Port>> \in Seq(SUBSET Port) /\ Len(<<Port>>) = 1 /\ <<Port>>[1] = Port
  OBVIOUS
<1>6. /\ c.name = "MASQ" /\ c.rules = <<r>> /\ c.entryChains = <<x>> /\ c.entryRules = <<Port>>
      /\ c.prependEntry = TRUE
  BY <1>1, <1>2, <1>4 DEF genMarkMasqChain
<1>7. c.name \in Common /\ c.name # "TOP"
  BY <1>6 DEF Common
<1>8. /\ setup(c) \in Seq(Cmd) /\ OnlyCommon(setup(c))
      /\ \A i \in 1 .. Len(c.rules) : HasCommand(setup(c), c.name, c.rules[i])
      /\ \A i \in 1 .. Len(c.entryChains), j \in 1 .. Len(c.entryRules) :
           HasCommand(setup(c), c.entryChains[i], Jump(c.entryRules[j], c.name))
  BY <1>3, <1>5, <1>6, <1>7, CommonSetup
<1>9. HasCommand(setup(c), c.name, c.rules[1]) /\ HasCommand(setup(c), c.entryChains[1], Jump(c.entryRules[1], c.name))
  BY <1>3, <1>5, <1>6, <1>8
<1> QED BY <1>1, <1>2, <1>3, <1>4, <1>5, <1>6, <1>8, <1>9

LEMMA ToplevelSetup ==
  /\ setup(genToplevelDnatChain) \in Seq(Cmd) /\ OnlyCommon(setup(genToplevelDnatChain))
  /\ HasCommand(setup(genToplevelDnatChain), "PREROUTING", Jump(Port, "TOP"))
  /\ HasCommand(setup(genToplevelDnatChain), "OUTPUT", Jump(Port, "TOP"))
<1>1. PICK c : c = genToplevelDnatChain
  OBVIOUS
<1>2. PICK x \in Common \ {"TOP"} : x = "PREROUTING"
  BY DEF Common, Builtin
<1>3. PICK y \in Common \ {"TOP"} : y = "OUTPUT"
  BY DEF Common, Builtin
<1>4. /\ <<x, y>> \in Seq(Common \ {"TOP"}) /\ Len(<<x, y>>) = 2 /\ <<x, y>>[1] = x /\ <<x, y>>[2] = y
      /\ <<Port>> \in Seq(SUBSET Port) /\ Len(<<Port>>) = 1 /\ <<Port>>[1] = Port
      /\ <<>> \in Seq(Rule)
  OBVIOUS
<1>5. /\ c.name = "TOP" /\ c.rules = <<>> /\ c.entryChains = <<x, y>> /\ c.entryRules = <<Port>>
      /\ c.prependEntry = FALSE
  BY <1>1, <1>2, <1>3 DEF genToplevelDnatChain
<1>6. c.name \in Common
  BY <1>5 DEF Common
<1>7. /\ setup(c) \in Seq(Cmd) /\ OnlyCommon(setup(c))
      /\ \A i \in 1 .. Len(c.entryChains), j \in 1 .. Len(c.entryRules) :
           HasCommand(setup(c), c.entryChains[i], Jump(c.entryRules[j], c.name))
  BY <1>4, <1>5, <1>6, CommonSetup
<1>8. /\ HasCommand(setup(c), c.entryChains[1], Jump(c.entryRules[1], c.name))
      /\ HasCommand(setup(c), c.entryChains[2], Jump(c.entryRules[1], c.name))
  BY <1>4, <1>5, <1>7
<1> QED BY <1>1, <1>2, <1>3, <1>4, <1>5, <1>7, <1>8

LEMMA PreludeFacts ==
  ASSUME NEW s, NEW ip, PortMaps[PodOf[s]] # <<>>
  PROVE  \E pre \in Seq(Cmd) :
           /\ forwardPorts(s, ip) = pre \o setup(fillDnatRules(s, ip))
           /\ OnlyCommon(pre)
           /\ HasCommand(pre, "PREROUTING", Jump(Port, "TOP"))
           /\ HasCommand(pre, "OUTPUT", Jump(Port, "TOP"))
           /\ ~external => /\ HasCommand(pre, "SETMARK", Jump(Port, "MARK"))
                           /\ HasCommand(pre, "MASQ", Jump(Port, "MASQUERADE"))
                           /\ HasCommand(pre, "POSTROUTING", Jump(Port, "MASQ"))
<1>1. PICK a \in Seq(Cmd) : a = setup(genSetMarkChain)
  BY SetMarkSetup
<1>2. PICK b \in Seq(Cmd) : b = setup(genMarkMasqChain)
  BY MarkMasqSetup
<1>3. PICK c \in Seq(Cmd) : c = setup(genToplevelDnatChain)
  BY ToplevelSetup
<1>4. PICK d : d = setup(fillDnatRules(s, ip))
  OBVIOUS
<1>5. /\ OnlyCommon(a) /\ HasCommand(a, "SETMARK", Jump(Port, "MARK"))
      /\ OnlyCommon(b) /\ HasCommand(b, "MASQ", Jump(Port, "MASQUERADE"))
      /\ HasCommand(b, "POSTROUTING", Jump(Port, "MASQ"))
      /\ OnlyCommon(c) /\ HasCommand(c, "PREROUTING", Jump(Port, "TOP"))
      /\ HasCommand(c, "OUTPUT", Jump(Port, "TOP"))
  BY <1>1, <1>2, <1>3, SetMarkSetup, MarkMasqSetup, ToplevelSetup
<1>6. PICK ab : ab = a \o b
  OBVIOUS
<1>7. ab \in Seq(Cmd) /\ OnlyCommon(ab) /\ HasCommand(ab, "SETMARK", Jump(Port, "MARK"))
      /\ HasCommand(ab, "MASQ", Jump(Port, "MASQUERADE")) /\ HasCommand(ab, "POSTROUTING", Jump(Port, "MASQ"))
  BY <1>5, <1>6, JoinCommands
<1>8. CASE external
  <2>1. forwardPorts(s, ip) = (<<>> \o c) \o d
    BY <1>3, <1>4, <1>8 DEF forwardPorts
  <2>2. <<>> \o c = c
    BY ConcatEmptySeq
  <2>3. forwardPorts(s, ip) = c \o d
    BY <2>1, <2>2
  <2> QED BY <1>4, <1>5, <1>8, <2>3
<1>9. CASE ~external
  <2>1. forwardPorts(s, ip) = (ab \o c) \o d
    BY <1>1, <1>2, <1>3, <1>4, <1>6, <1>9 DEF forwardPorts
  <2>2. PICK abc : abc = ab \o c
    OBVIOUS
  <2>3. /\ abc \in Seq(Cmd) /\ OnlyCommon(abc) /\ HasCommand(abc, "SETMARK", Jump(Port, "MARK"))
        /\ HasCommand(abc, "MASQ", Jump(Port, "MASQUERADE")) /\ HasCommand(abc, "POSTROUTING", Jump(Port, "MASQ"))
        /\ HasCommand(abc, "PREROUTING", Jump(Port, "TOP")) /\ HasCommand(abc, "OUTPUT", Jump(Port, "TOP"))
    BY <1>5, <1>7, <2>2, JoinCommands
  <2> QED BY <1>4, <2>1, <2>2, <2>3
<1> QED BY <1>8, <1>9

(* The commands of a sandbox: the shared chains, its own chain, the rules  *)
(* of that, and the entries in TOP, in this order.                         *)
Layout(p, n, s, rules, er) ==
  /\ p \in Seq(Cmd) /\ rules \in Seq(Rule) /\ er \in Seq(SUBSET Port)
  /\ n \in Nat /\ Len(p) >= n + 1 + Len(rules)
  /\ \A k \in 1 .. n : p[k].chain \in Common /\ (p[k].chain = "TOP" => p[k].rule = NoRule)
  /\ p[n + 1] = Command(s, NoRule, FALSE)
  /\ \A i \in 1 .. Len(rules) : p[n + 1 + i] = Command(s, rules[i], FALSE)
  /\ \A k \in n + 2 + Len(rules) .. Len(p) :
       \E j \in 1 .. Len(er) : p[k] = Command("TOP", Jump(er[j], s), FALSE)
  /\ \A j \in 1 .. Len(er) :
       \E k \in n + 2 + Len(rules) .. Len(p) : p[k] = Command("TOP", Jump(er[j], s), FALSE)

LEMMA LayoutFacts ==
  ASSUME NEW s \in Sandbox, NEW ip \in Addr, PortMaps[PodOf[s]] # <<>>
  PROVE  /\ \E n : Layout(forwardPorts(s, ip), n, s, fillDnatRules(s, ip).rules, fillDnatRules(s, ip).entryRules)
         /\ HasCommand(forwardPorts(s, ip), "PREROUTING", Jump(Port, "TOP"))
         /\ HasCommand(forwardPorts(s, ip), "OUTPUT", Jump(Port, "TOP"))
         /\ ~external => /\ HasCommand(forwardPorts(s, ip), "SETMARK", Jump(Port, "MARK"))
                         /\ HasCommand(forwardPorts(s, ip), "MASQ", Jump(Port, "MASQUERADE"))
                         /\ HasCommand(forwardPorts(s, ip), "POSTROUTING", Jump(Port, "MASQ"))
<1>1. PICK pre \in Seq(Cmd) :
           /\ forwardPorts(s, ip) = pre \o setup(fillDnatRules(s, ip))
           /\ OnlyCommon(pre)
           /\ HasCommand(pre, "PREROUTING", Jump(Port, "TOP"))
           /\ HasCommand(pre, "OUTPUT", Jump(Port, "TOP"))
           /\ ~external => /\ HasCommand(pre, "SETMARK", Jump(Port, "MARK"))
                           /\ HasCommand(pre, "MASQ", Jump(Port, "MASQUERADE"))
                           /\ HasCommand(pre, "POSTROUTING", Jump(Port, "MASQ"))
  BY PreludeFacts
<1>2. PICK c : c = fillDnatRules(s, ip)
  OBVIOUS
<1>3. PICK rules : rules = c.rules
  OBVIOUS
<1>4. PICK er : er = c.entryRules
  OBVIOUS
<1>5. c.name = s /\ c.entryChains = <<"TOP">> /\ c.prependEntry = FALSE /\ er = EntryRules(PortMaps[PodOf[s]])
  BY <1>2, <1>4 DEF fillDnatRules
<1>6. rules \in Seq(Rule)
  BY <1>2, <1>3, DnatFacts
<1>7. er \in Seq(SUBSET Port)
  BY <1>5, PortMapFacts, EntryFacts
<1>8. s \in Chain /\ "TOP" \in Chain
  BY Names
<1>9. PICK x \in Chain : x = "TOP"
  BY <1>8
<1>10. <<x>> \in Seq(Chain) /\ Len(<<x>>) = 1 /\ <<x>>[1] = x /\ 1 .. 1 = {1}
  OBVIOUS
<1>11. PICK d : d = setup(c)
  OBVIOUS
<1>12. PICK q \in Nat : q = Len(rules)
  BY <1>6
<1>13. /\ d \in Seq(Cmd) /\ Len(d) >= 1 + q
       /\ d[1] = Command(s, NoRule, FALSE)
       /\ \A i \in 1 .. q : d[1 + i] = Command(s, rules[i], FALSE)
       /\ \A k \in 2 + q .. Len(d) : \E j \in 1 .. Len(er) : d[k] = Command("TOP", Jump(er[j], s), FALSE)
       /\ \A j \in 1 .. Len(er) : \E k \in 2 + q .. Len(d) : d[k] = Command("TOP", Jump(er[j], s), FALSE)
  <2>1. /\ c.name \in Chain /\ c.rules \in Seq(Rule) /\ c.entryChains \in Seq(Chain)
        /\ c.entryRules \in Seq(SUBSET Port) /\ c.prependEntry \in BOOLEAN
    BY <1>3, <1>4, <1>5, <1>6, <1>7, <1>8, <1>9, <1>10
  <2>2. /\ d \in Seq(Cmd) /\ Len(d) >= 1 + Len(c.rules)
        /\ d[1] = Command(c.name, NoRule, FALSE)
        /\ \A i \in 1 .. Len(c.rules) : d[1 + i] = Command(c.name, c.rules[i], FALSE)
        /\ \A k \in 2 + Len(c.rules) .. Len(d) :
             \E i \in 1 .. Len(c.entryChains), j \in 1 .. Len(c.entryRules) :
               d[k] = Command(c.entryChains[i], Jump(c.entryRules[j], c.name), c.prependEntry)
        /\ \A i \in 1 .. Len(c.entryChains), j \in 1 .. Len(c.entryRules) :
             \E k \in 2 + Len(c.rules) .. Len(d) :
               d[k] = Command(c.entryChains[i], Jump(c.entryRules[j], c.name), c.prependEntry)
    BY <1>11, <2>1, SetupFacts
  <2>3. Len(c.entryChains) = 1 /\ c.entryChains[1] = "TOP"
    BY <1>5, <1>9, <1>10
  <2>4. c.name = s /\ c.rules = rules /\ c.entryRules = er /\ c.prependEntry = FALSE /\ Len(c.rules) = q
    BY <1>3, <1>4, <1>5, <1>12
  <2>5. ASSUME NEW k \in 2 + q .. Len(d) PROVE \E j \in 1 .. Len(er) : d[k] = Command("TOP", Jump(er[j], s), FALSE)
    <3>1. PICK i \in 1 .. Len(c.entryChains), j \in 1 .. Len(c.entryRules) :
               d[k] = Command(c.entryChains[i], Jump(c.entryRules[j], c.name), c.prependEntry)
      BY <2>2, <2>4
    <3>2. i = 1
      BY <2>3
    <3> QED BY <2>3, <2>4, <3>1, <3>2
  <2>6. ASSUME NEW j \in 1 .. Len(er) PROVE \E k \in 2 + q .. Len(d) : d[k] = Command("TOP", Jump(er[j], s), FALSE)
    <3>1. 1 \in 1 .. Len(c.entryChains)
      BY <2>3
    <3>2. PICK k \in 2 + q .. Len(d) :
            d[k] = Command(c.entryChains[1], Jump(c.entryRules[j], c.name), c.prependEntry)
      BY <2>2, <2>4, <3>1
    <3> QED BY <2>3, <2>4, <3>2
  <2> QED BY <2>2, <2>4, <2>5, <2>6
<1>14. PICK p : p = forwardPorts(s, ip)
  OBVIOUS
<1>15. PICK n \in Nat : n = Len(pre)
  BY <1>1
<1>16. /\ p \in Seq(Cmd) /\ Len(p) = n + Len(d)
       /\ \A k \in 1 .. n : p[k] = pre[k]
       /\ \A k \in 1 .. Len(d) : p[n + k] = d[k]
  <2>1. p = pre \o d
    BY <1>1, <1>2, <1>11, <1>14
  <2>2. IsJoin(Cmd, p, pre, d)
    BY <1>1, <1>13, <2>1, Joined
  <2> QED BY <1>15, <2>2 DEF IsJoin
<1>17. Len(d) \in Nat
  BY <1>13
<1>18. \A k \in 1 .. n : p[k].chain \in Common /\ (p[k].chain = "TOP" => p[k].rule = NoRule)
  BY <1>1, <1>15, <1>16 DEF OnlyCommon
<1>19. p[n + 1] = Command(s, NoRule, FALSE)
  <2>1. 1 \in 1 .. Len(d)
    BY <1>13, <1>17
  <2>2. p[n + 1] = d[1]
    BY <1>16, <2>1
  <2> QED BY <1>13, <2>2
<1>20. ASSUME NEW i \in 1 .. q PROVE p[n + 1 + i] = Command(s, rules[i], FALSE)
  <2>1. 1 + i \in 1 .. Len(d) /\ n + (1 + i) = n + 1 + i
    BY <1>13, <1>17, SMTT(30)
  <2>2. p[n + (1 + i)] = d[1 + i]
    BY <1>16, <2>1
  <2> QED BY <1>13, <2>1, <2>2
<1>21. ASSUME NEW k \in n + 2 + q .. Len(p) PROVE \E j \in 1 .. Len(er) : p[k] = Command("TOP", Jump(er[j], s), FALSE)
  <2>1. PICK l \in 2 + q .. Len(d) : k = n + l
    <3>1. k - n \in 2 + q .. Len(d) /\ k = n + (k - n)
      BY <1>16, <1>17
    <3> QED BY <3>1
  <2>2. l \in 1 .. Len(d)
    OBVIOUS
  <2>3. p[k] = d[l]
    BY <1>16, <2>1, <2>2
  <2> QED BY <1>13, <2>3
<1>22. ASSUME NEW j \in 1 .. Len(er) PROVE \E k \in n + 2 + q .. Len(p) : p[k] = Command("TOP", Jump(er[j], s), FALSE)
  <2>1. PICK l \in 2 + q .. Len(d) : d[l] = Command("TOP", Jump(er[j], s), FALSE)
    BY <1>13
  <2>2. l \in 1 .. Len(d) /\ n + l \in n + 2 + q .. Len(p)
    BY <1>16, <1>17
  <2> QED BY <1>16, <2>1, <2>2
<1>23. Len(p) >= n + 1 + q
  BY <1>13, <1>16, <1>17
<1>24. Layout(p, n, s, rules, er)
  BY <1>6, <1>7, <1>12, <1>16, <1>18, <1>19, <1>20, <1>21, <1>22, <1>23 DEF Layout
<1>25. \A y, r : HasCommand(pre, y, r) => HasCommand(p, y, r)
  <2> SUFFICES ASSUME NEW y, NEW r, HasCommand(pre, y, r) PROVE HasCommand(p, y, r)
    OBVIOUS
  <2>1. PICK k \in 1 .. n : pre[k].chain = y /\ pre[k].rule = r
    BY <1>15 DEF HasCommand
  <2>2. k \in 1 .. Len(p) /\ p[k] = pre[k]
    BY <1>16, <1>17
  <2> QED BY <2>1, <2>2 DEF HasCommand
<1>26. \E m : Layout(forwardPorts(s, ip), m, s, fillDnatRules(s, ip).rules, fillDnatRules(s, ip).entryRules)
  BY <1>2, <1>3, <1>4, <1>14, <1>24
<1> QED BY <1>1, <1>14, <1>25, <1>26

(* Where a command is tells what it is.                                    *)
Placed(p, n, s, rules, er, j) ==
  \/ j <= n /\ p[j].chain \in Common /\ (p[j].chain = "TOP" => p[j].rule = NoRule)
  \/ j = n + 1 /\ p[j].chain = s /\ p[j].rule = NoRule
  \/ \E i \in 1 .. Len(rules) :
       j = n + 1 + i /\ p[j].chain = s /\ p[j].rule = rules[i] /\ p[j].prepend = FALSE
  \/ /\ j >= n + 2 + Len(rules) /\ p[j].chain = "TOP" /\ p[j].prepend = FALSE
     /\ \E g \in 1 .. Len(er) : p[j].rule = Jump(er[g], s)

LEMMA Places ==
  ASSUME NEW p, NEW n, NEW s \in Sandbox, NEW rules, NEW er, Layout(p, n, s, rules, er),
         NEW j \in 1 .. Len(p)
  PROVE  Placed(p, n, s, rules, er, j)
<1>1. n \in Nat /\ Len(rules) \in Nat /\ Len(p) \in Nat
  BY DEF Layout
<1>2. CASE j <= n
  BY <1>1, <1>2 DEF Layout, Placed
<1>3. CASE j = n + 1
  <2>1. p[j] = Command(s, NoRule, FALSE)
    BY <1>3 DEF Layout
  <2> QED BY <1>3, <2>1 DEF Command, Placed
<1>4. CASE j > n + 1 /\ j < n + 2 + Len(rules)
  <2>1. PICK i \in 1 .. Len(rules) : j = n + 1 + i
    <3>1. j - n - 1 \in 1 .. Len(rules) /\ j = n + 1 + (j - n - 1)
      BY <1>1, <1>4
    <3> QED BY <3>1
  <2>2. p[j] = Command(s, rules[i], FALSE)
    BY <2>1 DEF Layout
  <2> QED BY <2>1, <2>2 DEF Command, Placed
<1>5. CASE j >= n + 2 + Len(rules)
  <2>1. j \in n + 2 + Len(rules) .. Len(p)
    BY <1>1, <1>5
  <2>2. PICK g \in 1 .. Len(er) : p[j] = Command("TOP", Jump(er[g], s), FALSE)
    BY <2>1 DEF Layout
  <2> QED BY <1>5, <2>2 DEF Command, Placed
<1>6. \/ j <= n \/ j = n + 1 \/ (j > n + 1 /\ j < n + 2 + Len(rules)) \/ j >= n + 2 + Len(rules)
  BY <1>1
<1> QED BY <1>2, <1>3, <1>4, <1>5, <1>6

IsProgram(p, s) ==
  /\ p \in Seq(Cmd)
  /\ p # <<>> => PortMaps[PodOf[s]] # <<>>
  /\ \A j \in 1 .. Len(p) :
       /\ p[j].chain \in Common \cup {s}
       /\ p[j].chain = "TOP" => p[j].rule = NoRule \/ (p[j].rule.to = s /\ p[j].prepend = FALSE)

LEMMA ProgramFacts ==
  ASSUME NEW s \in Sandbox, NEW ip \in Addr, NEW p, p = forwardPorts(s, ip)
  PROVE  IsProgram(p, s)
<1>1. CASE PortMaps[PodOf[s]] = <<>>
  <2>1. p = <<>>
    BY <1>1 DEF forwardPorts
  <2> QED BY <2>1 DEF IsProgram
<1>2. CASE PortMaps[PodOf[s]] # <<>>
  <2>1. PICK rules : rules = fillDnatRules(s, ip).rules
    OBVIOUS
  <2>2. PICK er : er = fillDnatRules(s, ip).entryRules
    OBVIOUS
  <2>3. PICK n : Layout(p, n, s, rules, er)
    BY <1>2, <2>1, <2>2, LayoutFacts
  <2>4. p \in Seq(Cmd)
    BY <2>3 DEF Layout
  <2>5. ASSUME NEW j \in 1 .. Len(p)
        PROVE  /\ p[j].chain \in Common \cup {s}
               /\ p[j].chain = "TOP" => p[j].rule = NoRule \/ (p[j].rule.to = s /\ p[j].prepend = FALSE)
    <3>1. s # "TOP"
      BY Names
    <3>2. \A S : Jump(S, s).to = s
      BY RuleFacts
    <3>3. "TOP" \in Common
      BY Names
    <3>4. \/ p[j].chain \in Common /\ (p[j].chain = "TOP" => p[j].rule = NoRule)
          \/ p[j].chain = s
          \/ p[j].chain = "TOP" /\ p[j].prepend = FALSE /\ \E g \in 1 .. Len(er) : p[j].rule = Jump(er[g], s)
      <4>1. Placed(p, n, s, rules, er, j)
        BY <2>3, Places
      <4> QED BY <4>1 DEF Placed
    <3> QED BY <3>1, <3>2, <3>3, <3>4
  <2> QED BY <1>2, <2>4, <2>5 DEF IsProgram
<1> QED BY <1>1, <1>2

----------------------------------------------------------------------------
(* The nat table.                                                          *)

(* A rule that is not there is added at one end.                           *)
LEMMA Extended ==
  ASSUME NEW T, NEW s \in Seq(T), NEW e \in T
  PROVE  /\ IsJoin(T, Append(s, e), s, <<e>>) /\ IsJoin(T, <<e>> \o s, <<e>>, s)
         /\ IsInjective(s) /\ ~Contains(s, e) => IsInjective(Append(s, e)) /\ IsInjective(<<e>> \o s)
<1>0. <<e>> \in Seq(T) /\ Len(<<e>>) = 1 /\ <<e>>[1] = e
  OBVIOUS
<1>1. PICK t : t = Append(s, e)
  OBVIOUS
<1>2. t \in Seq(T) /\ Len(t) = Len(s) + 1 /\ t[Len(s) + 1] = e /\ \A k \in 1 .. Len(s) : t[k] = s[k]
  BY <1>1
<1>3. IsJoin(T, t, s, <<e>>)
  BY <1>0, <1>2 DEF IsJoin
<1>4. PICK w : w = <<e>> \o s
  OBVIOUS
<1>5. IsJoin(T, w, <<e>>, s)
  BY <1>0, <1>4, Joined
<1>6. w \in Seq(T) /\ Len(w) = 1 + Len(s) /\ w[1] = e /\ \A k \in 1 .. Len(s) : w[1 + k] = s[k]
  <2>1. 1 \in 1 .. 1
    OBVIOUS
  <2> QED BY <1>0, <1>5, <2>1 DEF IsJoin
<1>7. ASSUME IsInjective(s), ~Contains(s, e) PROVE IsInjective(t) /\ IsInjective(w)
  <2>1. Len(s) \in Nat /\ DOMAIN t = 1 .. Len(s) + 1 /\ DOMAIN w = 1 .. Len(s) + 1 /\ DOMAIN s = 1 .. Len(s)
    BY <1>2, <1>6
  <2>2. \A i, j \in 1 .. Len(s) : s[i] = s[j] => i = j
    BY <1>7, <2>1 DEF IsInjective
  <2>3. \A i \in 1 .. Len(s) : s[i] # e
    BY <1>7 DEF Contains
  <2>4. \A i, j \in 1 .. Len(s) + 1 : t[i] = t[j] => i = j
    BY <1>2, <2>1, <2>2, <2>3
  <2>5. \A i \in 1 .. Len(s) + 1 : i = 1 \/ (i - 1 \in 1 .. Len(s) /\ w[i] = s[i - 1])
    <3>1. ASSUME NEW i \in 1 .. Len(s) + 1, i # 1 PROVE i - 1 \in 1 .. Len(s) /\ w[i] = s[i - 1]
      <4>1. i - 1 \in 1 .. Len(s) /\ 1 + (i - 1) = i
        BY <2>1, <3>1
      <4> QED BY <1>6, <4>1
    <3> QED BY <3>1
  <2>6. \A i, j \in 1 .. Len(s) + 1 : w[i] = w[j] => i = j
    BY <1>6, <2>1, <2>2, <2>3, <2>5
  <2> QED BY <2>1, <2>4, <2>6 DEF IsInjective
<1> QED BY <1>1, <1>3, <1>4, <1>5, <1>7

(* A rule is taken out.                                                    *)
IsWithout(T, t, s, i) ==
  /\ t \in Seq(T) /\ Len(t) = Len(s) - 1
  /\ \A k \in 1 .. i - 1 : t[k] = s[k]
  /\ \A k \in i .. Len(s) - 1 : t[k] = s[k + 1]

LEMMA Removed ==
  ASSUME NEW T, NEW s \in Seq(T), NEW i \in 1 .. Len(s)
  PROVE  IsWithout(T, RemoveAt(s, i), s, i)
<1>0. i \in Int /\ Len(s) \in Int /\ 1 \in Int /\ i - 1 \in Int /\ i + 1 \in Int
  OBVIOUS
<1>1. PICK u : u = SubSeq(s, 1, i - 1)
  OBVIOUS
<1>2. PICK v : v = SubSeq(s, i + 1, Len(s))
  OBVIOUS
<1>3. u \in Seq(T) /\ Len(u) = i - 1 /\ \A k \in 1 .. i - 1 : u[k] = s[k]
  <2>1. \A j \in 1 .. i - 1 : s[j] \in T
    BY <1>0
  <2>2. /\ u \in Seq(T) /\ Len(u) = IF 1 <= i - 1 THEN (i - 1) - 1 + 1 ELSE 0
        /\ \A k \in 1 .. (i - 1) - 1 + 1 : u[k] = s[1 + k - 1]
    BY <1>0, <1>1, <2>1, SubSeqProperties
  <2> QED BY <1>0, <2>2
<1>4. v \in Seq(T) /\ Len(v) = Len(s) - i /\ \A k \in 1 .. Len(s) - i : v[k] = s[i + k]
  <2>1. \A j \in i + 1 .. Len(s) : s[j] \in T
    BY <1>0
  <2>2. /\ v \in Seq(T) /\ Len(v) = IF i + 1 <= Len(s) THEN Len(s) - (i + 1) + 1 ELSE 0
        /\ \A k \in 1 .. Len(s) - (i + 1) + 1 : v[k] = s[(i + 1) + k - 1]
    BY <1>0, <1>2, <2>1, SubSeqProperties
  <2>3. Len(s) - (i + 1) + 1 = Len(s) - i /\ i <= Len(s) /\ \A k \in 1 .. Len(s) - i : (i + 1) + k - 1 = i + k
    BY <1>0
  <2>4. Len(v) = Len(s) - i
    BY <1>0, <2>2
  <2> QED BY <2>2, <2>3, <2>4
<1>5. PICK t : t = u \o v
  OBVIOUS
<1>6. IsJoin(T, t, u, v)
  BY <1>3, <1>4, <1>5, Joined
<1>7. t \in Seq(T) /\ Len(t) = Len(s) - 1
  BY <1>0, <1>3, <1>4, <1>6 DEF IsJoin
<1>8. \A k \in 1 .. i - 1 : t[k] = s[k]
  BY <1>3, <1>6 DEF IsJoin
<1>9. ASSUME NEW k \in i .. Len(s) - 1 PROVE t[k] = s[k + 1]
  <2>1. k - i + 1 \in 1 .. Len(s) - i /\ k = Len(u) + (k - i + 1) /\ i + (k - i + 1) = k + 1
    BY <1>0, <1>3
  <2>2. t[Len(u) + (k - i + 1)] = v[k - i + 1]
    BY <1>4, <1>6, <2>1 DEF IsJoin
  <2> QED BY <1>4, <2>1, <2>2
<1>10. IsWithout(T, t, s, i)
  BY <1>7, <1>8, <1>9 DEF IsWithout
<1> QED BY <1>1, <1>2, <1>5, <1>10 DEF RemoveAt

LEMMA WithoutInjective ==
  ASSUME NEW T, NEW s \in Seq(T), NEW i \in 1 .. Len(s), NEW t, IsWithout(T, t, s, i), IsInjective(s)
  PROVE  IsInjective(t)
<1>1. t \in Seq(T) /\ Len(t) = Len(s) - 1 /\ Len(s) \in Nat /\ DOMAIN t = 1 .. Len(s) - 1
      /\ DOMAIN s = 1 .. Len(s)
  BY DEF IsWithout
<1>2. \A j, k \in 1 .. Len(s) : s[j] = s[k] => j = k
  BY <1>1 DEF IsInjective
<1>3. \A k \in 1 .. Len(s) - 1 :
        \/ k < i /\ k \in 1 .. Len(s) /\ t[k] = s[k]
        \/ k >= i /\ k + 1 \in 1 .. Len(s) /\ t[k] = s[k + 1]
  BY <1>1 DEF IsWithout
<1>4. \A j, k \in 1 .. Len(s) - 1 : t[j] = t[k] => j = k
  BY <1>1, <1>2, <1>3
<1> QED BY <1>1, <1>4 DEF IsInjective

(* The entry that DEL deletes is one of its own.                           *)
LEMMA Unlinked ==
  ASSUME NEW s, nat["TOP"] \in Seq(Rule), Entries(s) # {}
  PROVE  \E i \in 1 .. Len(nat["TOP"]) :
           nat["TOP"][i].to = s /\ IsWithout(Rule, WithoutFirst(s), nat["TOP"], i)
<1>1. PICK t : t = nat["TOP"]
  OBVIOUS
<1>2. t \in Seq(Rule) /\ Len(t) \in Nat /\ DOMAIN t = 1 .. Len(t)
  BY <1>1
<1>3. PICK I : I = {i \in 1 .. Len(t) : t[i].to = s}
  OBVIOUS
<1>4. I # {}
  <2>1. PICK r \in ToSet(t) : r.to = s
    BY <1>1 DEF Entries
  <2>2. PICK k \in DOMAIN t : t[k] = r
    BY <2>1 DEF ToSet
  <2> QED BY <1>2, <1>3, <2>1, <2>2
<1>5. PICK m \in I : \A y \in I : m <= y
  <2>1. I \subseteq Nat
    BY <1>2, <1>3
  <2> QED BY <1>4, <2>1, Least
<1>6. Min(I) \in I
  BY <1>5 DEF Min
<1>7. SelectInSeq(t, LAMBDA r : r.to = s) = Min(I)
  BY <1>3, <1>4 DEF SelectInSeq
<1>8. \E i \in 1 .. Len(t) : t[i].to = s
  BY <1>3, <1>4
<1>9. WithoutFirst(s) = RemoveAt(t, Min(I))
  BY <1>1, <1>7, <1>8 DEF WithoutFirst, RemoveFirstMatch
<1>10. Min(I) \in 1 .. Len(t) /\ t[Min(I)].to = s
  BY <1>3, <1>6
<1>11. PICK j \in 1 .. Len(t) : j = Min(I) /\ t[j].to = s
  BY <1>10
<1>12. IsWithout(Rule, RemoveAt(t, j), t, j)
  BY <1>2, <1>11, Removed
<1> QED BY <1>1, <1>9, <1>11, <1>12

(* Most steps leave the nat table alone.                                   *)
LEMMA NatSteps ==
  ASSUME [Next]_vars
  PROVE  \/ UNCHANGED <<chains, nat>>
         \/ portmapCmdAdd \/ ClearChain \/ DeleteEntries \/ DeleteChain \/ Reboot \/ KubeProxyStarts
<1>1. CASE UNCHANGED vars
  BY <1>1 DEF vars, natVars
<1>2. CASE AddStep
  <2>1. CASE ensureUNIPrimaryIPRoute \/ UniStep \/ initPodNetworking
    BY <2>1 DEF ensureUNIPrimaryIPRoute, UniStep, initPodNetworking, natVars
  <2>2. CASE assignFails \/ \E ip \in Addr : assignPodIp(ip)
    BY <2>2 DEF assignFails, assignPodIp, natVars
  <2>3. CASE checkAndCleanOldVeth \/ setupVethPair \/ addRouteRuleForPodIp
    BY <2>3 DEF checkAndCleanOldVeth, setupVethPair, addRouteRuleForPodIp, natVars
  <2>4. CASE ensureDstIPRoutePolicy \/ PodSrcRule \/ setNodePortRange
    BY <2>4 DEF ensureDstIPRoutePolicy, PodSrcRule, setNodePortRange, natVars
  <2>5. CASE rollbackReleaseIP \/ addPodNetworkRecord
    BY <2>5 DEF rollbackReleaseIP, addPodNetworkRecord, natVars
  <2> QED BY <1>2, <2>1, <2>2, <2>3, <2>4, <2>5 DEF AddStep
<1>3. CASE DelStep
  <2>1. CASE getPodNetworkRecord \/ cleanUpIPRoutePolicy \/ releasePodIp \/ delPodNetworkRecord
    BY <2>1 DEF getPodNetworkRecord, cleanUpIPRoutePolicy, releasePodIp, delPodNetworkRecord, natVars
  <2>2. CASE portmapCmdDel \/ DelInterface
    BY <2>2 DEF portmapCmdDel, DelInterface, natVars
  <2> QED BY <1>3, <2>1, <2>2 DEF DelStep
<1>4. CASE Kill \/ \E s \in Sandbox : StartAdd(s) \/ StartDel(s) \/ ReconcileDelete(s) \/ RemoveNetns(s)
  BY <1>4 DEF Kill, StartAdd, StartDel, ReconcileDelete, RemoveNetns, natVars
<1> QED BY <1>1, <1>2, <1>3, <1>4 DEF Next

(* A command of a program, as iptables carries it out.                     *)
Adds(cmd) ==
  /\ cmd \in Cmd /\ chains' = chains \cup {cmd.chain} /\ nat' = insertUnique(cmd)
  /\ cmd.chain \in Common \cup {proc.sb}
  /\ cmd.chain = "TOP" => cmd.rule = NoRule \/ (cmd.rule.to = proc.sb /\ cmd.prepend = FALSE)
LEMMA CommandSteps ==
  ASSUME Shape, proc.k \in Nat \ {0}, portmapCmdAdd
  PROVE  \/ UNCHANGED <<chains, nat>>
         \/ /\ PortMaps[PodOf[proc.sb]] # <<>> /\ Again /\ UNCHANGED sb
            /\ \E cmd : Adds(cmd)
<1>0. proc.sb \in Sandbox /\ proc.ip \in Addr
  BY ShapeParts, PortFacts DEF ProcShape, At, UniPc, PodPc
<1>1. PICK p : p = forwardPorts(proc.sb, proc.ip)
  OBVIOUS
<1>2. /\ p \in Seq(Cmd)
      /\ p # <<>> => PortMaps[PodOf[proc.sb]] # <<>>
      /\ \A j \in 1 .. Len(p) :
           /\ p[j].chain \in Common \cup {proc.sb}
           /\ p[j].chain = "TOP" => p[j].rule = NoRule \/ (p[j].rule.to = proc.sb /\ p[j].prepend = FALSE)
  <2>1. PICK s \in Sandbox : s = proc.sb
    BY <1>0
  <2>2. PICK ip \in Addr : ip = proc.ip
    BY <1>0
  <2>3. p = forwardPorts(s, ip)
    BY <1>1, <2>1, <2>2
  <2>4. IsProgram(p, s)
    BY <2>3, ProgramFacts
  <2> QED BY <2>1, <2>4 DEF IsProgram
<1>3. \/ UNCHANGED <<chains, nat>>
      \/ /\ proc.k <= Len(p) /\ chains' = chains \cup {p[proc.k].chain} /\ nat' = insertUnique(p[proc.k])
         /\ Again /\ UNCHANGED sb
  BY <1>1 DEF portmapCmdAdd, natVars
<1>4. CASE /\ proc.k <= Len(p) /\ chains' = chains \cup {p[proc.k].chain} /\ nat' = insertUnique(p[proc.k])
           /\ Again /\ UNCHANGED sb
  <2>1. Len(p) \in Nat /\ proc.k \in 1 .. Len(p) /\ p # <<>>
    BY <1>2, <1>4
  <2>2. p[proc.k] \in Cmd
    BY <1>2, <2>1
  <2>3. PICK cmd : cmd = p[proc.k]
    OBVIOUS
  <2>4. /\ cmd.chain \in Common \cup {proc.sb}
        /\ cmd.chain = "TOP" => cmd.rule = NoRule \/ (cmd.rule.to = proc.sb /\ cmd.prepend = FALSE)
    BY <1>2, <2>1, <2>3
  <2>5. Adds(cmd)
    BY <1>4, <2>2, <2>3, <2>4 DEF Adds
  <2> QED BY <1>2, <1>4, <2>1, <2>5
<1> QED BY <1>3, <1>4

(* No rule is twice in a chain, and a chain that does not exist has none.  *)
NatShape ==
  /\ nat \in [Chain -> Seq(Rule)] /\ \A c \in Chain : IsInjective(nat[c])
  /\ chains \subseteq Chain /\ Builtin \subseteq chains
  /\ \A c \in Chain \ chains : nat[c] = <<>>
Cleared == proc.op = "DEL" /\ proc.pc \in {"unlink", "chain"} => nat[proc.sb] = <<>>
CountShape == proc.k \in Nat \ {0} /\ proc.ip \in Addr \cup {None} /\ proc.nic \in Uni \cup {Master}

LEMMA CountKeeps ==
  ASSUME Shape, CountShape, [Next]_vars
  PROVE  CountShape'
<1>0. ProcShape /\ BookShape
  BY ShapeParts
<1>1. ASSUME NEW pc, Goto(pc) PROVE CountShape'
  BY <1>0, <1>1, GotoFacts DEF CountShape
<1>2. ASSUME Again PROVE CountShape'
  BY <1>0, <1>2, AgainFacts DEF CountShape
<1>3. ASSUME proc' = NoProc PROVE CountShape'
  BY <1>3, NoProcFacts DEF CountShape
<1>4. ASSUME proc' = proc PROVE CountShape'
  BY <1>4 DEF CountShape
<1>5. CASE AddStep
  <2>1. CASE \E ip \in Addr : assignPodIp(ip)
    <3>1. PICK ip \in Addr : assignPodIp(ip)
      BY <2>1
    <3>2. proc'.k = proc.k /\ proc'.ip = ip /\ proc'.nic \in {proc.nic, Master}
      BY <3>1, AssignFacts
    <3> QED BY <3>2 DEF CountShape
  <2> QED BY <1>1, <1>2, <1>3, <1>5, <2>1, PrimaryFacts, UniStepFacts, NetworkingFacts, AssignFailsFacts,
            CleanFacts, PairFacts, RouteFacts, DstFacts, SrcFacts, RangeFacts, RollbackFacts, RecordFacts,
            PortFacts DEF AddStep, AddFails, AddOK
<1>6. CASE DelStep
  <2>1. CASE getPodNetworkRecord
    <3>1. proc.sb \in Sandbox
      BY <1>0, <1>6, DelStays DEF ProcShape
    <3>2. CASE proc' = [op |-> "DEL", sb |-> proc.sb, pc |-> "rules", k |-> proc.k,
                        ip |-> rec[proc.sb], nic |-> proc.nic]
      BY <1>0, <3>1, <3>2 DEF CountShape, BookShape
    <3> QED BY <1>1, <1>3, <2>1, <3>2, GetFacts DEF DelOK
  <2>2. CASE cleanUpIPRoutePolicy \/ releasePodIp \/ delPodNetworkRecord
    BY <1>1, <1>3, <2>2, RulesFacts, ReleaseFacts, DelRecordFacts DEF DelFails
  <2> QED BY <1>1, <1>3, <1>4, <1>6, <2>1, <2>2, TeardownFacts, IfaceFacts DEF DelStep, Teardown, DelFails, DelOK
<1>7. CASE \E s \in Sandbox : StartAdd(s) \/ StartDel(s)
  <2>1. PICK s \in Sandbox : StartAdd(s) \/ StartDel(s)
    BY <1>7
  <2>2. proc'.k = 1 /\ proc'.ip = None /\ proc'.nic \in {NicOf[s], Master}
    BY <2>1, StartAddFacts, StartDelFacts
  <2> QED BY <2>2, Consts DEF CountShape
<1>8. CASE \/ UNCHANGED vars \/ Kill \/ Reboot \/ KubeProxyStarts
           \/ \E s \in Sandbox : ReconcileDelete(s) \/ RemoveNetns(s)
  BY <1>3, <1>4, <1>8, KillFacts, RebootFacts, ProxyFacts, ReconcileFacts,
     NetnsFacts DEF vars, AddFails, DelFails
<1> QED BY <1>5, <1>6, <1>7, <1>8 DEF Next

LEMMA InsertFacts ==
  ASSUME NatShape, NEW cmd \in Cmd
  PROVE  /\ insertUnique(cmd) \in [Chain -> Seq(Rule)]
         /\ \A c \in Chain : IsInjective(insertUnique(cmd)[c])
         /\ \A c \in Chain \ {cmd.chain} : insertUnique(cmd)[c] = nat[c]
         /\ \/ insertUnique(cmd) = nat
            \/ /\ cmd.rule # NoRule
               /\ insertUnique(cmd)[cmd.chain] = IF cmd.prepend THEN <<cmd.rule>> \o nat[cmd.chain]
                                                 ELSE Append(nat[cmd.chain], cmd.rule)
<1>0. nat \in [Chain -> Seq(Rule)] /\ \A c \in Chain : IsInjective(nat[c])
  BY DEF NatShape
<1>1. cmd.chain \in Chain /\ cmd.rule \in Rule
  BY DEF Cmd
<1>2. PICK d : d = cmd.chain
  OBVIOUS
<1>3. PICK r : r = cmd.rule
  OBVIOUS
<1>4. nat[d] \in Seq(Rule) /\ IsInjective(nat[d])
  BY <1>0, <1>1, <1>2
<1>5. PICK s : s = nat[d]
  OBVIOUS
<1>6. ASSUME NEW t, IsJoin(Rule, t, s, <<r>>) \/ IsJoin(Rule, t, <<r>>, s) PROVE t \in Seq(Rule)
  BY <1>6 DEF IsJoin
<1>7. /\ Append(s, r) \in Seq(Rule) /\ <<r>> \o s \in Seq(Rule)
      /\ ~Contains(s, r) => IsInjective(Append(s, r)) /\ IsInjective(<<r>> \o s)
  BY <1>1, <1>3, <1>4, <1>5, <1>6, Extended
<1>8. CASE r = NoRule \/ Contains(s, r)
  <2>1. insertUnique(cmd) = nat
    BY <1>2, <1>3, <1>5, <1>8 DEF insertUnique
  <2> QED BY <1>0, <2>1
<1>9. CASE r # NoRule /\ ~Contains(s, r)
  <2>1. PICK t : t = IF cmd.prepend THEN <<r>> \o s ELSE Append(s, r)
    OBVIOUS
  <2>2. t \in Seq(Rule) /\ IsInjective(t)
    BY <1>7, <1>9, <2>1
  <2>3. insertUnique(cmd) = [nat EXCEPT ![d] = t]
    BY <1>2, <1>3, <1>5, <1>9, <2>1 DEF insertUnique
  <2>4. PICK f : f = [nat EXCEPT ![d] = t]
    OBVIOUS
  <2>5. f \in [Chain -> Seq(Rule)] /\ f[d] = t /\ \A c \in Chain \ {d} : f[c] = nat[c]
    BY <1>0, <1>1, <1>2, <2>2, <2>4
  <2>6. \A c \in Chain : IsInjective(f[c])
    BY <1>0, <2>2, <2>5
  <2> QED BY <1>2, <1>3, <1>5, <1>9, <2>1, <2>3, <2>4, <2>5, <2>6
<1> QED BY <1>8, <1>9

LEMMA NatKeeps ==
  ASSUME Shape, CountShape, NatShape, Cleared, [Next]_vars
  PROVE  NatShape'
<1>0. /\ nat \in [Chain -> Seq(Rule)] /\ chains \subseteq Chain /\ Builtin \subseteq chains
      /\ \A c \in Chain : IsInjective(nat[c])
      /\ \A c \in Chain \ chains : nat[c] = <<>>
  BY DEF NatShape
<1>1. /\ ProcShape /\ "TOP" \in Chain /\ Builtin \subseteq Chain /\ Sandbox \subseteq Chain
      /\ Sandbox \cap Builtin = {} /\ "KUBE-MARK-MASQ" \in Chain
  BY ShapeParts, Names DEF Chain, Common
<1>2. <<>> \in Seq(Rule) /\ IsInjective(<<>>)
  BY DEF IsInjective
<1>3. CASE UNCHANGED <<chains, nat>>
  BY <1>3 DEF NatShape
<1>4. CASE portmapCmdAdd /\ ~UNCHANGED <<chains, nat>>
  <2>1. PICK cmd : Adds(cmd)
    BY <1>4, CommandSteps DEF CountShape
  <2>2. cmd \in Cmd /\ chains' = chains \cup {cmd.chain} /\ nat' = insertUnique(cmd)
    BY <2>1 DEF Adds
  <2>3. cmd.chain \in Chain
    BY <2>2 DEF Cmd
  <2>4. /\ nat' \in [Chain -> Seq(Rule)] /\ \A c \in Chain : IsInjective(nat'[c])
        /\ \A c \in Chain \ {cmd.chain} : nat'[c] = nat[c]
    BY <2>2, InsertFacts
  <2> QED BY <1>0, <2>2, <2>3, <2>4 DEF NatShape
<1>5. CASE ClearChain /\ ~UNCHANGED <<chains, nat>>
  <2>1. chains' = chains \cup {proc.sb} /\ nat' = [nat EXCEPT ![proc.sb] = <<>>] /\ proc.sb \in Sandbox
    BY <1>1, <1>5 DEF ClearChain, natVars, ProcShape, At
  <2>2. nat' \in [Chain -> Seq(Rule)] /\ \A c \in Chain : nat'[c] = nat[c] \/ nat'[c] = <<>>
    BY <1>0, <1>2, <2>1
  <2>3. \A c \in Chain : IsInjective(nat'[c])
    BY <1>0, <1>2, <2>2
  <2> QED BY <1>0, <1>1, <2>1, <2>2, <2>3 DEF NatShape
<1>6. CASE DeleteEntries /\ ~UNCHANGED <<chains, nat>>
  <2>1. Entries(proc.sb) # {} /\ nat' = [nat EXCEPT !["TOP"] = WithoutFirst(proc.sb)] /\ UNCHANGED chains
    BY <1>6 DEF DeleteEntries
  <2>2. PICK t : t = WithoutFirst(proc.sb)
    OBVIOUS
  <2>3. PICK s : s = nat["TOP"]
    OBVIOUS
  <2>4. s \in Seq(Rule) /\ IsInjective(s)
    BY <1>0, <1>1, <2>3
  <2>5. PICK i \in 1 .. Len(s) : IsWithout(Rule, t, s, i)
    BY <2>1, <2>2, <2>3, <2>4, Unlinked
  <2>6. t \in Seq(Rule) /\ IsInjective(t)
    BY <2>4, <2>5, WithoutInjective DEF IsWithout
  <2>7. nat' = [nat EXCEPT !["TOP"] = t]
    BY <2>1, <2>2
  <2>8. nat' \in [Chain -> Seq(Rule)] /\ nat'["TOP"] = t /\ \A c \in Chain \ {"TOP"} : nat'[c] = nat[c]
    BY <1>0, <1>1, <2>6, <2>7
  <2>9. \A c \in Chain : IsInjective(nat'[c])
    BY <1>0, <2>6, <2>8
  <2>10. "TOP" \in chains
    <3>1. s # <<>>
      BY <2>5
    <3> QED BY <1>0, <1>1, <2>3, <3>1
  <2> QED BY <1>0, <2>1, <2>8, <2>9, <2>10 DEF NatShape
<1>7. CASE DeleteChain /\ ~UNCHANGED <<chains, nat>>
  <2>1. chains' = chains \ {proc.sb} /\ UNCHANGED nat /\ At("DEL", "chain")
    BY <1>7 DEF DeleteChain
  <2>2. proc.sb \in Sandbox /\ nat[proc.sb] = <<>>
    BY <1>1, <2>1 DEF ProcShape, At, Cleared
  <2> QED BY <1>0, <1>1, <2>1, <2>2 DEF NatShape
<1>8. CASE Reboot
  <2>1. chains' = Builtin /\ nat' = [c \in Chain |-> <<>>]
    BY <1>8 DEF Reboot
  <2>2. nat' \in [Chain -> Seq(Rule)] /\ \A c \in Chain : nat'[c] = <<>>
    BY <1>2, <2>1
  <2> QED BY <1>1, <1>2, <2>1, <2>2 DEF NatShape
<1>9. CASE KubeProxyStarts
  <2>1. chains' = chains \cup {"KUBE-MARK-MASQ"} /\ UNCHANGED nat
    BY <1>9 DEF KubeProxyStarts
  <2> QED BY <1>0, <1>1, <2>1 DEF NatShape
<1> QED BY <1>3, <1>4, <1>5, <1>6, <1>7, <1>8, <1>9, NatSteps

LEMMA ClearedKeeps ==
  ASSUME Shape, NatShape, Cleared, [Next]_vars
  PROVE  Cleared'
<1> SUFFICES ASSUME proc'.op = "DEL", proc'.pc \in {"unlink", "chain"} PROVE nat'[proc'.sb] = <<>>
  BY DEF Cleared
<1>0. ProcShape /\ nat \in [Chain -> Seq(Rule)] /\ "TOP" \in Chain /\ "TOP" \notin Sandbox /\ Sandbox \subseteq Chain
  BY ShapeParts, Names DEF NatShape, Chain
<1>1. proc' # NoProc
  BY NoProcFacts
<1>2. \A pc : Goto(pc) => pc = proc'.pc /\ proc'.sb = proc.sb
  BY <1>0, GotoFacts
<1>3. CASE AddStep
  BY <1>3, AddStays
<1>4. CASE getPodNetworkRecord \/ cleanUpIPRoutePolicy \/ releasePodIp \/ delPodNetworkRecord
  BY <1>1, <1>2, <1>4, GetFacts, RulesFacts, ReleaseFacts, DelRecordFacts DEF DelOK, DelFails
<1>5. CASE portmapCmdDel \/ DeleteChain \/ DelInterface
  BY <1>1, <1>2, <1>5 DEF portmapCmdDel, unforwardPorts, maybeGetIptables, DeleteChain, DelInterface, DelFails, DelOK
<1>6. CASE ClearChain
  <2>1. Goto("unlink") /\ nat' = [nat EXCEPT ![proc.sb] = <<>>] /\ proc.sb \in Sandbox
    BY <1>0, <1>1, <1>6 DEF ClearChain, DelFails, ProcShape, At
  <2> QED BY <1>0, <1>2, <2>1
<1>7. CASE DeleteEntries
  <2>1. proc'.sb = proc.sb /\ At("DEL", "unlink") /\ (UNCHANGED nat \/ nat' = [nat EXCEPT !["TOP"] = WithoutFirst(proc.sb)])
    BY <1>1, <1>2, <1>7 DEF DeleteEntries, DelFails
  <2>2. proc.sb \in Sandbox /\ nat[proc.sb] = <<>>
    BY <1>0, <2>1 DEF ProcShape, At, Cleared
  <2> QED BY <1>0, <2>1, <2>2
<1>8. CASE UNCHANGED vars \/ KubeProxyStarts \/ \E s \in Sandbox : ReconcileDelete(s) \/ RemoveNetns(s)
  <2>1. UNCHANGED <<nat, proc>>
    BY <1>8, ProxyFacts, ReconcileFacts, NetnsFacts DEF vars, natVars
  <2> QED BY <2>1 DEF Cleared
<1>9. CASE Kill \/ Reboot \/ \E s \in Sandbox : StartAdd(s) \/ StartDel(s)
  BY <1>1, <1>9, KillFacts, RebootFacts, StartAddFacts, StartDelFacts DEF AddFails, DelFails
<1> QED BY <1>3, <1>4, <1>5, <1>6, <1>7, <1>8, <1>9 DEF Next, DelStep

----------------------------------------------------------------------------
(* What is left of the port forwarding.                                    *)

(* The forwarding of a sandbox is abandoned when DEL is over, or may come  *)
(* to its end before the forwarding is gone: it is past its teardown, or   *)
(* has no record left to find the mappings by.                             *)
HasForward(s) == s \in chains \/ Entries(s) # {}
Cleaning(s) ==
  /\ proc.op = "DEL" /\ proc.sb = s
  /\ proc.pc \in {"portmap", "clear", "unlink"} \/ (proc.pc = "chain" /\ Entries(s) = {})
Forsaken(s) == rec[s] = None \/ sb[s] \in {"stopped", "gone"} \/ (At("DEL", "iface") /\ proc.sb = s)
Abandoned == {s \in Sandbox : HasForward(s) /\ Forsaken(s) /\ ~Cleaning(s)}
ForwardBudget == Cardinality(Abandoned) <= lost
ForwardFresh ==
  /\ \A s \in Sandbox : HasForward(s) => sb[s] # "none" /\ PortMaps[PodOf[s]] # <<>>
  /\ proc.op = "ADD" /\ proc.pc # "portmap" => ~HasForward(proc.sb)
  /\ At("DEL", "clear") => PortMaps[PodOf[proc.sb]] # <<>>
LostShape == lost \in Nat /\ lost <= faults /\ faults \in Nat /\ faults <= MaxFaults

LEMMA Payment ==
  ASSUME [Next]_vars
  PROVE  Sound \/ \E k : Fault(k)
<1>1. CASE UNCHANGED vars
  BY <1>1 DEF vars, history, Sound
<1>2. CASE AddStep
  <2>1. CASE ensureUNIPrimaryIPRoute \/ PodSrcRule
    BY <2>1 DEF ensureUNIPrimaryIPRoute, PodSrcRule, ensureSrcIPRoutePolicy, SrcFails, RouteListFails
  <2>2. CASE UniStep \/ initPodNetworking
    BY <2>2 DEF UniStep, initPodNetworking
  <2>3. CASE assignFails \/ \E ip \in Addr : assignPodIp(ip)
    BY <2>3 DEF assignFails, assignPodIp
  <2>4. CASE checkAndCleanOldVeth \/ setupVethPair \/ addRouteRuleForPodIp
    BY <2>4 DEF checkAndCleanOldVeth, setupVethPair, addRouteRuleForPodIp, HostFails
  <2>5. CASE ensureDstIPRoutePolicy \/ setNodePortRange
    BY <2>5 DEF ensureDstIPRoutePolicy, setNodePortRange, HostFails
  <2>6. CASE rollbackReleaseIP \/ addPodNetworkRecord \/ portmapCmdAdd
    BY <2>6 DEF rollbackReleaseIP, addPodNetworkRecord, portmapCmdAdd
  <2> QED BY <1>2, <2>1, <2>2, <2>3, <2>4, <2>5, <2>6 DEF AddStep
<1>3. CASE DelStep
  <2>1. CASE getPodNetworkRecord \/ cleanUpIPRoutePolicy \/ releasePodIp \/ delPodNetworkRecord
    BY <2>1 DEF getPodNetworkRecord, cleanUpIPRoutePolicy, releasePodIp, delPodNetworkRecord
  <2>2. CASE portmapCmdDel \/ ClearChain \/ DeleteEntries \/ DeleteChain \/ DelInterface
    BY <2>2 DEF portmapCmdDel, unforwardPorts, ClearChain, DeleteEntries, DeleteChain, DelInterface
  <2> QED BY <1>3, <2>1, <2>2 DEF DelStep
<1>4. CASE Kill \/ Reboot \/ KubeProxyStarts
  BY <1>4 DEF Kill, Reboot, KubeProxyStarts, history, Sound
<1>5. CASE \E s \in Sandbox : StartAdd(s) \/ StartDel(s) \/ ReconcileDelete(s) \/ RemoveNetns(s)
  BY <1>5 DEF StartAdd, StartDel, ReconcileDelete, RemoveNetns, history, Sound
<1> QED BY <1>1, <1>2, <1>3, <1>4, <1>5 DEF Next

LEMMA LostKeeps ==
  ASSUME LostShape, [Next]_vars
  PROVE  LostShape' /\ lost' \in {lost, lost + 1}
<1>1. CASE Sound
  BY <1>1 DEF Sound, LostShape
<1>2. CASE \E k : Fault(k)
  <2>1. faults < MaxFaults /\ faults' = faults + 1 /\ lost' \in {lost, lost + 1}
    BY <1>2 DEF Fault
  <2> QED BY <2>1, HostAssumption DEF LostShape
<1> QED BY <1>1, <1>2, Payment

LEMMA AbandonedFinite == IsFiniteSet(Abandoned) /\ IsFiniteSet(Abandoned') /\ Cardinality(Abandoned) \in Nat
<1>1. IsFiniteSet(Sandbox) /\ Abandoned \subseteq Sandbox /\ Abandoned' \subseteq Sandbox
  BY HostAssumption DEF Abandoned
<1> QED BY <1>1, FS_Subset, FS_CardinalityType

LEMMA ForwardBudgetStep ==
  ASSUME LostShape, ForwardBudget, NEW x,
         \/ Abandoned' \subseteq Abandoned /\ lost' \in {lost, lost + 1}
         \/ Abandoned' \subseteq Abandoned \cup {x} /\ lost' = lost + 1
  PROVE  ForwardBudget'
<1>0. PICK V : V = Abandoned'
  OBVIOUS
<1>1. PICK W : W = Abandoned
  OBVIOUS
<1>2. IsFiniteSet(W) /\ Cardinality(W) \in Nat /\ Cardinality(W) <= lost /\ lost \in Nat
  BY <1>1, AbandonedFinite DEF ForwardBudget, LostShape
<1>3. PICK U : U = W \cup {x}
  OBVIOUS
<1>4. IsFiniteSet(U) /\ Cardinality(U) <= Cardinality(W) + 1 /\ Cardinality(U) \in Nat
  <2>1. IsFiniteSet(U) /\ Cardinality(U) <= Cardinality(W) + 1
    BY <1>2, <1>3, FS_AddElement
  <2> QED BY <2>1, FS_CardinalityType
<1>5. CASE V \subseteq W /\ lost' \in {lost, lost + 1}
  <2>1. Cardinality(V) <= Cardinality(W) /\ Cardinality(V) \in Nat
    BY <1>2, <1>5, FS_Subset, FS_CardinalityType
  <2>2. Cardinality(V) <= lost'
    BY <1>2, <1>5, <2>1
  <2> QED BY <1>0, <2>2 DEF ForwardBudget
<1>6. CASE V \subseteq U /\ lost' = lost + 1
  <2>1. Cardinality(V) <= Cardinality(U) /\ Cardinality(V) \in Nat
    BY <1>4, <1>6, FS_Subset, FS_CardinalityType
  <2>2. Cardinality(V) <= lost'
    BY <1>2, <1>4, <1>6, <2>1
  <2> QED BY <1>0, <2>2 DEF ForwardBudget
<1> QED BY <1>0, <1>1, <1>3, <1>5, <1>6

LEMMA AbandonedWithin ==
  ASSUME NEW X,
         \A s \in Sandbox \ X : HasForward(s)' => HasForward(s) \/ ~Forsaken(s)' \/ Cleaning(s)',
         \A s \in Sandbox \ X : HasForward(s)' /\ Forsaken(s)' => Forsaken(s) \/ Cleaning(s)',
         \A s \in Sandbox \ X : HasForward(s)' /\ Forsaken(s)' /\ Cleaning(s) => Cleaning(s)'
  PROVE  Abandoned' \subseteq Abandoned \cup X
BY DEF Abandoned

(* What the commands do to the forwarding of a sandbox.                    *)
LEMMA ForwardSame ==
  ASSUME UNCHANGED <<chains, nat>>
  PROVE  \A s : (HasForward(s)' <=> HasForward(s)) /\ Entries(s)' = Entries(s)
BY DEF HasForward, Entries

LEMMA ForwardCommand ==
  ASSUME Shape, NatShape, proc.sb \in Sandbox, NEW cmd, Adds(cmd)
  PROVE  \A s \in Sandbox \ {proc.sb} : HasForward(s)' => HasForward(s)
<1> SUFFICES ASSUME NEW s \in Sandbox, s # proc.sb, HasForward(s)' PROVE HasForward(s)
  OBVIOUS
<1>1. s \notin Common /\ "TOP" \in Chain /\ nat["TOP"] \in Seq(Rule)
  BY Names DEF NatShape
<1>2. cmd \in Cmd /\ chains' = chains \cup {cmd.chain} /\ nat' = insertUnique(cmd)
  BY DEF Adds
<1>3. cmd.chain # s
  BY <1>1 DEF Adds
<1>4. s \in chains' => s \in chains
  BY <1>2, <1>3
<1>5. ASSUME NEW r, r \in Entries(s)' PROVE r \in Entries(s)
  <2>1. PICK t : t = nat'["TOP"]
    OBVIOUS
  <2>2. PICK u : u = nat["TOP"]
    OBVIOUS
  <2>3. t = u \/ (cmd.rule.to = proc.sb /\ t = Append(u, cmd.rule))
    <3>1. CASE cmd.chain # "TOP"
      BY <1>1, <1>2, <2>1, <2>2, <3>1, InsertFacts
    <3>2. CASE cmd.chain = "TOP"
      BY <1>2, <2>1, <2>2, <3>2, InsertFacts DEF Adds
    <3> QED BY <3>1, <3>2
  <2>4. r \in ToSet(t) /\ r.to = s
    BY <1>5, <2>1 DEF Entries
  <2>5. u \in Seq(Rule)
    BY <1>1, <2>2
  <2>6. PICK k \in DOMAIN t : t[k] = r
    BY <2>4 DEF ToSet
  <2>7. CASE t = u
    BY <2>2, <2>4, <2>7 DEF Entries
  <2>8. CASE cmd.rule.to = proc.sb /\ t = Append(u, cmd.rule)
    <3>1. k \in 1 .. Len(u) \/ t[k] = cmd.rule
      BY <2>5, <2>6, <2>8
    <3>2. r # cmd.rule
      BY <2>4, <2>8
    <3>3. k \in DOMAIN u /\ u[k] = r
      BY <2>5, <2>6, <2>8, <3>1, <3>2
    <3>4. r \in ToSet(u)
      BY <3>3 DEF ToSet
    <3> QED BY <2>2, <2>4, <3>4 DEF Entries
  <2> QED BY <2>3, <2>7, <2>8
<1> QED BY <1>4, <1>5 DEF HasForward

LEMMA ForwardUnlink ==
  ASSUME NatShape, DeleteEntries
  PROVE  UNCHANGED chains /\ \A s : Entries(s)' \subseteq Entries(s)
<1>1. UNCHANGED chains
  BY DEF DeleteEntries
<1>2. CASE UNCHANGED nat
  BY <1>1, <1>2 DEF Entries
<1>3. CASE Entries(proc.sb) # {} /\ nat' = [nat EXCEPT !["TOP"] = WithoutFirst(proc.sb)]
  <2>1. PICK t : t = WithoutFirst(proc.sb)
    OBVIOUS
  <2>2. PICK u : u = nat["TOP"]
    OBVIOUS
  <2>3. nat \in [Chain -> Seq(Rule)] /\ "TOP" \in Chain
    BY Names DEF NatShape
  <2>4. u \in Seq(Rule) /\ nat'["TOP"] = t
    BY <1>3, <2>1, <2>2, <2>3
  <2>5. PICK i \in 1 .. Len(u) : IsWithout(Rule, t, u, i)
    BY <1>3, <2>1, <2>2, <2>4, Unlinked
  <2>6. \A k \in DOMAIN t : \E l \in DOMAIN u : t[k] = u[l]
    <3>1. t \in Seq(Rule) /\ Len(t) = Len(u) - 1 /\ DOMAIN t = 1 .. Len(u) - 1 /\ DOMAIN u = 1 .. Len(u)
      BY <2>4, <2>5 DEF IsWithout
    <3> SUFFICES ASSUME NEW k \in 1 .. Len(u) - 1 PROVE \E l \in 1 .. Len(u) : t[k] = u[l]
      BY <3>1
    <3>2. CASE k < i
      <4>1. k \in 1 .. i - 1 /\ k \in 1 .. Len(u)
        BY <3>2
      <4>2. t[k] = u[k]
        BY <2>5, <4>1 DEF IsWithout
      <4> QED BY <4>1, <4>2
    <3>3. CASE k >= i
      <4>1. k \in i .. Len(u) - 1 /\ k + 1 \in 1 .. Len(u)
        BY <3>3
      <4>2. t[k] = u[k + 1]
        BY <2>5, <4>1 DEF IsWithout
      <4> QED BY <4>1, <4>2
    <3> QED BY <3>2, <3>3
  <2>7. ToSet(t) \subseteq ToSet(u)
    BY <2>6 DEF ToSet
  <2> QED BY <1>1, <2>2, <2>4, <2>7 DEF Entries
<1> QED BY <1>2, <1>3 DEF DeleteEntries

LEMMA AddEffect ==
  ASSUME Shape, AddStep
  PROVE  /\ proc.op = "ADD" /\ proc.sb \in Sandbox /\ sb[proc.sb] = "adding"
         /\ proc' = NoProc \/ (proc'.op = "ADD" /\ proc'.sb = proc.sb)
         /\ \/ sb' = sb
            \/ sb' = [sb EXCEPT ![proc.sb] = "deleting"]
            \/ sb' = [sb EXCEPT ![proc.sb] = "running"]
         /\ \A s \in Sandbox : rec'[s] = None => rec[s] = None
         /\ \/ proc.pc # "portmap" /\ UNCHANGED <<chains, nat>>
            \/ proc.pc = "portmap" /\ portmapCmdAdd
<1>0. ProcShape /\ BookShape
  BY ShapeParts
<1>1. proc.op = "ADD" /\ proc.sb \in Sandbox /\ sb[proc.sb] = "adding"
  BY <1>0, AddStays DEF ProcShape
<1>2. CASE ensureUNIPrimaryIPRoute \/ UniStep \/ initPodNetworking \/ assignFails
  <2>1. proc' = NoProc \/ (proc'.op = "ADD" /\ proc'.sb = proc.sb)
    BY <1>0, <1>1, <1>2, PrimaryFacts, UniStepFacts, NetworkingFacts, AssignFailsFacts, GotoFacts, AgainFacts
       DEF AddFails
  <2>2. sb' = sb \/ sb' = [sb EXCEPT ![proc.sb] = "deleting"]
    BY <1>2, PrimaryFacts, UniStepFacts, NetworkingFacts, AssignFailsFacts DEF AddFails
  <2>3. UNCHANGED <<rec, chains, nat>> /\ proc.pc # "portmap"
    BY <1>2, PrimaryFacts, UniStepFacts, NetworkingFacts, AssignFailsFacts
       DEF At, ensureUNIPrimaryIPRoute, UniStep, initPodNetworking, assignFails, natVars
  <2> QED BY <1>1, <2>1, <2>2, <2>3
<1>3. CASE \E ip \in Addr : assignPodIp(ip)
  <2>1. PICK ip \in Addr : assignPodIp(ip)
    BY <1>3
  <2>2. proc'.op = "ADD" /\ proc'.sb = proc.sb /\ proc.pc # "portmap" /\ UNCHANGED <<sb, rec>>
    BY <2>1, AssignFacts DEF At
  <2>3. UNCHANGED <<chains, nat>>
    BY <2>1 DEF assignPodIp, natVars
  <2> QED BY <1>1, <2>2, <2>3
<1>4. CASE \/ checkAndCleanOldVeth \/ setupVethPair \/ addRouteRuleForPodIp
           \/ ensureDstIPRoutePolicy \/ PodSrcRule \/ setNodePortRange
  <2>1. proc'.op = "ADD" /\ proc'.sb = proc.sb
    BY <1>0, <1>1, <1>4, CleanFacts, PairFacts, RouteFacts, DstFacts, SrcFacts, RangeFacts, GotoFacts
  <2>2. UNCHANGED <<sb, rec>> /\ proc.pc # "portmap"
    BY <1>4, CleanFacts, PairFacts, RouteFacts, DstFacts, SrcFacts, RangeFacts DEF At
  <2>3. UNCHANGED <<chains, nat>>
    BY <1>4 DEF checkAndCleanOldVeth, setupVethPair, addRouteRuleForPodIp, ensureDstIPRoutePolicy, PodSrcRule,
       setNodePortRange, natVars
  <2> QED BY <1>1, <2>1, <2>2, <2>3
<1>5. CASE rollbackReleaseIP
  <2>1. UNCHANGED <<rec, chains, nat>> /\ proc.pc # "portmap" /\ AddFails
    BY <1>5 DEF rollbackReleaseIP, natVars, At
  <2> QED BY <1>1, <2>1 DEF AddFails
<1>6. CASE addPodNetworkRecord
  <2>1. UNCHANGED <<chains, nat>> /\ proc.pc # "portmap"
    BY <1>6 DEF addPodNetworkRecord, natVars, At
  <2>2. \A s \in Sandbox : rec'[s] = None => rec[s] = None
    <3>1. proc.ip \in Addr
      BY <1>0, <1>1, <1>6, RecordFacts DEF ProcShape, PodPc, At
    <3>2. rec' = rec \/ rec' = [rec EXCEPT ![proc.sb] = proc.ip]
      BY <1>6, RecordFacts
    <3> QED BY <1>0, <3>1, <3>2, Consts DEF BookShape
  <2> QED BY <1>0, <1>1, <1>6, <2>1, <2>2, RecordFacts, GotoFacts DEF AddFails
<1>7. CASE portmapCmdAdd
  <2>1. UNCHANGED rec /\ proc.pc = "portmap"
    BY <1>7, PortFacts DEF At
  <2>2. AddOK \/ AddFails \/ (Again /\ sb' = sb)
    BY <1>7, PortFacts
  <2> QED BY <1>0, <1>1, <1>7, <2>1, <2>2, AgainFacts DEF AddFails, AddOK
<1> QED BY <1>2, <1>3, <1>4, <1>5, <1>6, <1>7 DEF AddStep

(* ADD adds to the forwarding of its own sandbox, which has a record.      *)
LEMMA ForwardAdd ==
  ASSUME Shape, CountShape, NatShape, RecordInv, ForwardFresh, LostShape, ForwardBudget, AddStep
  PROVE  ForwardFresh' /\ ForwardBudget'
<1>0. SbShape
  BY ShapeParts
<1>1. PICK s \in Sandbox : s = proc.sb
  BY AddEffect
<1>2. /\ proc.op = "ADD" /\ sb[s] = "adding"
      /\ proc' = NoProc \/ (proc'.op = "ADD" /\ proc'.sb = s)
      /\ \/ sb' = sb
         \/ sb' = [sb EXCEPT ![s] = "deleting"]
         \/ sb' = [sb EXCEPT ![s] = "running"]
      /\ \A r \in Sandbox : rec'[r] = None => rec[r] = None
  BY <1>1, AddEffect
<1>3. /\ sb'[s] \notin {"none", "stopped", "gone"}
      /\ \A r \in Sandbox : sb'[r] \in {"none", "stopped", "gone"} => sb[r] = sb'[r]
  BY <1>0, <1>2 DEF SbShape
<1>4. \A r \in Sandbox : (Forsaken(r)' => Forsaken(r)) /\ ~Cleaning(r)
  BY <1>2, <1>3, NoProcFacts DEF Forsaken, Cleaning, At
<1>5. lost' \in {lost, lost + 1}
  BY LostKeeps DEF Next
<1>6. CASE UNCHANGED <<chains, nat>>
  <2>1. \A r : HasForward(r)' <=> HasForward(r)
    BY <1>6, ForwardSame
  <2>2. Abandoned' \subseteq Abandoned \cup {}
    BY <1>4, <2>1, AbandonedWithin
  <2>3. proc'.op = "ADD" /\ proc'.pc # "portmap" => ~HasForward(s)
    <3>1. CASE proc.pc # "portmap"
      BY <1>1, <1>2, <3>1 DEF ForwardFresh
    <3>2. CASE proc.pc = "portmap"
      <4>1. AddOK \/ AddFails \/ Again
        BY <3>2, AddEffect, PortFacts
      <4>2. ProcShape
        BY ShapeParts
      <4> QED BY <3>2, <4>1, <4>2, AgainFacts, NoProcFacts DEF AddOK, AddFails
    <3> QED BY <3>1, <3>2
  <2>4. ForwardFresh'
    BY <1>2, <1>3, <2>1, <2>3, NoProcFacts DEF ForwardFresh, At
  <2> QED BY <1>5, <2>2, <2>4, ForwardBudgetStep
<1>7. CASE portmapCmdAdd /\ ~UNCHANGED <<chains, nat>>
  <2>1. PortMaps[PodOf[s]] # <<>> /\ Again /\ UNCHANGED sb
    BY <1>1, <1>7, CommandSteps DEF CountShape
  <2>2. PICK cmd : Adds(cmd)
    BY <1>7, CommandSteps DEF CountShape
  <2>3. \A r \in Sandbox \ {s} : HasForward(r)' => HasForward(r)
    BY <1>1, <2>2, ForwardCommand
  <2>4. ProcShape /\ proc.pc = "portmap"
    BY <1>7, PortFacts, ShapeParts DEF At
  <2>5. proc'.op = "ADD" /\ proc'.sb = s /\ proc'.pc = "portmap"
    BY <1>1, <1>2, <2>1, <2>4, AgainFacts
  <2>6. ForwardFresh'
    BY <1>2, <2>1, <2>3, <2>5 DEF ForwardFresh, At
  <2>7. ~Forsaken(s)'
    <3>1. rec[s] = proc.ip /\ proc.ip \in Addr
      BY <1>1, <1>2, <2>4 DEF RecordInv, ProcShape, PodPc
    <3>2. rec[s] # None /\ rec' = rec
      BY <1>7, <3>1, Consts, PortFacts
    <3> QED BY <1>3, <2>5, <3>2 DEF Forsaken, At
  <2>8. Abandoned' \subseteq Abandoned \cup {}
    BY <1>4, <2>3, <2>7, AbandonedWithin
  <2> QED BY <1>5, <2>6, <2>8, ForwardBudgetStep
<1> QED BY <1>6, <1>7, AddEffect

(* DEL cleans up before it says that it is done, or a fault pays.          *)
LEMMA ForwardDel ==
  ASSUME Shape, NatShape, RecordInv, ForwardFresh, LostShape, ForwardBudget, DelStep
  PROVE  ForwardFresh' /\ ForwardBudget'
<1>0. ProcShape /\ SbShape /\ BookShape
  BY ShapeParts
<1>1. PICK s \in Sandbox : s = proc.sb
  BY <1>0, DelStays DEF ProcShape
<1>2. proc.op = "DEL" /\ sb[s] = "deleting" /\ proc'.op \in {"none", "DEL"}
  BY <1>0, <1>1, DelStays DEF ProcShape
<1>3. lost' \in {lost, lost + 1}
  BY LostKeeps DEF Next
<1>4. \A k \in {"iptables", "lookup", "kill"} : Fault(k) => lost' = lost + 1
  BY <1>2 DEF Fault
<1>5. /\ Cleaning(s) <=> proc.pc \in {"portmap", "clear", "unlink"} \/ (proc.pc = "chain" /\ Entries(s) = {})
      /\ \A r \in Sandbox \ {s} : ~Cleaning(r)
      /\ Forsaken(s) <=> rec[s] = None \/ proc.pc = "iface"
  BY <1>1, <1>2 DEF Cleaning, Forsaken, At
<1>6. ASSUME UNCHANGED <<sb, rec>>
      PROVE  \A r \in Sandbox \ {s} : (proc'.sb = s \/ proc' = NoProc) => (Forsaken(r)' => Forsaken(r))
  BY <1>6, NoProcFacts DEF Forsaken, At
<1>7. \A pc : Goto(pc) => proc'.op = "DEL" /\ proc'.sb = s /\ proc'.pc = pc
  BY <1>0, <1>1, <1>2, GotoFacts
<1>8. DelFails => proc' = NoProc /\ sb' = sb
  BY DEF DelFails
<1>9. DelOK => /\ proc' = NoProc /\ sb' = [sb EXCEPT ![s] = "stopped"]
               /\ \A r \in Sandbox \ {s} : sb'[r] = sb[r]
               /\ sb'[s] = "stopped" /\ \A r \in Sandbox : sb'[r] = "none" => sb[r] = "none"
  BY <1>0, <1>1, <1>2 DEF DelOK, SbShape
<1>10. ASSUME \A r \in Sandbox : HasForward(r)' => HasForward(r) \/ (r = s /\ PortMaps[PodOf[s]] # <<>>),
              sb' = sb \/ DelOK,
              proc'.pc = "clear" /\ proc'.op = "DEL" => PortMaps[PodOf[s]] # <<>> /\ proc'.sb = s
       PROVE  ForwardFresh'
  <2>1. \A r \in Sandbox : sb'[r] = "none" => sb[r] = "none"
    BY <1>9, <1>10
  <2> QED BY <1>2, <1>10, <2>1 DEF ForwardFresh, At
<1>11. ASSUME UNCHANGED <<chains, nat>>
       PROVE  \A r : (HasForward(r)' <=> HasForward(r)) /\ Entries(r)' = Entries(r)
  BY <1>11, ForwardSame
<1>12. CASE getPodNetworkRecord
  <2>1. UNCHANGED <<rec, chains, nat>> /\ proc.pc = "get"
    BY <1>12 DEF getPodNetworkRecord, natVars, At
  <2>2. ~Cleaning(s)
    BY <1>5, <2>1
  <2>3. /\ sb' = sb \/ DelOK
        /\ proc' = NoProc \/ (proc'.sb = s /\ proc'.pc \in {"rules", "portmap"})
    BY <1>1, <1>7, <1>9, <1>12, GetFacts
  <2>4. \A r \in Sandbox \ {s} : Forsaken(r)' => Forsaken(r)
    BY <1>9, <2>1, <2>3, NoProcFacts DEF Forsaken, At
  <2>5. ForwardFresh'
    BY <1>10, <1>11, <2>1, <2>3, NoProcFacts
  <2>6. Abandoned' \subseteq Abandoned \cup {s}
    BY <1>5, <1>11, <2>1, <2>4, AbandonedWithin
  <2>7. CASE Fault("lookup")
    BY <1>4, <2>5, <2>6, <2>7, ForwardBudgetStep
  <2>8. CASE sb' = sb \/ rec[s] = None
    <3>1. Forsaken(s)' => Forsaken(s)
      BY <1>2, <2>1, <2>3, <2>8, NoProcFacts DEF Forsaken, At
    <3>2. Abandoned' \subseteq Abandoned \cup {}
      BY <1>5, <1>11, <2>1, <2>2, <2>4, <3>1, AbandonedWithin
    <3> QED BY <1>3, <2>5, <3>2, ForwardBudgetStep
  <2> QED BY <1>1, <1>12, <2>7, <2>8 DEF getPodNetworkRecord
<1>13. CASE cleanUpIPRoutePolicy \/ releasePodIp
  <2>1. UNCHANGED <<rec, chains, nat>> /\ proc.pc \in {"rules", "release"}
    BY <1>13 DEF cleanUpIPRoutePolicy, releasePodIp, natVars, At
  <2>2. sb' = sb /\ (proc' = NoProc \/ (proc'.sb = s /\ proc'.pc \in {"release", "record"}))
    BY <1>7, <1>8, <1>13, RulesFacts, ReleaseFacts
  <2>3. \A r \in Sandbox : (Forsaken(r)' => Forsaken(r)) /\ ~Cleaning(r)
    BY <1>5, <2>1, <2>2, NoProcFacts DEF Forsaken, At
  <2>4. Abandoned' \subseteq Abandoned \cup {}
    BY <1>11, <2>1, <2>3, AbandonedWithin
  <2>5. ForwardFresh'
    BY <1>10, <1>11, <2>1, <2>2, NoProcFacts
  <2> QED BY <1>3, <2>4, <2>5, ForwardBudgetStep
<1>14. CASE delPodNetworkRecord
  <2>1. UNCHANGED <<sb, chains, nat>> /\ proc.pc = "record" /\ Goto("portmap") /\ \A r \in Sandbox \ {s} : rec'[r] = rec[r]
    BY <1>0, <1>1, <1>14, DelRecordFacts DEF delPodNetworkRecord, natVars, At, BookShape
  <2>2. proc'.op = "DEL" /\ proc'.sb = s /\ proc'.pc = "portmap"
    BY <1>7, <2>1
  <2>3. \A r \in Sandbox \ {s} : Forsaken(r)' => Forsaken(r)
    BY <2>1, <2>2 DEF Forsaken, At
  <2>4. Cleaning(s)'
    BY <2>2 DEF Cleaning
  <2>5. Abandoned' \subseteq Abandoned \cup {}
    BY <1>5, <1>11, <2>1, <2>3, <2>4, AbandonedWithin
  <2>6. ForwardFresh'
    BY <1>10, <1>11, <2>1, <2>2
  <2> QED BY <1>3, <2>5, <2>6, ForwardBudgetStep
<1>15. CASE portmapCmdDel
  <2>1. UNCHANGED <<rec, chains, nat, sb>> /\ proc.pc = "portmap"
    BY <1>8, <1>15 DEF portmapCmdDel, unforwardPorts, maybeGetIptables, natVars, At
  <2>2. \/ PortMaps[PodOf[s]] = <<>> /\ Goto("iface")
        \/ PortMaps[PodOf[s]] # <<>> /\ Goto("clear")
        \/ Fault("iptables") /\ (DelFails \/ Goto("iface"))
    BY <1>1, <1>15 DEF portmapCmdDel, unforwardPorts, maybeGetIptables, ThisPod
  <2>3. proc' = NoProc \/ proc'.sb = s
    BY <1>7, <1>8, <2>2
  <2>4. \A r \in Sandbox \ {s} : (Forsaken(r)' => Forsaken(r)) /\ ~Cleaning(r)
    BY <1>5, <1>6, <2>1, <2>3
  <2>5. ForwardFresh'
    <3>1. proc'.pc = "clear" => PortMaps[PodOf[s]] # <<>> /\ proc'.sb = s
      BY <1>7, <1>8, <2>2, NoProcFacts
    <3> QED BY <1>10, <1>11, <2>1, <3>1
  <2>6. Abandoned' \subseteq Abandoned \cup {s}
    BY <1>11, <2>1, <2>4, AbandonedWithin
  <2>7. CASE Fault("iptables")
    BY <1>4, <2>5, <2>6, <2>7, ForwardBudgetStep
  <2>8. CASE PortMaps[PodOf[s]] = <<>>
    <3>1. ~HasForward(s)'
      BY <1>11, <2>1, <2>8 DEF ForwardFresh
    <3>2. Abandoned' \subseteq Abandoned \cup {}
      BY <1>11, <2>1, <2>4, <3>1, AbandonedWithin
    <3> QED BY <1>3, <2>5, <3>2, ForwardBudgetStep
  <2>9. CASE Goto("clear")
    <3>1. Cleaning(s)'
      BY <1>7, <2>9 DEF Cleaning
    <3>2. Abandoned' \subseteq Abandoned \cup {}
      BY <1>11, <2>1, <2>4, <3>1, AbandonedWithin
    <3> QED BY <1>3, <2>5, <3>2, ForwardBudgetStep
  <2> QED BY <2>2, <2>7, <2>8, <2>9
<1>16. CASE ClearChain
  <2>1. UNCHANGED <<rec, sb>> /\ proc.pc = "clear"
    BY <1>8, <1>16 DEF ClearChain, At
  <2>2. \/ /\ chains' = chains \cup {s} /\ nat' = [nat EXCEPT ![s] = <<>>] /\ Goto("unlink")
        \/ Fault("iptables") /\ DelFails /\ UNCHANGED <<chains, nat>>
    BY <1>1, <1>16 DEF ClearChain, natVars
  <2>3. proc' = NoProc \/ (proc'.sb = s /\ proc'.pc = "unlink")
    BY <1>7, <1>8, <2>2
  <2>4. \A r \in Sandbox \ {s} : (Forsaken(r)' => Forsaken(r)) /\ ~Cleaning(r)
    BY <1>5, <1>6, <2>1, <2>3
  <2>5. \A r \in Sandbox \ {s} : HasForward(r)' => HasForward(r)
    <3>1. CASE UNCHANGED <<chains, nat>>
      BY <3>1, <1>11
    <3>2. CASE chains' = chains \cup {s} /\ nat' = [nat EXCEPT ![s] = <<>>]
      <4>1. nat'["TOP"] = nat["TOP"]
        BY <3>2, Names DEF NatShape
      <4> QED BY <3>2, <4>1 DEF HasForward, Entries
    <3> QED BY <2>2, <3>1, <3>2
  <2>6. ForwardFresh'
    <3>1. PortMaps[PodOf[s]] # <<>>
      BY <1>1, <1>2, <2>1 DEF ForwardFresh, At
    <3> QED BY <1>10, <2>1, <2>3, <2>5, <3>1, NoProcFacts
  <2>7. CASE Fault("iptables")
    <3>1. Abandoned' \subseteq Abandoned \cup {s}
      BY <2>4, <2>5, AbandonedWithin
    <3> QED BY <1>4, <2>6, <2>7, <3>1, ForwardBudgetStep
  <2>8. CASE Goto("unlink")
    <3>1. Cleaning(s)'
      BY <1>7, <2>8 DEF Cleaning
    <3>2. Abandoned' \subseteq Abandoned \cup {}
      BY <2>4, <2>5, <3>1, AbandonedWithin
    <3> QED BY <1>3, <2>6, <3>2, ForwardBudgetStep
  <2> QED BY <2>2, <2>7, <2>8
<1>17. CASE DeleteEntries
  <2>1. UNCHANGED <<rec, sb>> /\ proc.pc = "unlink"
    BY <1>8, <1>17 DEF DeleteEntries, At
  <2>2. UNCHANGED chains /\ \A r : Entries(r)' \subseteq Entries(r)
    BY <1>17, ForwardUnlink
  <2>3. \/ proc' = proc
        \/ Entries(s) = {} /\ Goto("chain")
        \/ Fault("iptables") /\ (DelFails \/ Goto("chain"))
    BY <1>1, <1>17 DEF DeleteEntries
  <2>4. proc' = NoProc \/ (proc'.sb = s /\ proc'.pc \in {"unlink", "chain"})
    BY <1>1, <1>7, <1>8, <2>1, <2>3
  <2>5. \A r \in Sandbox \ {s} : (Forsaken(r)' => Forsaken(r)) /\ ~Cleaning(r)
    BY <1>5, <1>6, <2>1, <2>4
  <2>6. \A r : HasForward(r)' => HasForward(r)
    BY <2>2 DEF HasForward
  <2>7. ForwardFresh'
    BY <1>10, <2>1, <2>4, <2>6, NoProcFacts
  <2>8. CASE Fault("iptables")
    <3>1. Abandoned' \subseteq Abandoned \cup {s}
      BY <2>5, <2>6, AbandonedWithin
    <3> QED BY <1>4, <2>7, <2>8, <3>1, ForwardBudgetStep
  <2>9. CASE proc' = proc \/ (Entries(s) = {} /\ Goto("chain"))
    <3>1. Cleaning(s)'
      BY <1>1, <1>2, <1>7, <2>1, <2>2, <2>9 DEF Cleaning
    <3>2. Abandoned' \subseteq Abandoned \cup {}
      BY <2>5, <2>6, <3>1, AbandonedWithin
    <3> QED BY <1>3, <2>7, <3>2, ForwardBudgetStep
  <2> QED BY <2>3, <2>8, <2>9
<1>18. CASE DeleteChain
  <2>1. UNCHANGED <<rec, sb, nat>> /\ proc.pc = "chain"
    BY <1>8, <1>18 DEF DeleteChain, At
  <2>2. \/ Entries(s) = {} /\ chains' = chains \ {s} /\ (Goto("iface") \/ DelFails)
        \/ Entries(s) # {} /\ DelFails /\ UNCHANGED chains
        \/ Fault("iptables") /\ DelFails /\ UNCHANGED chains
    BY <1>1, <1>18 DEF DeleteChain
  <2>3. proc' = NoProc \/ (proc'.sb = s /\ proc'.pc = "iface")
    BY <1>7, <1>8, <2>2
  <2>4. \A r \in Sandbox \ {s} : (Forsaken(r)' => Forsaken(r)) /\ ~Cleaning(r)
    BY <1>5, <1>6, <2>1, <2>3
  <2>5. \A r : HasForward(r)' => HasForward(r)
    BY <2>1, <2>2 DEF HasForward, Entries
  <2>6. ForwardFresh'
    BY <1>10, <2>1, <2>3, <2>5, NoProcFacts
  <2>7. CASE Fault("iptables") /\ DelFails
    <3>1. Abandoned' \subseteq Abandoned \cup {s}
      BY <2>4, <2>5, AbandonedWithin
    <3> QED BY <1>4, <2>6, <2>7, <3>1, ForwardBudgetStep
  <2>8. CASE Entries(s) = {} /\ chains' = chains \ {s}
    <3>1. ~HasForward(s)'
      BY <2>1, <2>8 DEF HasForward, Entries
    <3>2. Abandoned' \subseteq Abandoned \cup {}
      BY <2>4, <2>5, <3>1, AbandonedWithin
    <3> QED BY <1>3, <2>6, <3>2, ForwardBudgetStep
  <2>9. CASE Entries(s) # {} /\ DelFails
    <3>1. ~Cleaning(s) /\ (Forsaken(s)' => Forsaken(s))
      BY <1>2, <1>5, <1>8, <2>1, <2>9, NoProcFacts DEF Forsaken, At
    <3>2. Abandoned' \subseteq Abandoned \cup {}
      BY <2>4, <2>5, <3>1, AbandonedWithin
    <3> QED BY <1>3, <2>6, <3>2, ForwardBudgetStep
  <2> QED BY <2>2, <2>7, <2>8, <2>9
<1>19. CASE DelInterface
  <2>1. UNCHANGED <<rec, chains, nat>> /\ proc.pc = "iface"
    BY <1>19 DEF DelInterface, natVars, At
  <2>2. proc' = NoProc /\ (sb' = sb \/ DelOK)
    BY <1>8, <1>9, <1>19, IfaceFacts
  <2>3. \A r \in Sandbox : (Forsaken(r)' => Forsaken(r)) /\ ~Cleaning(r)
    BY <1>1, <1>2, <1>5, <1>9, <2>1, <2>2, NoProcFacts DEF Forsaken, At
  <2>4. Abandoned' \subseteq Abandoned \cup {}
    BY <1>11, <2>1, <2>3, AbandonedWithin
  <2>5. ForwardFresh'
    BY <1>10, <1>11, <2>1, <2>2, NoProcFacts
  <2> QED BY <1>3, <2>4, <2>5, ForwardBudgetStep
<1> QED BY <1>12, <1>13, <1>14, <1>15, <1>16, <1>17, <1>18, <1>19 DEF DelStep

LEMMA ForwardNode ==
  ASSUME Shape, NatShape, ForwardFresh, LostShape, ForwardBudget,
         \/ UNCHANGED vars \/ Kill \/ Reboot \/ KubeProxyStarts
         \/ \E s \in Sandbox : StartAdd(s) \/ StartDel(s) \/ ReconcileDelete(s) \/ RemoveNetns(s)
  PROVE  ForwardFresh' /\ ForwardBudget'
<1>0. ProcShape /\ SbShape /\ BookShape
  BY ShapeParts
<1>1. [Next]_vars /\ lost' \in {lost, lost + 1}
  BY LostKeeps DEF Next
<1>2. CASE Reboot
  <2>1. chains' = Builtin /\ nat' = [c \in Chain |-> <<>>] /\ proc' = NoProc
    BY <1>2 DEF Reboot
  <2>2. nat'["TOP"] = <<>> /\ \A s \in Sandbox : s \notin chains'
    BY <2>1, Names DEF Common
  <2>3. \A s \in Sandbox : ~HasForward(s)'
    BY <2>2 DEF HasForward, Entries, ToSet
  <2>4. Abandoned' \subseteq Abandoned \cup {}
    BY <2>3, AbandonedWithin
  <2>5. ForwardFresh'
    BY <2>1, <2>3, NoProcFacts DEF ForwardFresh, At
  <2> QED BY <1>1, <2>4, <2>5, ForwardBudgetStep
<1>3. CASE Kill
  <2>1. UNCHANGED <<rec, chains, nat>> /\ proc' = NoProc
    BY <1>3 DEF Kill, natVars, AddFails, DelFails
  <2>2. PICK x : x = proc.sb
    OBVIOUS
  <2>3. \A s \in Sandbox : (sb'[s] = "none" => sb[s] = "none") /\ (sb'[s] \in {"stopped", "gone"} => sb[s] = sb'[s])
    BY <1>0, <1>3, KillFacts DEF AddFails, DelFails, SbShape, ProcShape
  <2>4. \A r : HasForward(r)' <=> HasForward(r)
    BY <2>1, ForwardSame
  <2>5. \A s \in Sandbox : Forsaken(s)' => Forsaken(s)
    BY <2>1, <2>3, NoProcFacts DEF Forsaken, At
  <2>6. \A s \in Sandbox \ {x} : ~Cleaning(s)
    BY <2>2 DEF Cleaning
  <2>7. Abandoned' \subseteq Abandoned \cup {x}
    BY <2>4, <2>5, <2>6, AbandonedWithin
  <2>8. ForwardFresh'
    BY <2>1, <2>3, <2>4, NoProcFacts DEF ForwardFresh, At
  <2>9. CASE proc.op = "DEL"
    <3>1. lost' = lost + 1
      BY <1>3, <2>9 DEF Kill, Fault
    <3> QED BY <2>7, <2>8, <3>1, ForwardBudgetStep
  <2>10. CASE proc.op # "DEL"
    <3>1. \A s \in Sandbox : ~Cleaning(s)
      BY <2>10 DEF Cleaning
    <3>2. Abandoned' \subseteq Abandoned \cup {}
      BY <2>4, <2>5, <3>1, AbandonedWithin
    <3> QED BY <1>1, <2>8, <3>2, ForwardBudgetStep
  <2> QED BY <2>9, <2>10
<1>4. CASE KubeProxyStarts
  <2>1. UNCHANGED <<nat, sb, rec, proc>> /\ chains' = chains \cup {"KUBE-MARK-MASQ"}
    BY <1>4, ProxyFacts DEF KubeProxyStarts
  <2>2. "KUBE-MARK-MASQ" \notin Sandbox
    BY Names DEF Common
  <2>3. \A s \in Sandbox : Entries(s)' = Entries(s) /\ (HasForward(s)' <=> HasForward(s))
    BY <2>1, <2>2 DEF HasForward, Entries
  <2>4. \A s \in Sandbox : (Forsaken(s)' <=> Forsaken(s)) /\ (Cleaning(s)' <=> Cleaning(s))
    BY <2>1, <2>3 DEF Forsaken, Cleaning, At
  <2>5. Abandoned' \subseteq Abandoned \cup {}
    BY <2>3, <2>4, AbandonedWithin
  <2>6. proc.op = "ADD" => proc.sb \in Sandbox
    BY <1>0 DEF ProcShape
  <2>7. ForwardFresh'
    BY <2>1, <2>3, <2>6 DEF ForwardFresh, At
  <2> QED BY <1>1, <2>5, <2>7, ForwardBudgetStep
<1>5. CASE UNCHANGED vars
  <2>1. UNCHANGED <<chains, nat, sb, rec, proc>>
    BY <1>5 DEF vars, kubeVars, natVars
  <2>2. \A s : Entries(s)' = Entries(s) /\ (HasForward(s)' <=> HasForward(s))
    BY <2>1, ForwardSame
  <2>3. \A s \in Sandbox : (Forsaken(s)' <=> Forsaken(s)) /\ (Cleaning(s)' <=> Cleaning(s))
    BY <2>1, <2>2 DEF Forsaken, Cleaning, At
  <2>4. Abandoned' \subseteq Abandoned \cup {}
    BY <2>2, <2>3, AbandonedWithin
  <2>5. ForwardFresh'
    BY <2>1, <2>2 DEF ForwardFresh, At
  <2> QED BY <1>1, <2>4, <2>5, ForwardBudgetStep
<1>6. CASE \E s \in Sandbox : StartAdd(s) \/ StartDel(s)
  <2>0. PICK s \in Sandbox : StartAdd(s) \/ StartDel(s)
    BY <1>6
  <2>1. UNCHANGED <<rec, chains, nat>> /\ proc = NoProc
    BY <2>0 DEF StartAdd, StartDel, natVars
  <2>2. /\ proc'.sb = s /\ proc'.pc \notin {"clear", "iface"}
        /\ proc'.op = "ADD" => sb[s] = "none"
        /\ \A r \in Sandbox : (sb'[r] = "none" => sb[r] = "none") /\ (sb'[r] \in {"stopped", "gone"} => sb[r] = sb'[r])
    BY <1>0, <2>0, StartAddFacts, StartDelFacts DEF SbShape
  <2>3. \A r : HasForward(r)' <=> HasForward(r)
    BY <2>1, ForwardSame
  <2>4. \A r \in Sandbox : (Forsaken(r)' => Forsaken(r)) /\ ~Cleaning(r)
    BY <2>1, <2>2, NoProcFacts DEF Forsaken, Cleaning, At
  <2>5. Abandoned' \subseteq Abandoned \cup {}
    BY <2>3, <2>4, AbandonedWithin
  <2>6. ForwardFresh'
    BY <2>2, <2>3 DEF ForwardFresh, At
  <2> QED BY <1>1, <2>5, <2>6, ForwardBudgetStep
<1>7. CASE \E s \in Sandbox : ReconcileDelete(s)
  <2>0. PICK s \in Sandbox : ReconcileDelete(s)
    BY <1>7
  <2>1. UNCHANGED <<chains, nat, proc>> /\ lost' = lost + 1
    BY <2>0 DEF ReconcileDelete, natVars, Fault
  <2>2. /\ \A r \in Sandbox : (sb'[r] = "none" => sb[r] = "none") /\ (sb'[r] \in {"stopped", "gone"} => sb[r] = sb'[r])
        /\ \A r \in Sandbox \ {s} : rec'[r] = rec[r]
    BY <1>0, <2>0, ReconcileFacts DEF SbShape, BookShape
  <2>3. \A r : Entries(r)' = Entries(r) /\ (HasForward(r)' <=> HasForward(r))
    BY <2>1, ForwardSame
  <2>4. \A r \in Sandbox \ {s} : (Forsaken(r)' => Forsaken(r)) /\ (Cleaning(r)' <=> Cleaning(r))
    BY <2>1, <2>2, <2>3 DEF Forsaken, Cleaning, At
  <2>5. Abandoned' \subseteq Abandoned \cup {s}
    BY <2>3, <2>4, AbandonedWithin
  <2>6. ForwardFresh'
    BY <2>1, <2>2, <2>3 DEF ForwardFresh, At
  <2> QED BY <2>1, <2>5, <2>6, ForwardBudgetStep
<1>8. CASE \E s \in Sandbox : RemoveNetns(s)
  <2>0. PICK s \in Sandbox : RemoveNetns(s)
    BY <1>8
  <2>1. UNCHANGED <<chains, nat, proc, rec>>
    BY <2>0 DEF RemoveNetns, natVars
  <2>2. /\ sb[s] = "stopped" /\ sb'[s] = "gone"
        /\ \A r \in Sandbox \ {s} : sb'[r] = sb[r]
    BY <1>0, <2>0, NetnsFacts DEF SbShape
  <2>3. \A r : Entries(r)' = Entries(r) /\ (HasForward(r)' <=> HasForward(r))
    BY <2>1, ForwardSame
  <2>4. \A r \in Sandbox : (Forsaken(r)' => Forsaken(r)) /\ (Cleaning(r)' <=> Cleaning(r))
    BY <2>1, <2>2, <2>3 DEF Forsaken, Cleaning, At
  <2>5. Abandoned' \subseteq Abandoned \cup {}
    BY <2>3, <2>4, AbandonedWithin
  <2>6. ForwardFresh'
    BY <2>1, <2>2, <2>3 DEF ForwardFresh, At
  <2> QED BY <1>1, <2>5, <2>6, ForwardBudgetStep
<1> QED BY <1>2, <1>3, <1>4, <1>5, <1>6, <1>7, <1>8

LEMMA ForwardKeeps ==
  ASSUME Shape, CountShape, NatShape, RecordInv, ForwardFresh, LostShape, ForwardBudget, [Next]_vars
  PROVE  ForwardFresh' /\ ForwardBudget'
<1>1. CASE AddStep
  BY <1>1, ForwardAdd
<1>2. CASE DelStep
  BY <1>2, ForwardDel
<1>3. CASE \/ UNCHANGED vars \/ Kill \/ Reboot \/ KubeProxyStarts
           \/ \E s \in Sandbox : StartAdd(s) \/ StartDel(s) \/ ReconcileDelete(s) \/ RemoveNetns(s)
  BY <1>3, ForwardNode
<1> QED BY <1>1, <1>2, <1>3 DEF Next

----------------------------------------------------------------------------
(* No table is named twice in the rules from an address.                   *)
SrcOnce == \A a \in Addr : IsInjective(src[a])

OnceFrom(t, s, i) == IsInjective(t) /\ \A k \in DOMAIN t : \E j \in i .. Len(s) : t[k] = s[j]

LEMMA SuffixOnce ==
  ASSUME NEW s \in Seq(Uni), IsInjective(s), NEW i \in 1 .. Len(s), NEW t, t = SubSeq(s, i, Len(s))
  PROVE  OnceFrom(t, s, i)
<1>1. /\ t \in Seq(Uni) /\ Len(t) = Len(s) - i + 1
      /\ \A j \in 1 .. Len(s) - i + 1 : t[j] = s[i + j - 1]
  <2>1. i \in Int /\ Len(s) \in Int /\ \A j \in i .. Len(s) : s[j] \in Uni
    OBVIOUS
  <2> QED BY <2>1, SubSeqProperties
<1>2. i \in Nat /\ i <= Len(s) /\ 1 <= i /\ Len(s) \in Nat /\ DOMAIN t = 1 .. Len(s) - i + 1 /\ DOMAIN s = 1 .. Len(s)
  BY <1>1
<1>3. \A j, k \in 1 .. Len(s) : s[j] = s[k] => j = k
  BY <1>2 DEF IsInjective
<1>4. \A j \in DOMAIN t : i + j - 1 \in i .. Len(s) /\ i + j - 1 \in 1 .. Len(s) /\ t[j] = s[i + j - 1]
  BY <1>1, <1>2
<1>5. \A j, k \in DOMAIN t : t[j] = t[k] => j = k
  BY <1>2, <1>3, <1>4
<1> QED BY <1>4, <1>5 DEF OnceFrom, IsInjective

LEMMA ScannedOnce ==
  ASSUME NEW a, NEW u \in Uni, src[a] \in Seq(Uni), IsInjective(src[a])
  PROVE  /\ IsInjective(Scanned(a, u))
         /\ src[a] # <<>> /\ Head(src[a]) # u => IsInjective(<<Head(src[a])>> \o Scanned(a, u))
<1>1. PICK s : s = src[a]
  OBVIOUS
<1>2. PICK t : t = Scanned(a, u)
  OBVIOUS
<1>3. s \in Seq(Uni) /\ IsInjective(s) /\ t \in Seq(Uni)
  BY <1>1, <1>2, ScannedFacts
<1>4. IsInjective(t) /\ (s # <<>> /\ Head(s) # u => ~Contains(t, Head(s)))
  <2>1. CASE ~Contains(s, u)
    <3>1. t = <<u>>
      BY <1>1, <1>2, <2>1 DEF Scanned
    <3> QED BY <3>1 DEF IsInjective, Contains
  <2>2. CASE Contains(s, u)
    <3>1. PICK I : I = {i \in 1 .. Len(s) : s[i] = u}
      OBVIOUS
    <3>2. I # {} /\ I \subseteq Nat
      BY <2>2, <3>1 DEF Contains
    <3>3. PICK m \in I : \A y \in I : m <= y
      BY <3>2, Least
    <3>4. Min(I) \in I
      BY <3>3 DEF Min
    <3>5. SelectInSeq(s, LAMBDA v : v = u) = Min(I)
      BY <3>1, <3>2 DEF SelectInSeq
    <3>6. PICK i \in 1 .. Len(s) : i = Min(I) /\ s[i] = u
      BY <3>1, <3>4
    <3>7. t = SubSeq(s, i, Len(s))
      BY <1>1, <1>2, <2>2, <3>5, <3>6 DEF Scanned
    <3>8. IsInjective(t) /\ \A k \in DOMAIN t : \E j \in i .. Len(s) : t[k] = s[j]
      <4>1. OnceFrom(t, s, i)
        BY <1>3, <3>6, <3>7, SuffixOnce
      <4> QED BY <4>1 DEF OnceFrom
    <3>9. ASSUME s # <<>>, Head(s) # u, Contains(t, Head(s)) PROVE FALSE
      <4>1. Head(s) = s[1] /\ DOMAIN s = 1 .. Len(s) /\ DOMAIN t = 1 .. Len(t)
        BY <1>3, <3>9
      <4>2. PICK j \in i .. Len(s) : s[j] = s[1]
        BY <3>8, <3>9, <4>1 DEF Contains
      <4>3. i # 1
        BY <3>6, <3>9, <4>1
      <4>4. j # 1 /\ j \in 1 .. Len(s) /\ 1 \in 1 .. Len(s)
        BY <3>6, <4>2, <4>3
      <4> QED BY <1>3, <4>1, <4>2, <4>4 DEF IsInjective
    <3> QED BY <3>8, <3>9
  <2> QED BY <2>1, <2>2
<1>5. ASSUME s # <<>>, Head(s) # u PROVE IsInjective(<<Head(s)>> \o t)
  <2>1. PICK h : h = Head(s)
    OBVIOUS
  <2>2. h \in Uni
    BY <1>3, <1>5, <2>1
  <2>3. IsInjective(<<h>> \o t)
    BY <1>3, <1>4, <1>5, <2>1, <2>2, Extended
  <2> QED BY <2>1, <2>3
<1> QED BY <1>1, <1>2, <1>4, <1>5

LEMMA SrcOnceKeeps ==
  ASSUME Shape, SrcOnce, [Next]_vars
  PROVE  SrcOnce'
<1>0. ProcShape /\ RuleShape
  BY ShapeParts
<1>1. ASSUME \A a \in Addr : src'[a] = src[a] PROVE SrcOnce'
  BY <1>1 DEF SrcOnce
<1>2. IsInjective(<<>>)
  BY DEF IsInjective
<1>3. ASSUME NEW ip \in Addr, NEW t, src' = [src EXCEPT ![ip] = t], IsInjective(t) PROVE SrcOnce'
  <2>1. \A a \in Addr : src'[a] = IF a = ip THEN t ELSE src[a]
    BY <1>0, <1>3 DEF RuleShape
  <2> QED BY <1>3, <2>1 DEF SrcOnce
<1>4. CASE PodSrcRule
  <2>1. PICK a \in Addr : a = proc.ip
    BY <1>4, SrcFacts
  <2>2. PICK u \in Uni : u = proc.nic
    BY <1>4, SrcFacts
  <2>3. src[a] \in Seq(Uni) /\ IsInjective(src[a])
    BY <1>0 DEF RuleShape, SrcOnce
  <2>4. PICK w : w = Scanned(a, u)
    OBVIOUS
  <2>5. IsInjective(w) /\ (src[a] # <<>> /\ Head(src[a]) # u => IsInjective(<<Head(src[a])>> \o w))
    BY <2>3, <2>4, ScannedOnce
  <2>6. \/ src' = [src EXCEPT ![a] = w]
        \/ src[a] # <<>> /\ Head(src[a]) # u /\ src' = [src EXCEPT ![a] = <<Head(src[a])>> \o w]
        \/ \E left \in {src[a], IF Contains(src[a], u) THEN w ELSE <<>>} : src' = [src EXCEPT ![a] = left]
    BY <1>4, <2>1, <2>2, <2>4 DEF PodSrcRule, ensureSrcIPRoutePolicy, SrcFails
  <2>7. CASE \E left \in {src[a], IF Contains(src[a], u) THEN w ELSE <<>>} : src' = [src EXCEPT ![a] = left]
    <3>1. PICK left \in {src[a], IF Contains(src[a], u) THEN w ELSE <<>>} : src' = [src EXCEPT ![a] = left]
      BY <2>7
    <3>2. left = src[a] \/ left = w \/ left = <<>>
      BY <3>1
    <3>3. IsInjective(left)
      BY <1>2, <2>3, <2>5, <3>2
    <3> QED BY <1>3, <3>1, <3>3
  <2>8. CASE src[a] # <<>> /\ Head(src[a]) # u /\ src' = [src EXCEPT ![a] = <<Head(src[a])>> \o w]
    <3>1. PICK t : t = <<Head(src[a])>> \o w
      OBVIOUS
    <3>2. IsInjective(t) /\ src' = [src EXCEPT ![a] = t]
      BY <2>5, <2>8, <3>1
    <3> QED BY <1>3, <3>2
  <2> QED BY <1>3, <2>5, <2>6, <2>7, <2>8
<1>5. CASE cleanUpIPRoutePolicy
  <2>1. PICK a \in Addr : a = proc.ip
    BY <1>5, RulesFacts
  <2>2. src[a] \in Seq(Uni) /\ IsInjective(src[a])
    BY <1>0 DEF RuleShape, SrcOnce
  <2>3. \/ src' = [src EXCEPT ![a] = <<>>]
        \/ UNCHANGED src
        \/ \E left \in Suffixes(src[a]) : src' = [src EXCEPT ![a] = left]
    BY <1>5, <2>1 DEF cleanUpIPRoutePolicy, ruleVars
  <2>4. ASSUME NEW left \in Suffixes(src[a]) PROVE IsInjective(left)
    <3>1. left = <<>> \/ \E l \in 1 .. Len(src[a]) : left = SubSeq(src[a], l, Len(src[a]))
      BY <2>4 DEF Suffixes
    <3>2. ASSUME NEW l \in 1 .. Len(src[a]), left = SubSeq(src[a], l, Len(src[a])) PROVE IsInjective(left)
      BY <2>2, <3>2, SuffixOnce DEF OnceFrom
    <3> QED BY <1>2, <3>1, <3>2
  <2> QED BY <1>1, <1>2, <1>3, <2>3, <2>4
<1>6. CASE Reboot
  BY <1>2, <1>6, RebootFacts DEF SrcOnce
<1>7. CASE AddStep /\ ~PodSrcRule
  <2>1. CASE ensureUNIPrimaryIPRoute
    <3>1. PICK v : src' = [src EXCEPT ![proc.nic] = v] \/ src' = src
      BY <2>1, PrimaryFacts
    <3>2. proc.nic \notin Addr
      BY <2>1, PrimaryFacts, Consts
    <3> QED BY <1>0, <1>1, <3>1, <3>2 DEF RuleShape
  <2> QED BY <1>1, <1>7, <2>1, UniStepFacts, NetworkingFacts, AssignFailsFacts, AssignFacts, CleanFacts,
            PairFacts, RouteFacts, DstFacts, RangeFacts, RollbackFacts, RecordFacts, PortFacts DEF AddStep
<1>8. CASE DelStep /\ ~cleanUpIPRoutePolicy
  BY <1>1, <1>8, GetFacts, ReleaseFacts, DelRecordFacts, TeardownFacts, IfaceFacts DEF DelStep, Teardown
<1>9. CASE \/ UNCHANGED vars \/ Kill \/ KubeProxyStarts
           \/ \E s \in Sandbox : StartAdd(s) \/ StartDel(s) \/ ReconcileDelete(s) \/ RemoveNetns(s)
  BY <1>1, <1>9, KillFacts, ProxyFacts, StartAddFacts, StartDelFacts, ReconcileFacts, NetnsFacts
     DEF vars, ruleVars
<1> QED BY <1>4, <1>5, <1>6, <1>7, <1>8, <1>9 DEF Next

----------------------------------------------------------------------------
(* What is left behind, and the types.                                     *)

RestInv ==
  /\ RecordInv /\ RuleBudget
  /\ CountShape /\ NatShape /\ Cleared /\ SrcOnce
  /\ ForwardFresh /\ LostShape /\ ForwardBudget
  /\ external \in BOOLEAN

LEMMA InitRest == Init => RestInv
<1> SUFFICES ASSUME Init PROVE RestInv
  OBVIOUS
<1>1. RecordInv
  BY NoProcFacts, Consts DEF Init, RecordInv, At
<1>2. CountShape /\ Cleared
  BY NoProcFacts DEF Init, CountShape, Cleared
<1>3. <<>> \in Seq(Rule) /\ IsInjective(<<>>)
  BY DEF IsInjective
<1>4. NatShape
  BY <1>3 DEF Init, NatShape, Chain, Common
<1>5. SrcOnce
  BY <1>3 DEF Init, SrcOnce
<1>6. LostShape
  BY HostAssumption DEF Init, LostShape
<1>7. \A s \in Sandbox : ~HasForward(s)
  <2>1. nat["TOP"] = <<>>
    BY Names DEF Init
  <2>2. \A s \in Sandbox : s \notin chains
    BY Names DEF Init, Common
  <2> QED BY <2>1, <2>2 DEF HasForward, Entries, ToSet
<1>8. ForwardFresh
  BY <1>7, NoProcFacts DEF Init, ForwardFresh, At
<1>9. Cardinality({}) = 0
  BY FS_EmptySet
<1>10. ForwardBudget
  <2>1. Abandoned = {}
    BY <1>7 DEF Abandoned
  <2> QED BY <1>9, <2>1 DEF Init, ForwardBudget
<1>11. RuleBudget
  <2>1. Charged = {}
    BY DEF Init, Charged, Ruled
  <2> QED BY <1>9, <2>1 DEF Init, RuleBudget
<1>12. external \in BOOLEAN
  BY DEF Init
<1> QED BY <1>1, <1>2, <1>4, <1>5, <1>6, <1>8, <1>10, <1>11, <1>12 DEF RestInv

LEMMA ConfigurationStays ==
  ASSUME [Next]_vars
  PROVE  external' = external
<1>1. CASE UNCHANGED vars
  BY <1>1 DEF vars
<1>2. CASE AddStep
  BY <1>2 DEF AddStep, ensureUNIPrimaryIPRoute, UniStep, initPodNetworking, assignFails, assignPodIp,
     checkAndCleanOldVeth, setupVethPair, addRouteRuleForPodIp, ensureDstIPRoutePolicy, PodSrcRule,
     setNodePortRange, rollbackReleaseIP, addPodNetworkRecord, portmapCmdAdd
<1>3. CASE DelStep
  BY <1>3 DEF DelStep, getPodNetworkRecord, cleanUpIPRoutePolicy, releasePodIp, delPodNetworkRecord,
     portmapCmdDel, ClearChain, DeleteEntries, DeleteChain, DelInterface
<1>4. CASE \/ Kill \/ Reboot \/ KubeProxyStarts
           \/ \E s \in Sandbox : StartAdd(s) \/ StartDel(s) \/ ReconcileDelete(s) \/ RemoveNetns(s)
  BY <1>4 DEF Kill, Reboot, KubeProxyStarts, StartAdd, StartDel, ReconcileDelete, RemoveNetns
<1> QED BY <1>1, <1>2, <1>3, <1>4 DEF Next

LEMMA StepRest == IInv /\ RestInv /\ [Next]_vars => RestInv'
<1> SUFFICES ASSUME IInv, RestInv, [Next]_vars PROVE RestInv'
  OBVIOUS
<1>0. Shape /\ Alone /\ FreshInv
  BY DEF IInv
<1>1. /\ RecordInv /\ RuleBudget /\ CountShape /\ NatShape /\ Cleared /\ SrcOnce
      /\ ForwardFresh /\ LostShape /\ ForwardBudget /\ external \in BOOLEAN
  BY DEF RestInv
<1>2. RecordInv' /\ RuleBudget'
  BY <1>0, <1>1, RecordKeeps, RuleBudgetKeeps
<1>3. CountShape' /\ NatShape' /\ Cleared' /\ SrcOnce'
  BY <1>0, <1>1, CountKeeps, NatKeeps, ClearedKeeps, SrcOnceKeeps
<1>4. ForwardFresh' /\ LostShape' /\ ForwardBudget'
  BY <1>0, <1>1, ForwardKeeps, LostKeeps
<1>5. (external \in BOOLEAN)'
  BY <1>1, ConfigurationStays
<1> QED BY <1>2, <1>3, <1>4, <1>5 DEF RestInv

LEMMA RestInvariant == Spec => [](IInv /\ RestInv)
<1>1. Init => IInv /\ RestInv
  BY InitIInv, InitRest
<1>2. (IInv /\ RestInv) /\ [Next]_vars => (IInv /\ RestInv)'
  BY StepIInv, StepRest
<1> QED BY <1>1, <1>2, PTL DEF Spec

(* Every variable keeps its type: the nat table has no rule twice and no   *)
(* rule in a chain that does not exist, the rules from an address name no  *)
(* table twice.                                                            *)
THEOREM HostTyped == Spec => []TypeOK
<1>1. IInv /\ RestInv => TypeOK
  <2> SUFFICES ASSUME IInv, RestInv PROVE TypeOK
    OBVIOUS
  <2>1. ProcShape /\ SbShape /\ BookShape /\ LinkShape /\ RuleShape /\ UniShape /\ HistoryShape
    BY ShapeParts DEF IInv
  <2>2. CountShape /\ NatShape /\ SrcOnce /\ LostShape /\ external \in BOOLEAN
    BY DEF RestInv
  <2>3. \A a \in Addr \cup Uni : src[a] \in Seq(Uni) /\ IsInjective(src[a])
    <3>1. ASSUME NEW u \in Uni, src[u] \in {<<>>, <<u>>} PROVE src[u] \in Seq(Uni) /\ IsInjective(src[u])
      <4>1. CASE src[u] = <<>>
        BY <4>1 DEF IsInjective
      <4>2. CASE src[u] = <<u>>
        <5>1. PICK v : v = <<u>>
          OBVIOUS
        <5>2. v \in Seq(Uni) /\ DOMAIN v = {1}
          BY <5>1
        <5>3. IsInjective(v)
          BY <5>2 DEF IsInjective
        <5> QED BY <4>2, <5>1, <5>2, <5>3
      <4> QED BY <3>1, <4>1, <4>2
    <3> QED BY <2>1, <2>2, <3>1 DEF RuleShape, SrcOnce
  <2>4. proc.op \in {"none", "ADD", "DEL"} /\ proc.sb \in Sandbox \cup {None}
    BY <2>1, NoProcFacts DEF ProcShape
  <2>5. proc.ip \in Addr \cup {None} /\ proc.nic \in Uni \cup {Master} /\ proc.k \in Nat \ {0}
    BY <2>2 DEF CountShape
  <2>6. faults \in 0 .. MaxFaults /\ lost \in 0 .. faults
    BY <2>2, HostAssumption DEF LostShape
  <2>7. chains \in SUBSET Chain /\ Builtin \subseteq chains
    BY <2>2 DEF NatShape
  <2>8. (\A c \in Chain : nat[c] \in Seq(Rule) /\ IsInjective(nat[c])) /\ \A c \in Chain \ chains : nat[c] = <<>>
    BY <2>2 DEF NatShape
  <2> QED BY <2>1, <2>2, <2>3, <2>4, <2>5, <2>6, <2>7, <2>8
          DEF TypeOK, SbShape, BookShape, LinkShape, RuleShape, UniShape, HistoryShape
<1> QED BY <1>1, RestInvariant, PTL

(* A sandbox that is torn down leaves port forwarding behind only when a   *)
(* fault of the kinds that LeftoverBound names has happened, one such      *)
(* fault for each, and an address keeps ip rules that no sandbox needs     *)
(* only at the cost of a fault for each.                                   *)
THEOREM LeftoversBounded == Spec => []LeftoverBound
<1>1. IInv /\ RestInv => LeftoverBound
  <2> SUFFICES ASSUME IInv, RestInv PROVE LeftoverBound
    OBVIOUS
  <2>1. ProcShape /\ LostShape /\ ForwardBudget /\ RuleBudget
    BY ShapeParts DEF IInv, RestInv
  <2>2. Cardinality(Leftover) <= lost
    <3>1. Leftover \subseteq Abandoned
      BY <2>1 DEF Leftover, Abandoned, HasForward, Forsaken, Cleaning, ProcShape
    <3>2. PICK W : W = Abandoned
      OBVIOUS
    <3>3. PICK V : V = Leftover
      OBVIOUS
    <3>4. IsFiniteSet(W) /\ Cardinality(W) <= lost /\ Cardinality(W) \in Nat /\ lost \in Nat
      BY <2>1, <3>2, AbandonedFinite DEF ForwardBudget, LostShape
    <3>5. Cardinality(V) <= Cardinality(W) /\ Cardinality(V) \in Nat
      BY <3>1, <3>2, <3>3, <3>4, FS_Subset, FS_CardinalityType
    <3>6. Cardinality(V) <= lost
      BY <3>4, <3>5
    <3> QED BY <3>3, <3>6
  <2>3. PICK V : V = {ip \in Addr : (ip \in dst \/ src[ip] # <<>>) /\ ~\E s \in Sandbox : own[s] = ip /\ sb[s] \in Live}
    OBVIOUS
  <2>4. Cardinality(V) <= faults
    <3>1. V \subseteq Charged
      BY <2>3 DEF Charged, Ruled, Kept
    <3>2. PICK W : W = Charged
      OBVIOUS
    <3>3. IsFiniteSet(W) /\ Cardinality(W) <= faults /\ Cardinality(W) \in Nat /\ faults \in Nat
      BY <2>1, <3>2, ChargedFinite DEF RuleBudget, LostShape
    <3>4. Cardinality(V) <= Cardinality(W) /\ Cardinality(V) \in Nat
      BY <3>1, <3>2, <3>3, FS_Subset, FS_CardinalityType
    <3> QED BY <3>3, <3>4
  <2> QED BY <2>2, <2>3, <2>4 DEF LeftoverBound
<1> QED BY <1>1, RestInvariant, PTL

----------------------------------------------------------------------------
(* The forwarding of a running sandbox.                                    *)

(* What the commands so far have put in place.                             *)
Done(c) == c.chain \in chains /\ (c.rule = NoRule \/ Contains(nat[c.chain], c.rule))
Program == forwardPorts(proc.sb, proc.ip)
Progress ==
  At("ADD", "portmap") => \A j \in 1 .. Len(Program) : j < proc.k => Done(Program[j])
RunProgram(s) == forwardPorts(s, net[s])
RunsForwarded ==
  \A s \in Sandbox : sb[s] = "running" => \A j \in 1 .. Len(RunProgram(s)) : Done(RunProgram(s)[j])

(* A chain leads to the address of its sandbox, behind the marks.          *)
MarkedRule(c, j) ==
  \E i, l \in 1 .. j - 1 :
    nat[c][i] = Mark(nat[c][j].on, nat[c][j].to) /\ nat[c][l] = Mark(nat[c][j].on, "localhost")
ChainInv ==
  \A s \in Sandbox : \A j \in 1 .. Len(nat[s]) : nat[s][j].to \in Addr =>
    /\ MarkedRule(s, j)
    /\ sb[s] = "running" => nat[s][j].to = net[s]
    /\ At("ADD", "portmap") /\ proc.sb = s => nat[s][j].to = proc.ip

(* The entries are the last commands of a program.                         *)
TopEntries == \A i \in 1 .. Len(nat["TOP"]) : nat["TOP"][i].to \in Sandbox
EntryLast ==
  At("ADD", "portmap") /\ Entries(proc.sb) # {} =>
    \A j \in 1 .. Len(Program) : j >= proc.k => Program[j].chain # proc.sb

LEMMA SameProgram ==
  ASSUME NEW s, NEW ip, external' = external
  PROVE  /\ forwardPorts(s, ip)' = forwardPorts(s, ip)
         /\ fillDnatRules(s, ip)' = fillDnatRules(s, ip)
         /\ SetMarkChainName' = SetMarkChainName
         /\ \A S, from : Mark(S, from)' = Mark(S, from)
BY DEF forwardPorts, fillDnatRules, DnatRules, SetMarkChainName, Mark

(* A rule stays in a chain that another one is added to or taken from.     *)
LEMMA ContainsExtended ==
  ASSUME NEW s \in Seq(Rule), NEW e \in Rule
  PROVE  /\ \A r : Contains(s, r) => Contains(Append(s, e), r) /\ Contains(<<e>> \o s, r)
         /\ Contains(Append(s, e), e) /\ Contains(<<e>> \o s, e)
<1>1. PICK t : t = Append(s, e)
  OBVIOUS
<1>2. PICK w : w = <<e>> \o s
  OBVIOUS
<1>3. IsJoin(Rule, t, s, <<e>>) /\ IsJoin(Rule, w, <<e>>, s)
  BY <1>1, <1>2, Extended
<1>4. Len(<<e>>) = 1 /\ <<e>>[1] = e /\ Len(s) \in Nat
  OBVIOUS
<1>5. /\ Len(t) = Len(s) + 1 /\ t[Len(s) + 1] = e /\ \A k \in 1 .. Len(s) : t[k] = s[k]
      /\ Len(w) = 1 + Len(s) /\ w[1] = e /\ \A k \in 1 .. Len(s) : w[1 + k] = s[k]
  <2>1. 1 \in 1 .. 1
    OBVIOUS
  <2> QED BY <1>3, <1>4, <2>1 DEF IsJoin
<1>6. Contains(t, e) /\ Contains(w, e)
  <2>1. Len(s) + 1 \in 1 .. Len(s) + 1 /\ 1 \in 1 .. Len(s) + 1 /\ 1 + Len(s) = Len(s) + 1
    BY <1>4
  <2> QED BY <1>5, <2>1 DEF Contains
<1>7. ASSUME NEW r, Contains(s, r) PROVE Contains(t, r) /\ Contains(w, r)
  <2>1. PICK k \in 1 .. Len(s) : s[k] = r
    BY <1>7 DEF Contains
  <2>2. k \in 1 .. Len(t) /\ 1 + k \in 1 .. Len(w)
    BY <1>4, <1>5
  <2>3. t[k] = r /\ w[1 + k] = r
    BY <1>5, <2>1
  <2> QED BY <2>2, <2>3 DEF Contains
<1> QED BY <1>1, <1>2, <1>6, <1>7

LEMMA ContainsWithout ==
  ASSUME NEW s \in Seq(Rule), NEW i \in 1 .. Len(s), NEW t, IsWithout(Rule, t, s, i),
         NEW r, Contains(s, r), r # s[i]
  PROVE  Contains(t, r)
<1>1. Len(t) = Len(s) - 1 /\ Len(s) \in Nat
  BY DEF IsWithout
<1>2. PICK k \in 1 .. Len(s) : s[k] = r
  BY DEF Contains
<1>3. CASE k < i
  <2>1. k \in 1 .. i - 1 /\ k \in 1 .. Len(t)
    BY <1>1, <1>3
  <2>2. t[k] = r
    BY <1>2, <2>1 DEF IsWithout
  <2> QED BY <2>1, <2>2 DEF Contains
<1>4. CASE k > i
  <2>1. k - 1 \in i .. Len(s) - 1 /\ k - 1 \in 1 .. Len(t) /\ k - 1 + 1 = k
    BY <1>1, <1>4
  <2>2. t[k - 1] = r
    BY <1>2, <2>1 DEF IsWithout
  <2> QED BY <2>1, <2>2 DEF Contains
<1> QED BY <1>2, <1>3, <1>4

(* A command whose effect no step takes back but a reboot and the DEL of   *)
(* its own sandbox.                                                        *)
Ours(s, c) ==
  /\ c \in Cmd /\ c.chain \in Common \cup {s}
  /\ c.chain = "TOP" => c.rule = NoRule \/ c.rule.to = s

LEMMA DoneStays ==
  ASSUME Shape, CountShape, NatShape, [Next]_vars, ~Reboot,
         NEW s \in Sandbox, ~(proc.op = "DEL" /\ proc.sb = s), NEW c, Ours(s, c), Done(c)
  PROVE  Done(c)'
<1>0. ProcShape /\ nat \in [Chain -> Seq(Rule)]
  BY ShapeParts DEF NatShape
<1>1. c.chain \in Chain /\ c.chain \in chains /\ (c.rule = NoRule \/ Contains(nat[c.chain], c.rule))
  BY DEF Ours, Cmd, Done
<1>2. \A r \in Sandbox : r # s => c.chain # r
  BY Names DEF Ours
<1>3. CASE UNCHANGED <<chains, nat>>
  BY <1>3 DEF Done
<1>4. CASE portmapCmdAdd /\ ~UNCHANGED <<chains, nat>>
  <2>1. PICK cmd : Adds(cmd)
    BY <1>4, CommandSteps DEF CountShape
  <2>2. cmd \in Cmd /\ chains' = chains \cup {cmd.chain} /\ nat' = insertUnique(cmd)
    BY <2>1 DEF Adds
  <2>3. cmd.chain \in Chain /\ cmd.rule \in Rule
    BY <2>2 DEF Cmd
  <2>4. PICK d : d = cmd.chain
    OBVIOUS
  <2>5. PICK u \in Seq(Rule) : u = nat[d]
    BY <1>0, <2>3, <2>4
  <2>6. PICK e \in Rule : e = cmd.rule
    BY <2>3
  <2>7. nat'[d] \in {u, <<e>> \o u, Append(u, e)}
    BY <2>2, <2>4, <2>5, <2>6, InsertFacts
  <2>8. \A x \in Chain \ {d} : nat'[x] = nat[x]
    BY <2>2, <2>4, InsertFacts
  <2>9. \A r : Contains(u, r) => Contains(nat'[d], r)
    BY <2>7, ContainsExtended
  <2>10. c.rule = NoRule \/ Contains(nat'[c.chain], c.rule)
    BY <1>1, <2>5, <2>8, <2>9
  <2> QED BY <1>1, <2>2, <2>10 DEF Done
<1>5. CASE ClearChain /\ ~UNCHANGED <<chains, nat>>
  <2>1. chains' = chains \cup {proc.sb} /\ nat' = [nat EXCEPT ![proc.sb] = <<>>] /\ proc.op = "DEL"
    BY <1>5 DEF ClearChain, natVars, At
  <2>2. proc.sb \in Sandbox /\ c.chain # proc.sb
    BY <1>0, <1>2, <2>1 DEF ProcShape
  <2>3. nat'[c.chain] = nat[c.chain]
    BY <1>0, <1>1, <2>1, <2>2
  <2> QED BY <1>1, <2>1, <2>3 DEF Done
<1>6. CASE DeleteEntries /\ ~UNCHANGED <<chains, nat>>
  <2>1. /\ Entries(proc.sb) # {} /\ nat' = [nat EXCEPT !["TOP"] = WithoutFirst(proc.sb)] /\ UNCHANGED chains
        /\ proc.op = "DEL"
    BY <1>6 DEF DeleteEntries, At
  <2>2. PICK t : t = WithoutFirst(proc.sb)
    OBVIOUS
  <2>3. "TOP" \in Chain
    BY Names
  <2>4. PICK u \in Seq(Rule) : u = nat["TOP"]
    BY <1>0, <2>3
  <2>5. PICK i \in 1 .. Len(u) : u[i].to = proc.sb /\ IsWithout(Rule, t, u, i)
    BY <2>1, <2>2, <2>4, Unlinked
  <2>6. nat'["TOP"] = t /\ \A x \in Chain \ {"TOP"} : nat'[x] = nat[x]
    BY <1>0, <2>1, <2>2, <2>3
  <2>7. CASE c.chain # "TOP" \/ c.rule = NoRule
    BY <1>1, <2>1, <2>6, <2>7 DEF Done
  <2>8. CASE c.chain = "TOP" /\ c.rule # NoRule
    <3>1. c.rule.to = s /\ Contains(u, c.rule)
      BY <1>1, <2>4, <2>8 DEF Ours
    <3>2. PICK r : r = c.rule
      OBVIOUS
    <3>3. r # u[i]
      BY <2>1, <2>5, <3>1, <3>2
    <3>4. Contains(t, r)
      BY <2>5, <3>1, <3>2, <3>3, ContainsWithout
    <3> QED BY <1>1, <2>1, <2>6, <2>8, <3>2, <3>4 DEF Done
  <2> QED BY <2>7, <2>8
<1>7. CASE DeleteChain /\ ~UNCHANGED <<chains, nat>>
  <2>1. chains' = chains \ {proc.sb} /\ UNCHANGED nat /\ proc.op = "DEL"
    BY <1>7 DEF DeleteChain, At
  <2>2. proc.sb \in Sandbox /\ c.chain # proc.sb
    BY <1>0, <1>2, <2>1 DEF ProcShape
  <2> QED BY <1>1, <2>1, <2>2 DEF Done
<1>8. CASE KubeProxyStarts
  <2>1. chains' = chains \cup {"KUBE-MARK-MASQ"} /\ UNCHANGED nat
    BY <1>8 DEF KubeProxyStarts
  <2> QED BY <1>1, <2>1 DEF Done
<1> QED BY <1>3, <1>4, <1>5, <1>6, <1>7, <1>8, NatSteps

(* The next command of the program.                                        *)
Carries(c) ==
  /\ c \in Cmd /\ chains' = chains \cup {c.chain} /\ nat' = insertUnique(c)
  /\ Again /\ UNCHANGED sb

LEMMA CommandPlace ==
  ASSUME Shape, CountShape, portmapCmdAdd, NEW p, p = Program
  PROVE  /\ p \in Seq(Cmd) /\ proc.sb \in Sandbox /\ proc.ip \in Addr
         /\ \/ UNCHANGED <<chains, nat>> /\ AddOK /\ \A j \in 1 .. Len(p) : j < proc.k
            \/ UNCHANGED <<chains, nat>> /\ AddFails
            \/ proc.k \in 1 .. Len(p) /\ Carries(p[proc.k])
<1>1. proc.sb \in Sandbox /\ proc.ip \in Addr
  BY ShapeParts, PortFacts DEF ProcShape, At, UniPc, PodPc
<1>2. p \in Seq(Cmd)
  <2>1. PICK s \in Sandbox : s = proc.sb
    BY <1>1
  <2>2. PICK ip \in Addr : ip = proc.ip
    BY <1>1
  <2>3. p = forwardPorts(s, ip)
    BY <2>1, <2>2 DEF Program
  <2>4. IsProgram(p, s)
    BY <2>3, ProgramFacts
  <2> QED BY <2>4 DEF IsProgram
<1>3. \/ proc.k > Len(p) /\ UNCHANGED <<chains, nat>> /\ AddOK
      \/ UNCHANGED <<chains, nat>> /\ AddFails
      \/ /\ proc.k <= Len(p) /\ chains' = chains \cup {p[proc.k].chain} /\ nat' = insertUnique(p[proc.k])
         /\ Again /\ UNCHANGED sb
  BY DEF portmapCmdAdd, natVars, Program
<1>4. Len(p) \in Nat /\ proc.k \in Nat \ {0}
  BY <1>2 DEF CountShape
<1>5. CASE proc.k > Len(p) /\ UNCHANGED <<chains, nat>> /\ AddOK
  <2>1. \A j \in 1 .. Len(p) : j < proc.k
    BY <1>4, <1>5
  <2> QED BY <1>1, <1>2, <1>5, <2>1
<1>6. CASE /\ proc.k <= Len(p) /\ chains' = chains \cup {p[proc.k].chain} /\ nat' = insertUnique(p[proc.k])
           /\ Again /\ UNCHANGED sb
  <2>1. proc.k \in 1 .. Len(p)
    BY <1>4, <1>6
  <2>2. p[proc.k] \in Cmd
    BY <1>2, <2>1
  <2> QED BY <1>1, <1>2, <1>6, <2>1, <2>2 DEF Carries
<1> QED BY <1>1, <1>2, <1>3, <1>5, <1>6

LEMMA DoneNow ==
  ASSUME NatShape, NEW c, Carries(c)
  PROVE  Done(c)'
<1>1. c \in Cmd /\ chains' = chains \cup {c.chain} /\ nat' = insertUnique(c)
  BY DEF Carries
<1>2. c.chain \in Chain /\ c.rule \in Rule /\ nat \in [Chain -> Seq(Rule)]
  BY <1>1 DEF Cmd, NatShape
<1>3. c.chain \in chains'
  BY <1>1
<1>4. CASE c.rule = NoRule
  BY <1>3, <1>4 DEF Done
<1>5. CASE c.rule # NoRule /\ Contains(nat[c.chain], c.rule)
  <2>1. nat' = nat
    BY <1>1, <1>5 DEF insertUnique
  <2> QED BY <1>3, <1>5, <2>1 DEF Done
<1>6. CASE c.rule # NoRule /\ ~Contains(nat[c.chain], c.rule)
  <2>1. PICK r \in Rule : r = c.rule
    BY <1>2
  <2>2. PICK u \in Seq(Rule) : u = nat[c.chain]
    BY <1>2
  <2>3. nat' = [nat EXCEPT ![c.chain] = <<r>> \o u] \/ nat' = [nat EXCEPT ![c.chain] = Append(u, r)]
    BY <1>1, <1>2, <1>6, <2>1, <2>2 DEF insertUnique
  <2>4. nat'[c.chain] \in {<<r>> \o u, Append(u, r)}
    BY <1>2, <2>3
  <2>5. Contains(nat'[c.chain], r)
    BY <2>4, ContainsExtended
  <2> QED BY <1>3, <2>1, <2>5 DEF Done
<1> QED BY <1>4, <1>5, <1>6

LEMMA ProgramOurs ==
  ASSUME NEW s \in Sandbox, NEW ip \in Addr, NEW p, p = forwardPorts(s, ip), NEW j \in 1 .. Len(p)
  PROVE  Ours(s, p[j])
<1>1. IsProgram(p, s)
  BY ProgramFacts
<1>2. p[j] \in Cmd
  BY <1>1 DEF IsProgram
<1> QED BY <1>1, <1>2 DEF IsProgram, Ours

LEMMA ProgramStays ==
  ASSUME external' = external
  PROVE  /\ proc'.sb = proc.sb /\ proc'.ip = proc.ip => Program' = Program
         /\ \A s : RunProgram(s)' = forwardPorts(s, net'[s])
BY ZenonT(60) DEF RunProgram, Program, forwardPorts, fillDnatRules, DnatRules, SetMarkChainName

(* How an ADD comes to forward ports, and how it ends.                     *)
LEMMA Forwarding ==
  ASSUME Shape, [Next]_vars, At("ADD", "portmap")'
  PROVE  /\ ~Reboot /\ proc'.sb = proc.sb /\ proc'.ip = proc.ip /\ proc.op = "ADD" /\ proc.sb \in Sandbox
         /\ \/ proc.pc # "portmap" /\ proc'.k = 1 /\ UNCHANGED <<chains, nat>>
            \/ portmapCmdAdd /\ Again /\ At("ADD", "portmap")
            \/ UNCHANGED proc /\ At("ADD", "portmap") /\ ~portmapCmdAdd
<1>0. ProcShape /\ proc'.op = "ADD" /\ proc'.pc = "portmap" /\ proc' # NoProc
  BY ShapeParts, NoProcFacts DEF At
<1>1. ~Reboot
  BY <1>0, RebootFacts
<1>2. CASE AddStep
  <2>1. proc.op = "ADD" /\ proc.sb \in Sandbox /\ proc'.sb = proc.sb
    BY <1>0, <1>2, AddEffect
  <2>2. CASE portmapCmdAdd
    <3>1. Again /\ At("ADD", "portmap")
      BY <1>0, <2>2, PortFacts DEF AddOK, AddFails
    <3> QED BY <1>0, <1>1, <2>1, <2>2, <3>1, AgainFacts
  <2>3. CASE addPodNetworkRecord
    <3>1. At("ADD", "record") /\ Goto("portmap")
      BY <1>0, <2>3, RecordFacts DEF AddFails
    <3>2. UNCHANGED <<chains, nat>>
      BY <2>3 DEF addPodNetworkRecord, natVars
    <3> QED BY <1>0, <1>1, <2>1, <3>1, <3>2, GotoFacts DEF At
  <2>4. CASE ensureUNIPrimaryIPRoute \/ UniStep \/ initPodNetworking \/ assignFails
    BY <1>0, <2>4, PrimaryFacts, UniStepFacts, NetworkingFacts, AssignFailsFacts, GotoFacts, AgainFacts
       DEF AddFails, At
  <2>5. CASE \E ip \in Addr : assignPodIp(ip)
    BY <1>0, <2>5, AssignFacts
  <2>6. CASE \/ checkAndCleanOldVeth \/ setupVethPair \/ addRouteRuleForPodIp
             \/ ensureDstIPRoutePolicy \/ PodSrcRule \/ setNodePortRange \/ rollbackReleaseIP
    BY <1>0, <2>6, CleanFacts, PairFacts, RouteFacts, DstFacts, SrcFacts, RangeFacts, RollbackFacts, GotoFacts
       DEF AddFails, At
  <2> QED BY <1>2, <2>2, <2>3, <2>4, <2>5, <2>6 DEF AddStep
<1>3. CASE DelStep
  <2>1. proc' = NoProc \/ proc'.op = "DEL"
    BY <1>0, <1>3, DelStays
  <2> QED BY <1>0, <2>1
<1>4. CASE Kill
  BY <1>0, <1>4, KillFacts DEF AddFails, DelFails
<1>5. CASE \E s \in Sandbox : StartAdd(s) \/ StartDel(s)
  BY <1>0, <1>5, StartAddFacts, StartDelFacts DEF UniPc
<1>6. CASE UNCHANGED vars \/ KubeProxyStarts \/ \E s \in Sandbox : ReconcileDelete(s) \/ RemoveNetns(s)
  <2>1. UNCHANGED proc
    BY <1>6, ProxyFacts, ReconcileFacts, NetnsFacts DEF vars
  <2>2. proc.op = "ADD" /\ proc.sb \in Sandbox
    BY <1>0, <2>1 DEF ProcShape
  <2>3. CASE portmapCmdAdd
    <3>1. AddOK \/ AddFails \/ Again
      BY <2>3, PortFacts
    <3> QED BY <1>0, <1>1, <2>1, <2>2, <2>3, <3>1, AgainFacts DEF At, AddOK, AddFails
  <2> QED BY <1>0, <1>1, <2>1, <2>2, <2>3 DEF At
<1> QED BY <1>1, <1>2, <1>3, <1>4, <1>5, <1>6 DEF Next

LEMMA StartsRunning ==
  ASSUME Shape, [Next]_vars, NEW s \in Sandbox, sb'[s] = "running", sb[s] # "running"
  PROVE  portmapCmdAdd /\ proc.sb = s /\ AddOK
<1>0. ProcShape /\ SbShape
  BY ShapeParts
<1>1. CASE AddStep
  <2>1. proc.sb \in Sandbox /\ sb[proc.sb] = "adding"
    BY <1>1, AddEffect
  <2>2. CASE portmapCmdAdd
    <3>1. AddOK \/ AddFails \/ sb' = sb
      BY <2>2, PortFacts
    <3>2. AddOK
      BY <1>0, <2>1, <3>1 DEF AddFails, SbShape
    <3> QED BY <1>0, <2>1, <2>2, <3>2 DEF AddOK, SbShape
  <2>3. CASE ~portmapCmdAdd
    <3>1. sb' = sb \/ AddFails
      BY <1>1, <2>3, PrimaryFacts, UniStepFacts, NetworkingFacts, AssignFailsFacts, AssignFacts, CleanFacts,
         PairFacts, RouteFacts, DstFacts, SrcFacts, RangeFacts, RollbackFacts, RecordFacts DEF AddStep
    <3> QED BY <1>0, <2>1, <3>1 DEF AddFails, SbShape
  <2> QED BY <2>2, <2>3
<1>2. CASE DelStep
  <2>1. sb' = sb \/ DelFails \/ DelOK
    BY <1>0, <1>2, GetFacts, RulesFacts, ReleaseFacts, DelRecordFacts, TeardownFacts, IfaceFacts
       DEF DelStep, Teardown
  <2>2. proc.sb \in Sandbox
    BY <1>0, <1>2, DelStays DEF ProcShape
  <2> QED BY <1>0, <2>1, <2>2 DEF DelFails, DelOK, SbShape
<1>3. CASE Kill
  <2>1. AddFails \/ DelFails
    BY <1>3, KillFacts
  <2>2. proc.sb \in Sandbox
    BY <1>0, <1>3, KillFacts DEF ProcShape
  <2> QED BY <1>0, <2>1, <2>2 DEF AddFails, DelFails, SbShape
<1>4. CASE Reboot \/ KubeProxyStarts \/ UNCHANGED vars
  BY <1>0, <1>4, RebootFacts, ProxyFacts DEF vars, kubeVars, SbShape
<1>5. CASE \E r \in Sandbox : StartAdd(r) \/ StartDel(r) \/ ReconcileDelete(r) \/ RemoveNetns(r)
  BY <1>0, <1>5, StartAddFacts, StartDelFacts, ReconcileFacts, NetnsFacts DEF SbShape
<1> QED BY <1>1, <1>2, <1>3, <1>4, <1>5 DEF Next

(* A pod that goes on running keeps its address.                           *)
LEMMA NetStays ==
  ASSUME IInv, [Next]_vars, NEW s \in Sandbox, sb[s] = "running", sb'[s] = "running"
  PROVE  net'[s] = net[s] /\ net[s] \in Addr /\ ~Reboot /\ ~(proc.op = "DEL" /\ proc.sb = s)
<1>0. Shape /\ ProcShape /\ SbShape /\ LinkShape /\ RunInv
  BY ShapeParts DEF IInv
<1>1. net'[s] # None
  BY StepIInv DEF IInv, RunInv
<1>2. net[s] \in Addr
  BY <1>0 DEF RunInv, LinkShape
<1>3. ~Reboot
  BY <1>0, RebootFacts DEF SbShape
<1>4. ~(proc.op = "DEL" /\ proc.sb = s)
  BY <1>0 DEF ProcShape
<1>5. ASSUME NEW p, LinkDel(p) PROVE net'[s] \in {net[s], None}
  BY <1>5 DEF LinkDel
<1>6. ASSUME NEW r \in Sandbox, DropLinks(r) PROVE net'[s] \in {net[s], None}
  BY <1>0, <1>5, <1>6 DEF DropLinks, LinkShape
<1>7. CASE UNCHANGED net
  BY <1>2, <1>3, <1>4, <1>7
<1>8. CASE checkAndCleanOldVeth
  BY <1>1, <1>2, <1>3, <1>4, <1>5, <1>8 DEF checkAndCleanOldVeth, linkVars
<1>9. CASE setupVethPair
  <2>1. net' = net \/ net' = [net EXCEPT ![proc.sb] = proc.ip]
    BY <1>9 DEF setupVethPair
  <2>2. proc.sb # s
    BY <1>0, <1>9 DEF setupVethPair, At, ProcShape
  <2> QED BY <1>0, <1>2, <1>3, <1>4, <2>1, <2>2 DEF LinkShape
<1>10. CASE DelInterface
  BY <1>0, <1>1, <1>2, <1>3, <1>4, <1>6, <1>10, IfaceFacts DEF At, ProcShape
<1>11. CASE \E r \in Sandbox : RemoveNetns(r)
  BY <1>1, <1>2, <1>3, <1>4, <1>6, <1>11, NetnsFacts
<1>12. CASE AddStep /\ ~checkAndCleanOldVeth /\ ~setupVethPair
  <2>1. CASE \E ip \in Addr : assignPodIp(ip)
    BY <1>7, <2>1 DEF assignPodIp, linkVars
  <2>2. CASE \/ ensureUNIPrimaryIPRoute \/ UniStep \/ initPodNetworking \/ assignFails
             \/ addRouteRuleForPodIp \/ ensureDstIPRoutePolicy \/ PodSrcRule \/ setNodePortRange
             \/ rollbackReleaseIP \/ addPodNetworkRecord \/ portmapCmdAdd
    BY <1>7, <2>2 DEF ensureUNIPrimaryIPRoute, UniStep, initPodNetworking, assignFails, addRouteRuleForPodIp,
       ensureDstIPRoutePolicy, PodSrcRule, setNodePortRange, rollbackReleaseIP, addPodNetworkRecord,
       portmapCmdAdd, linkVars
  <2> QED BY <1>12, <2>1, <2>2 DEF AddStep
<1>13. CASE DelStep /\ ~DelInterface
  BY <1>0, <1>7, <1>13, GetFacts, RulesFacts, ReleaseFacts, DelRecordFacts, TeardownFacts DEF DelStep, Teardown
<1>14. CASE \/ UNCHANGED vars \/ Kill \/ KubeProxyStarts
            \/ \E r \in Sandbox : StartAdd(r) \/ StartDel(r) \/ ReconcileDelete(r)
  BY <1>7, <1>14, KillFacts, ProxyFacts, StartAddFacts, StartDelFacts, ReconcileFacts DEF vars, linkVars
<1> QED BY <1>3, <1>8, <1>9, <1>10, <1>11, <1>12, <1>13, <1>14 DEF Next

LEMMA ProgressKeeps ==
  ASSUME Shape, CountShape, NatShape, Progress, [Next]_vars
  PROVE  Progress'
<1> SUFFICES ASSUME proc'.op = "ADD", proc'.pc = "portmap", NEW j \in 1 .. Len(Program'), j < proc'.k
             PROVE  /\ Program'[j].chain \in chains'
                    /\ Program'[j].rule = NoRule \/ Contains(nat'[Program'[j].chain], Program'[j].rule)
  BY DEF Progress, Done, At
<1>1. PICK p : p = Program
  OBVIOUS
<1>2. At("ADD", "portmap")'
  BY DEF At
<1>3. /\ ~Reboot /\ proc'.sb = proc.sb /\ proc'.ip = proc.ip /\ proc.op = "ADD" /\ proc.sb \in Sandbox
      /\ \/ proc.pc # "portmap" /\ proc'.k = 1 /\ UNCHANGED <<chains, nat>>
         \/ portmapCmdAdd /\ Again /\ At("ADD", "portmap")
         \/ UNCHANGED proc /\ At("ADD", "portmap") /\ ~portmapCmdAdd
  BY <1>2, Forwarding
<1>4. Program' = p
  BY <1>1, <1>3, ConfigurationStays, ProgramStays
<1>5. PICK c : c = p[j]
  OBVIOUS
<1>6. SUFFICES Done(c)'
  BY <1>4, <1>5 DEF Done
<1>7. ASSUME At("ADD", "portmap"), j < proc.k PROVE Done(c)'
  <2>1. proc.ip \in Addr
    BY <1>7, ShapeParts DEF ProcShape, At, PodPc
  <2>2. PICK s \in Sandbox : s = proc.sb
    BY <1>3
  <2>3. PICK ip \in Addr : ip = proc.ip
    BY <2>1
  <2>4. p = forwardPorts(s, ip)
    BY <1>1, <2>2, <2>3 DEF Program
  <2>5. Ours(s, c)
    BY <1>4, <1>5, <2>4, ProgramOurs
  <2>6. Done(c)
    BY <1>1, <1>4, <1>5, <1>7 DEF Progress
  <2> QED BY <1>3, <2>2, <2>5, <2>6, DoneStays
<1>8. CASE proc.pc # "portmap" /\ proc'.k = 1
  BY <1>8
<1>9. CASE UNCHANGED proc /\ At("ADD", "portmap") /\ ~portmapCmdAdd
  BY <1>7, <1>9
<1>10. CASE portmapCmdAdd /\ Again /\ At("ADD", "portmap")
  <2>1. proc'.k = proc.k + 1 /\ proc.k \in Nat \ {0} /\ j \in Nat
    BY <1>10, ShapeParts, AgainFacts DEF CountShape
  <2>2. CASE j < proc.k
    BY <1>7, <1>10, <2>2
  <2>3. CASE j >= proc.k
    <3>1. j = proc.k
      BY <2>1, <2>3
    <3>2. proc' # NoProc
      BY NoProcFacts
    <3>3. Carries(p[proc.k])
      BY <1>1, <1>10, <3>2, CommandPlace DEF AddOK, AddFails
    <3>4. Carries(c)
      BY <1>5, <3>1, <3>3
    <3> QED BY <3>4, DoneNow
  <2> QED BY <2>1, <2>2, <2>3
<1> QED BY <1>3, <1>8, <1>9, <1>10

LEMMA RunsForwardedKeeps ==
  ASSUME IInv, CountShape, NatShape, Progress, RunsForwarded, [Next]_vars
  PROVE  RunsForwarded'
<1> SUFFICES ASSUME NEW s \in Sandbox, sb'[s] = "running", NEW j \in 1 .. Len(RunProgram(s)')
             PROVE  LET c == RunProgram(s)'[j]
                    IN c.chain \in chains' /\ (c.rule = NoRule \/ Contains(nat'[c.chain], c.rule))
  BY DEF RunsForwarded, Done
<1>0. Shape /\ ProcShape /\ LinkShape
  BY ShapeParts DEF IInv
<1>1. PICK ip : ip = net'[s]
  OBVIOUS
<1>2. PICK p : p = forwardPorts(s, ip)
  OBVIOUS
<1>3. RunProgram(s)' = p
  BY <1>1, <1>2, ConfigurationStays, ProgramStays
<1>4. PICK c : c = p[j]
  OBVIOUS
<1>5. SUFFICES Done(c)'
  BY <1>3, <1>4 DEF Done
<1>6. CASE sb[s] = "running"
  <2>1. ip = net[s] /\ ip \in Addr /\ ~Reboot /\ ~(proc.op = "DEL" /\ proc.sb = s)
    BY <1>1, <1>6, NetStays
  <2>2. Ours(s, c)
    BY <1>2, <1>3, <1>4, <2>1, ProgramOurs
  <2>3. Done(c)
    BY <1>2, <1>3, <1>4, <1>6, <2>1 DEF RunsForwarded, RunProgram
  <2> QED BY <1>0, <2>1, <2>2, <2>3, DoneStays
<1>7. CASE sb[s] # "running"
  <2>1. portmapCmdAdd /\ proc.sb = s /\ AddOK
    BY <1>0, <1>7, StartsRunning
  <2>2. At("ADD", "portmap") /\ UNCHANGED net
    BY <2>1, PortFacts
  <2>3. ip = proc.ip
    BY <1>1, <2>1, <2>2 DEF IInv, AddLink, Past, RoutedPc, At
  <2>4. p = Program
    BY <1>2, <2>1, <2>3 DEF Program
  <2>5. proc' = NoProc /\ sb'[s] # sb[s] /\ proc.op = "ADD"
    BY <1>7, <2>1, <2>2 DEF AddOK, At
  <2>6. ~Again
    BY <1>0, <2>5, AgainFacts, NoProcFacts
  <2>7. ~AddFails
    BY <2>1, <1>0, ShapeParts DEF AddFails, SbShape
  <2>8. UNCHANGED <<chains, nat>> /\ j < proc.k
    BY <1>0, <1>3, <2>1, <2>4, <2>6, <2>7, CommandPlace DEF Carries
  <2>9. Done(c)
    BY <1>3, <1>4, <2>2, <2>4, <2>8 DEF Progress
  <2> QED BY <2>8, <2>9 DEF Done
<1> QED BY <1>6, <1>7

(* What a step can do to the chain of a sandbox, and to TOP.               *)
LEMMA ChainSteps ==
  ASSUME Shape, CountShape, NatShape, [Next]_vars, NEW s \in Sandbox
  PROVE  \/ nat'[s] = nat[s]
         \/ nat'[s] = <<>> /\ (Reboot \/ (proc.op = "DEL" /\ s = proc.sb))
         \/ portmapCmdAdd /\ s = proc.sb /\ ~UNCHANGED <<chains, nat>>
<1>0. nat \in [Chain -> Seq(Rule)] /\ s \in Chain /\ s \notin Common /\ "TOP" \in Common
  BY Names DEF NatShape
<1>1. CASE UNCHANGED <<chains, nat>>
  BY <1>1
<1>2. CASE portmapCmdAdd /\ ~UNCHANGED <<chains, nat>> /\ s # proc.sb
  <2>1. PICK cmd : Adds(cmd)
    BY <1>2, CommandSteps DEF CountShape
  <2>2. cmd \in Cmd /\ nat' = insertUnique(cmd) /\ cmd.chain # s
    BY <1>0, <1>2, <2>1 DEF Adds
  <2> QED BY <1>0, <2>2, InsertFacts
<1>3. CASE ClearChain
  <2>1. (nat' = nat \/ nat' = [nat EXCEPT ![proc.sb] = <<>>]) /\ proc.op = "DEL"
    BY <1>3 DEF ClearChain, natVars, At
  <2> QED BY <1>0, <2>1
<1>4. CASE DeleteEntries
  <2>1. PICK t : t = WithoutFirst(proc.sb)
    OBVIOUS
  <2>2. nat' = nat \/ nat' = [nat EXCEPT !["TOP"] = t]
    BY <1>4, <2>1 DEF DeleteEntries
  <2> QED BY <1>0, <2>2
<1>5. CASE DeleteChain \/ KubeProxyStarts
  BY <1>5 DEF DeleteChain, KubeProxyStarts
<1>6. CASE Reboot
  <2>1. nat' = [c \in Chain |-> <<>>]
    BY <1>6 DEF Reboot
  <2> QED BY <1>0, <1>6, <2>1
<1> QED BY <1>1, <1>2, <1>3, <1>4, <1>5, <1>6, NatSteps

(* What the commands of a program do to the two chains.                    *)
OwnRule(rules, p, n, s) ==
  \E i \in 1 .. Len(rules) :
    /\ proc.k = n + 1 + i /\ rules[i] # NoRule
    /\ nat'[s] = Append(nat[s], rules[i]) /\ UNCHANGED <<sb>> /\ nat'["TOP"] = nat["TOP"]
OwnEntry(rules, p, n, s) ==
  /\ proc.k >= n + 2 + Len(rules) /\ nat'[s] = nat[s]
  /\ \E r \in Rule : r.to = s /\ nat'["TOP"] = Append(nat["TOP"], r)

LEMMA CommandChains ==
  ASSUME Shape, CountShape, NatShape, portmapCmdAdd, ~UNCHANGED <<chains, nat>>,
         NEW s \in Sandbox, s = proc.sb, NEW p, p = Program, NEW rules, NEW er, NEW n,
         Layout(p, n, s, rules, er)
  PROVE  /\ proc.k \in 1 .. Len(p) /\ Again
         /\ \A r \in Sandbox \ {s} : nat'[r] = nat[r]
         /\ \/ nat'[s] = nat[s] /\ nat'["TOP"] = nat["TOP"]
            \/ OwnRule(rules, p, n, s)
            \/ OwnEntry(rules, p, n, s)
<1>0. /\ nat \in [Chain -> Seq(Rule)] /\ s \in Chain /\ s \notin Common /\ "TOP" \in Common /\ "TOP" \in Chain
      /\ \A r \in Sandbox : r \in Chain /\ r \notin Common
  BY Names DEF NatShape
<1>1. proc.k \in 1 .. Len(p) /\ Carries(p[proc.k])
  BY CommandPlace
<1>2. PICK k \in 1 .. Len(p) : k = proc.k
  BY <1>1
<1>3. PICK c : c = p[k]
  OBVIOUS
<1>4. c \in Cmd /\ nat' = insertUnique(c) /\ Again /\ UNCHANGED sb
  BY <1>1, <1>2, <1>3 DEF Carries
<1>5. /\ \A x \in Chain \ {c.chain} : nat'[x] = nat[x]
      /\ \/ nat' = nat
         \/ /\ c.rule # NoRule
            /\ nat'[c.chain] = IF c.prepend THEN <<c.rule>> \o nat[c.chain] ELSE Append(nat[c.chain], c.rule)
  BY <1>4, InsertFacts
<1>6. Placed(p, n, s, rules, er, k)
  BY Places
<1>7. CASE c.chain \in Common /\ (c.chain = "TOP" => c.rule = NoRule)
  <2>1. \A r \in Sandbox : nat'[r] = nat[r]
    BY <1>0, <1>5, <1>7
  <2>2. nat'["TOP"] = nat["TOP"]
    BY <1>0, <1>5, <1>7
  <2> QED BY <1>1, <1>4, <2>1, <2>2
<1>8. CASE c.chain = s /\ c.rule = NoRule
  <2>1. nat' = nat
    BY <1>5, <1>8
  <2> QED BY <1>1, <1>4, <2>1
<1>9. CASE \E i \in 1 .. Len(rules) : k = n + 1 + i /\ c.chain = s /\ c.rule = rules[i] /\ c.prepend = FALSE
  <2>1. PICK i \in 1 .. Len(rules) : k = n + 1 + i /\ c.chain = s /\ c.rule = rules[i] /\ c.prepend = FALSE
    BY <1>9
  <2>2. (\A r \in Sandbox \ {s} : nat'[r] = nat[r]) /\ nat'["TOP"] = nat["TOP"]
    BY <1>0, <1>5, <2>1
  <2>3. nat' = nat \/ (rules[i] # NoRule /\ nat'[s] = Append(nat[s], rules[i]))
    BY <1>5, <2>1
  <2>4. nat'[s] = nat[s] \/ OwnRule(rules, p, n, s)
    BY <1>2, <1>4, <2>1, <2>2, <2>3 DEF OwnRule
  <2> QED BY <1>1, <1>4, <2>2, <2>4
<1>10. CASE /\ k >= n + 2 + Len(rules) /\ c.chain = "TOP" /\ c.prepend = FALSE
            /\ \E g \in 1 .. Len(er) : c.rule = Jump(er[g], s)
  <2>1. c.rule.to = s /\ c.rule \in Rule
    BY <1>4, <1>10, RuleFacts DEF Cmd
  <2>2. \A r \in Sandbox : nat'[r] = nat[r]
    BY <1>0, <1>5, <1>10
  <2>3. nat' = nat \/ nat'["TOP"] = Append(nat["TOP"], c.rule)
    BY <1>5, <1>10
  <2>4. nat'["TOP"] = nat["TOP"] \/ OwnEntry(rules, p, n, s)
    BY <1>2, <1>10, <2>1, <2>2, <2>3 DEF OwnEntry
  <2> QED BY <1>1, <1>4, <2>2, <2>4
<1> QED BY <1>3, <1>6, <1>7, <1>8, <1>9, <1>10 DEF Placed

LEMMA CommandLayout ==
  ASSUME Shape, CountShape, portmapCmdAdd, ~UNCHANGED <<chains, nat>>
  PROVE  \E s, ip, p, rules, er, n :
           /\ s \in Sandbox /\ ip \in Addr /\ s = proc.sb /\ ip = proc.ip /\ p = Program
           /\ rules = fillDnatRules(s, ip).rules /\ Layout(p, n, s, rules, er)
<1>1. proc.sb \in Sandbox /\ proc.ip \in Addr
  BY ShapeParts, PortFacts DEF ProcShape, At, UniPc, PodPc
<1>2. PICK s \in Sandbox : s = proc.sb
  BY <1>1
<1>3. PICK ip \in Addr : ip = proc.ip
  BY <1>1
<1>4. PortMaps[PodOf[s]] # <<>>
  BY <1>2, CommandSteps DEF CountShape
<1>5. PICK p : p = forwardPorts(s, ip)
  OBVIOUS
<1>6. PICK rules : rules = fillDnatRules(s, ip).rules
  OBVIOUS
<1>7. PICK er : er = fillDnatRules(s, ip).entryRules
  OBVIOUS
<1>8. PICK n : Layout(p, n, s, rules, er)
  BY <1>4, <1>5, <1>6, <1>7, LayoutFacts
<1>9. p = Program
  BY <1>2, <1>3, <1>5 DEF Program
<1> QED BY <1>2, <1>3, <1>6, <1>8, <1>9

(* A rule that rewrites is added when its marks are there.                 *)
LEMMA NewRule ==
  ASSUME Shape, CountShape, NatShape, Progress, portmapCmdAdd, NEW s \in Sandbox, s = proc.sb,
         NEW ip \in Addr, ip = proc.ip, NEW p, p = Program, NEW rules,
         rules = fillDnatRules(s, ip).rules, NEW er, NEW n, Layout(p, n, s, rules, er),
         NEW i \in 1 .. Len(rules), proc.k = n + 1 + i, rules[i].to \in Addr
  PROVE  /\ rules[i].to = ip
         /\ Contains(nat[s], Mark(rules[i].on, ip)) /\ Contains(nat[s], Mark(rules[i].on, "localhost"))
<1>1. /\ rules \in Seq(Rule) /\ rules[i].to = ip /\ i > 2
      /\ rules[i - 2] = Mark(rules[i].on, ip) /\ rules[i - 1] = Mark(rules[i].on, "localhost")
  BY DnatFacts
<1>2. n \in Nat /\ Len(p) \in Nat /\ Len(p) >= n + 1 + Len(rules) /\ i \in Nat /\ Len(rules) \in Nat
  <2>1. /\ p \in Seq(Cmd) /\ n \in Nat /\ Len(p) >= n + 1 + Len(rules)
    BY DEF Layout
  <2>2. Len(p) \in Nat
    BY <2>1
  <2>3. Len(rules) \in Nat
    BY <1>1
  <2>4. i \in Nat
    BY <2>3
  <2> QED BY <2>1, <2>2, <2>3, <2>4
<1>3. \A S, from : Mark(S, from) # NoRule
  BY DEF Mark, NoRule, SetMarkChainName
<1>4. ASSUME NEW l \in 1 .. Len(rules), l < i, rules[l] # NoRule PROVE Contains(nat[s], rules[l])
  <2>1. n + 1 + l \in 1 .. Len(p) /\ n + 1 + l < proc.k
    <3>1. PICK k : k = proc.k
      OBVIOUS
    <3>2. PICK q : q = Len(p)
      OBVIOUS
    <3>3. PICK m : m = Len(rules)
      OBVIOUS
    <3>4. l \in 1 .. m /\ m \in Nat /\ n \in Nat /\ q \in Nat /\ q >= n + 1 + m /\ k = n + 1 + i /\ i \in Nat
      BY <1>2, <3>1, <3>2, <3>3
    <3>5. n + 1 + l \in 1 .. q /\ n + 1 + l < k
      BY <1>4, <3>4
    <3> QED BY <3>1, <3>2, <3>5
  <2>2. At("ADD", "portmap")
    BY PortFacts
  <2>3. Done(p[n + 1 + l])
    BY <2>1, <2>2 DEF Progress
  <2>4. p[n + 1 + l] = Command(s, rules[l], FALSE)
    BY DEF Layout
  <2>5. p[n + 1 + l].chain = s /\ p[n + 1 + l].rule = rules[l]
    BY <2>4 DEF Command
  <2> QED BY <1>4, <2>3, <2>5 DEF Done
<1>5. i - 2 \in 1 .. Len(rules) /\ i - 1 \in 1 .. Len(rules) /\ i - 2 < i /\ i - 1 < i
  BY <1>1, <1>2, SMTT(30)
<1> QED BY <1>1, <1>3, <1>4, <1>5

LEMMA ChainKeeps ==
  ASSUME IInv, CountShape, NatShape, ForwardFresh, Progress, ChainInv, [Next]_vars
  PROVE  ChainInv'
<1> SUFFICES ASSUME NEW s \in Sandbox, NEW j \in 1 .. Len(nat'[s]), nat'[s][j].to \in Addr
             PROVE  /\ MarkedRule(s, j)'
                    /\ sb'[s] = "running" => nat'[s][j].to = net'[s]
                    /\ proc'.op = "ADD" /\ proc'.pc = "portmap" /\ proc'.sb = s => nat'[s][j].to = proc'.ip
  BY DEF ChainInv, At
<1>0. Shape /\ ProcShape /\ SbShape /\ nat \in [Chain -> Seq(Rule)] /\ s \in Chain
  BY ShapeParts, Names DEF IInv, NatShape
<1>1. \A S, from : Mark(S, from)' = Mark(S, from)
  BY ConfigurationStays, SameProgram
<1>2. PICK u \in Seq(Rule) : u = nat[s]
  BY <1>0
<1>3. PICK w : w = nat'[s]
  OBVIOUS
<1>4. MarkedRule(s, j)' <=> \E i, l \in 1 .. j - 1 :
        w[i] = Mark(w[j].on, w[j].to) /\ w[l] = Mark(w[j].on, "localhost")
  BY <1>3, ConfigurationStays DEF MarkedRule, Mark, SetMarkChainName
<1>5. ASSUME NEW m \in 1 .. Len(u), u[m].to \in Addr
      PROVE  /\ \E i, l \in 1 .. m - 1 : u[i] = Mark(u[m].on, u[m].to) /\ u[l] = Mark(u[m].on, "localhost")
             /\ sb[s] = "running" => u[m].to = net[s]
             /\ At("ADD", "portmap") /\ proc.sb = s => u[m].to = proc.ip
  BY <1>2, <1>5 DEF ChainInv, MarkedRule
<1>6. CASE w = <<>>
  BY <1>3, <1>6
<1>7. CASE w = u
  <2>1. /\ MarkedRule(s, j)'
        /\ sb[s] = "running" => w[j].to = net[s]
        /\ At("ADD", "portmap") /\ proc.sb = s => w[j].to = proc.ip
    BY <1>3, <1>4, <1>5, <1>7
  <2>2. ASSUME sb'[s] = "running" PROVE w[j].to = net'[s]
    <3>1. CASE sb[s] = "running"
      BY <2>1, <2>2, <3>1, NetStays
    <3>2. CASE sb[s] # "running"
      <4>1. portmapCmdAdd /\ proc.sb = s
        BY <1>0, <2>2, <3>2, StartsRunning
      <4>2. At("ADD", "portmap") /\ UNCHANGED net
        BY <4>1, PortFacts
      <4>3. net[s] = proc.ip
        BY <4>1, <4>2 DEF IInv, AddLink, Past, RoutedPc, At
      <4> QED BY <2>1, <4>1, <4>2, <4>3
    <3> QED BY <3>1, <3>2
  <2>3. ASSUME proc'.op = "ADD", proc'.pc = "portmap", proc'.sb = s PROVE w[j].to = proc'.ip
    <3>1. /\ proc'.sb = proc.sb /\ proc'.ip = proc.ip /\ proc.op = "ADD"
          /\ proc.pc # "portmap" \/ At("ADD", "portmap")
      BY <1>0, <2>3, Forwarding DEF At
    <3>2. CASE proc.pc # "portmap"
      <4>1. ~HasForward(s)
        BY <2>3, <3>1, <3>2 DEF ForwardFresh
      <4>2. u = <<>>
        BY <1>0, <1>2, <4>1 DEF HasForward, NatShape
      <4> QED BY <1>3, <1>7, <4>2
    <3>3. CASE At("ADD", "portmap")
      BY <2>1, <2>3, <3>1, <3>3
    <3> QED BY <3>1, <3>2, <3>3
  <2> QED BY <1>3, <2>1, <2>2, <2>3
<1>8. CASE w # u /\ portmapCmdAdd /\ s = proc.sb /\ ~UNCHANGED <<chains, nat>>
  <2>1. PICK ip, p, rules, er, n :
           /\ ip \in Addr /\ ip = proc.ip
           /\ p = Program /\ rules = fillDnatRules(s, ip).rules /\ Layout(p, n, s, rules, er)
    BY <1>0, <1>8, CommandLayout
  <2>2. PICK i \in 1 .. Len(rules) : /\ proc.k = n + 1 + i /\ rules[i] # NoRule
                                     /\ w = Append(u, rules[i]) /\ UNCHANGED sb
    <3>1. \/ nat'[s] = nat[s]
          \/ OwnRule(rules, p, n, s)
          \/ OwnEntry(rules, p, n, s)
      BY <1>0, <1>8, <2>1, CommandChains
    <3>2. OwnRule(rules, p, n, s)
      BY <1>2, <1>3, <1>8, <3>1 DEF OwnEntry
    <3> QED BY <1>2, <1>3, <3>2 DEF OwnRule
  <2>3. PICK r \in Rule : r = rules[i]
    BY <2>1 DEF Layout
  <2>4. Len(w) = Len(u) + 1 /\ w[Len(u) + 1] = r /\ (\A m \in 1 .. Len(u) : w[m] = u[m]) /\ Len(u) \in Nat
    BY <2>2, <2>3
  <2>5. At("ADD", "portmap") /\ sb'[s] # "running"
    BY <1>0, <1>8, <2>2, PortFacts DEF ProcShape, At
  <2>6. Again
    BY <1>0, <1>8, <2>1, CommandChains
  <2>7. proc'.ip = ip
    BY <1>0, <2>1, <2>6, AgainFacts
  <2>8. CASE j \in 1 .. Len(u)
    <3>1. w[j] = u[j] /\ u[j].to \in Addr
      BY <1>3, <2>4, <2>8
    <3>2. PICK i1, l1 \in 1 .. j - 1 : u[i1] = Mark(u[j].on, u[j].to) /\ u[l1] = Mark(u[j].on, "localhost")
      BY <1>5, <2>8, <3>1
    <3>3. w[i1] = u[i1] /\ w[l1] = u[l1]
      BY <2>4, <2>8
    <3>4. MarkedRule(s, j)'
      BY <1>4, <3>1, <3>2, <3>3
    <3>5. u[j].to = ip
      BY <1>5, <1>8, <2>1, <2>5, <2>8, <3>1
    <3> QED BY <1>3, <2>5, <2>7, <3>1, <3>4, <3>5
  <2>9. CASE j = Len(u) + 1
    <3>1. w[j] = r /\ rules[i].to \in Addr
      BY <1>3, <2>3, <2>4, <2>9
    <3>2. r.to = ip /\ Contains(u, Mark(r.on, ip)) /\ Contains(u, Mark(r.on, "localhost"))
      BY <1>0, <1>2, <1>8, <2>1, <2>2, <2>3, <3>1, NewRule
    <3>3. PICK i1 \in 1 .. Len(u) : u[i1] = Mark(r.on, ip)
      BY <3>2 DEF Contains
    <3>4. PICK l1 \in 1 .. Len(u) : u[l1] = Mark(r.on, "localhost")
      BY <3>2 DEF Contains
    <3>5. i1 \in 1 .. j - 1 /\ l1 \in 1 .. j - 1 /\ w[i1] = u[i1] /\ w[l1] = u[l1]
      BY <2>4, <2>9
    <3>6. MarkedRule(s, j)'
      BY <1>4, <3>1, <3>2, <3>3, <3>4, <3>5
    <3> QED BY <1>3, <2>5, <2>7, <3>1, <3>2, <3>6
  <2> QED BY <1>3, <2>4, <2>8, <2>9
<1> QED BY <1>0, <1>2, <1>3, <1>6, <1>7, <1>8, ChainSteps

(* What a step can do to TOP.                                              *)
Unlinks == \E i \in 1 .. Len(nat["TOP"]) :
  nat["TOP"][i].to = proc.sb /\ IsWithout(Rule, nat'["TOP"], nat["TOP"], i)
LEMMA TopSteps ==
  ASSUME Shape, CountShape, NatShape, [Next]_vars
  PROVE  \/ nat'["TOP"] = nat["TOP"]
         \/ nat'["TOP"] = <<>> /\ Reboot
         \/ proc.op = "DEL" /\ Unlinks /\ \A r \in Sandbox : nat'[r] = nat[r]
         \/ portmapCmdAdd /\ ~UNCHANGED <<chains, nat>>
<1>0. /\ nat \in [Chain -> Seq(Rule)] /\ "TOP" \in Chain /\ "TOP" \notin Sandbox /\ Sandbox \subseteq Chain
  BY Names DEF NatShape
<1>1. CASE UNCHANGED <<chains, nat>>
  BY <1>1
<1>2. CASE ClearChain
  <2>1. nat' = nat \/ nat' = [nat EXCEPT ![proc.sb] = <<>>]
    BY <1>2 DEF ClearChain, natVars
  <2>2. proc.sb \in Sandbox
    BY <1>2, ShapeParts DEF ClearChain, At, ProcShape
  <2> QED BY <1>0, <2>1, <2>2
<1>3. CASE DeleteEntries /\ nat' # nat
  <2>1. Entries(proc.sb) # {} /\ nat' = [nat EXCEPT !["TOP"] = WithoutFirst(proc.sb)] /\ proc.op = "DEL"
    BY <1>3 DEF DeleteEntries, At
  <2>2. PICK t : t = WithoutFirst(proc.sb)
    OBVIOUS
  <2>3. PICK i \in 1 .. Len(nat["TOP"]) : nat["TOP"][i].to = proc.sb /\ IsWithout(Rule, t, nat["TOP"], i)
    BY <1>0, <2>1, <2>2, Unlinked
  <2>4. nat'["TOP"] = t /\ \A r \in Sandbox : nat'[r] = nat[r]
    BY <1>0, <2>1, <2>2
  <2> QED BY <2>1, <2>3, <2>4 DEF Unlinks
<1>4. CASE DeleteChain \/ KubeProxyStarts
  BY <1>4 DEF DeleteChain, KubeProxyStarts
<1>5. CASE Reboot
  BY <1>0, <1>5 DEF Reboot
<1> QED BY <1>1, <1>2, <1>3, <1>4, <1>5, NatSteps

LEMMA TopKeeps ==
  ASSUME Shape, CountShape, NatShape, TopEntries, [Next]_vars
  PROVE  TopEntries'
<1> SUFFICES ASSUME NEW j \in 1 .. Len(nat'["TOP"]) PROVE nat'["TOP"][j].to \in Sandbox
  BY DEF TopEntries
<1>0. nat \in [Chain -> Seq(Rule)] /\ "TOP" \in Chain
  BY Names DEF NatShape
<1>1. PICK u \in Seq(Rule) : u = nat["TOP"]
  BY <1>0
<1>2. PICK w : w = nat'["TOP"]
  OBVIOUS
<1>3. \A i \in 1 .. Len(u) : u[i].to \in Sandbox
  BY <1>1 DEF TopEntries
<1>4. CASE w = u \/ w = <<>>
  BY <1>2, <1>3, <1>4
<1>5. CASE Unlinks
  <2>1. PICK i \in 1 .. Len(u) : IsWithout(Rule, w, u, i)
    BY <1>1, <1>2, <1>5 DEF Unlinks
  <2>2. \/ j \in 1 .. i - 1 /\ j \in 1 .. Len(u) /\ w[j] = u[j]
        \/ j + 1 \in 1 .. Len(u) /\ w[j] = u[j + 1]
    <3>1. Len(w) = Len(u) - 1 /\ Len(u) \in Nat
      BY <2>1 DEF IsWithout
    <3>2. CASE j < i
      <4>1. j \in 1 .. i - 1 /\ j \in 1 .. Len(u)
        BY <1>2, <3>1, <3>2
      <4> QED BY <2>1, <4>1 DEF IsWithout
    <3>3. CASE j >= i
      <4>1. j \in i .. Len(u) - 1 /\ j + 1 \in 1 .. Len(u)
        BY <1>2, <3>1, <3>3
      <4> QED BY <2>1, <4>1 DEF IsWithout
    <3> QED BY <3>2, <3>3
  <2> QED BY <1>2, <1>3, <2>2
<1>6. CASE portmapCmdAdd /\ ~UNCHANGED <<chains, nat>>
  <2>1. PICK s, p, rules, er, n : s \in Sandbox /\ s = proc.sb /\ p = Program /\ Layout(p, n, s, rules, er)
    BY <1>6, CommandLayout
  <2>2. w = u \/ \E r \in Rule : r.to = s /\ w = Append(u, r)
    BY <1>1, <1>2, <1>6, <2>1, CommandChains DEF OwnRule, OwnEntry
  <2>3. ASSUME NEW r \in Rule, r.to = s, w = Append(u, r) PROVE w[j].to \in Sandbox
    <3>1. Len(w) = Len(u) + 1 /\ w[Len(u) + 1] = r /\ (\A m \in 1 .. Len(u) : w[m] = u[m]) /\ Len(u) \in Nat
      BY <2>3
    <3>2. j \in 1 .. Len(u) \/ j = Len(u) + 1
      BY <1>2, <3>1
    <3> QED BY <1>3, <2>1, <2>3, <3>1, <3>2
  <2> QED BY <1>2, <1>4, <2>2, <2>3
<1> QED BY <1>1, <1>2, <1>4, <1>5, <1>6, TopSteps

LEMMA EntryLastKeeps ==
  ASSUME Shape, CountShape, NatShape, ForwardFresh, EntryLast, [Next]_vars
  PROVE  EntryLast'
<1> SUFFICES ASSUME At("ADD", "portmap")', NEW j \in 1 .. Len(Program'), j >= proc'.k,
                    NEW i \in DOMAIN nat'["TOP"], nat'["TOP"][i].to = proc'.sb
             PROVE  Program'[j].chain # proc'.sb
  BY DEF EntryLast, Entries, ToSet
<1>0. ProcShape /\ nat \in [Chain -> Seq(Rule)] /\ "TOP" \in Chain
  BY ShapeParts, Names DEF NatShape
<1>1. PICK p : p = Program
  OBVIOUS
<1>2. /\ ~Reboot /\ proc'.sb = proc.sb /\ proc'.ip = proc.ip /\ proc.op = "ADD" /\ proc.sb \in Sandbox
      /\ \/ proc.pc # "portmap" /\ proc'.k = 1 /\ UNCHANGED <<chains, nat>>
         \/ portmapCmdAdd /\ Again /\ At("ADD", "portmap")
         \/ UNCHANGED proc /\ At("ADD", "portmap") /\ ~portmapCmdAdd
  BY Forwarding
<1>3. Program' = p
  BY <1>1, <1>2, ConfigurationStays, ProgramStays
<1>4. ASSUME nat'["TOP"] = nat["TOP"] PROVE Entries(proc.sb) # {}
  <2>1. nat["TOP"][i] \in Entries(proc.sb)
    BY <1>2, <1>4 DEF Entries, ToSet
  <2> QED BY <2>1
<1>5. CASE proc.pc # "portmap" /\ proc'.k = 1 /\ UNCHANGED <<chains, nat>>
  BY <1>2, <1>4, <1>5 DEF ForwardFresh, HasForward
<1>6. CASE UNCHANGED proc /\ At("ADD", "portmap") /\ ~portmapCmdAdd
  <2>1. nat'["TOP"] = nat["TOP"]
    BY <1>2, <1>6, TopSteps DEF At
  <2> QED BY <1>1, <1>3, <1>4, <1>6, <2>1 DEF EntryLast
<1>7. CASE portmapCmdAdd /\ Again /\ At("ADD", "portmap")
  <2>1. proc'.k = proc.k + 1 /\ proc.k \in Nat \ {0} /\ j \in Nat /\ j >= proc.k
    BY <1>0, <1>7, AgainFacts DEF CountShape
  <2>2. CASE nat'["TOP"] = nat["TOP"]
    BY <1>1, <1>2, <1>3, <1>4, <1>7, <2>1, <2>2 DEF EntryLast
  <2>3. CASE nat'["TOP"] # nat["TOP"]
    <3>1. PICK s, rules, er, n : s \in Sandbox /\ s = proc.sb /\ Layout(p, n, s, rules, er)
      BY <1>1, <1>7, <2>3, CommandLayout
    <3>2. proc.k >= n + 2 + Len(rules)
      BY <1>1, <1>7, <2>3, <3>1, CommandChains DEF OwnRule, OwnEntry
    <3>3. Placed(p, n, s, rules, er, j)
      BY <1>3, <3>1, Places
    <3>4. n \in Nat /\ Len(rules) \in Nat
      BY <3>1 DEF Layout
    <3>5. p[j].chain = "TOP"
      BY <2>1, <3>2, <3>3, <3>4 DEF Placed
    <3> QED BY <1>2, <1>3, <3>1, <3>5, Names
  <2> QED BY <2>2, <2>3
<1> QED BY <1>2, <1>5, <1>6, <1>7

ForwardInv == Progress /\ RunsForwarded /\ ChainInv /\ TopEntries /\ EntryLast

LEMMA InitForward == Init => ForwardInv
<1> SUFFICES ASSUME Init PROVE ForwardInv
  OBVIOUS
<1>1. ~At("ADD", "portmap")
  BY NoProcFacts DEF Init, At
<1>2. \A s \in Sandbox : sb[s] # "running"
  BY DEF Init
<1>3. \A c \in Chain : nat[c] = <<>>
  BY DEF Init
<1>4. ChainInv
  BY <1>3, Names DEF ChainInv
<1>5. TopEntries
  BY <1>3, Names DEF TopEntries
<1> QED BY <1>1, <1>2, <1>4, <1>5 DEF ForwardInv, Progress, RunsForwarded, EntryLast

LEMMA StepForward == IInv /\ RestInv /\ ForwardInv /\ [Next]_vars => ForwardInv'
<1> SUFFICES ASSUME IInv, RestInv, ForwardInv, [Next]_vars PROVE ForwardInv'
  OBVIOUS
<1>1. Shape /\ CountShape /\ NatShape /\ ForwardFresh
  BY DEF IInv, RestInv
<1>2. Progress /\ RunsForwarded /\ ChainInv /\ TopEntries /\ EntryLast
  BY DEF ForwardInv
<1>3. Progress' /\ RunsForwarded' /\ ChainInv'
  BY <1>1, <1>2, ProgressKeeps, RunsForwardedKeeps, ChainKeeps
<1>4. TopEntries' /\ EntryLast'
  BY <1>1, <1>2, TopKeeps, EntryLastKeeps
<1> QED BY <1>3, <1>4 DEF ForwardInv

LEMMA ForwardInvariant == Spec => [](IInv /\ RestInv /\ ForwardInv)
<1>1. Init => IInv /\ RestInv /\ ForwardInv
  BY InitIInv, InitRest, InitForward
<1>2. (IInv /\ RestInv /\ ForwardInv) /\ [Next]_vars => (IInv /\ RestInv /\ ForwardInv)'
  BY StepIInv, StepRest, StepForward
<1> QED BY <1>1, <1>2, PTL DEF Spec

(* The first place where a port is rewritten.                              *)
Place(w, t) ==
  \E i \in 1 .. Len(nat["TOP"]) : \E k \in 1 .. Len(nat[nat["TOP"][i].to]) :
    /\ w = <<i, k>> /\ t \in nat["TOP"][i].on
    /\ t \in nat[nat["TOP"][i].to][k].on /\ nat[nat["TOP"][i].to][k].to \in Addr

LEMMA Places1 ==
  ASSUME nat \in [Chain -> Seq(Rule)], TopEntries, NEW t, NEW w
  PROVE  w \in Rewrites(t) <=> Place(w, t)
<1>1. PICK u : u = nat["TOP"]
  OBVIOUS
<1>2. u \in Seq(Rule) /\ DOMAIN u = 1 .. Len(u)
  BY <1>1, Names
<1>3. \A i \in 1 .. Len(u) : nat[u[i].to] \in Seq(Rule) /\ DOMAIN nat[u[i].to] = 1 .. Len(nat[u[i].to])
  <2>1. \A i \in 1 .. Len(u) : u[i].to \in Chain
    BY <1>1, Names DEF TopEntries
  <2> QED BY <2>1
<1>4. PICK V : V = UNION {{i} \X DOMAIN nat[u[i].to] : i \in DOMAIN u}
  OBVIOUS
<1>5. w \in Rewrites(t) <=> /\ w \in V
                           /\ t \in u[w[1]].on /\ t \in nat[u[w[1]].to][w[2]].on
                           /\ nat[u[w[1]].to][w[2]].to \in Addr
  BY <1>1, <1>4 DEF Rewrites
<1>6. w \in V <=> \E i \in 1 .. Len(u) : \E k \in 1 .. Len(nat[u[i].to]) : w = <<i, k>>
  BY <1>2, <1>3, <1>4
<1>7. ASSUME NEW i, NEW k, w = <<i, k>> PROVE w[1] = i /\ w[2] = k
  BY <1>7
<1>8. ASSUME w \in Rewrites(t) PROVE Place(w, t)
  <2>1. PICK i \in 1 .. Len(u) : \E k \in 1 .. Len(nat[u[i].to]) : w = <<i, k>>
    BY <1>5, <1>6, <1>8
  <2>2. PICK k \in 1 .. Len(nat[u[i].to]) : w = <<i, k>>
    BY <2>1
  <2>3. w[1] = i /\ w[2] = k
    BY <1>7, <2>2
  <2>4. t \in u[i].on /\ t \in nat[u[i].to][k].on /\ nat[u[i].to][k].to \in Addr
    BY <1>5, <1>8, <2>3
  <2> QED BY <1>1, <2>1, <2>2, <2>4 DEF Place
<1>9. ASSUME Place(w, t) PROVE w \in Rewrites(t)
  <2>1. PICK i \in 1 .. Len(u) : \E k \in 1 .. Len(nat[u[i].to]) :
           w = <<i, k>> /\ t \in u[i].on /\ t \in nat[u[i].to][k].on /\ nat[u[i].to][k].to \in Addr
    BY <1>1, <1>9 DEF Place
  <2>2. PICK k \in 1 .. Len(nat[u[i].to]) :
           w = <<i, k>> /\ t \in u[i].on /\ t \in nat[u[i].to][k].on /\ nat[u[i].to][k].to \in Addr
    BY <2>1
  <2>3. w[1] = i /\ w[2] = k
    BY <1>7, <2>2
  <2>4. w \in V
    BY <1>6, <2>1, <2>2
  <2> QED BY <1>5, <2>2, <2>3, <2>4
<1> QED BY <1>8, <1>9

IsFirst(w, R) == w \in R /\ \A v \in R : w[1] < v[1] \/ (w[1] = v[1] /\ w[2] <= v[2])

LEMMA FirstExists ==
  ASSUME NEW R, R # {}, \A w \in R : w[1] \in Nat /\ w[2] \in Nat
  PROVE  \E w : IsFirst(w, R)
<1>1. PICK I : I = {w[1] : w \in R}
  OBVIOUS
<1>2. I \subseteq Nat /\ I # {}
  BY <1>1
<1>3. PICK i \in I : \A y \in I : i <= y
  BY <1>2, Least
<1>4. PICK K : K = {w[2] : w \in {v \in R : v[1] = i}}
  OBVIOUS
<1>5. K \subseteq Nat /\ K # {}
  BY <1>1, <1>3, <1>4
<1>6. PICK k \in K : \A y \in K : k <= y
  BY <1>5, Least
<1>7. PICK w \in R : w[1] = i /\ w[2] = k
  BY <1>4, <1>6
<1>8. ASSUME NEW v \in R PROVE w[1] < v[1] \/ (w[1] = v[1] /\ w[2] <= v[2])
  <2>1. v[1] \in I /\ i <= v[1] /\ i \in Nat /\ v[1] \in Nat
    BY <1>1, <1>2, <1>3
  <2>2. CASE v[1] = i
    <3>1. v[2] \in K
      BY <1>4, <2>2
    <3> QED BY <1>6, <1>7, <2>2, <3>1
  <2>3. CASE v[1] # i
    BY <1>7, <2>1, <2>3
  <2> QED BY <2>2, <2>3
<1> QED BY <1>7, <1>8 DEF IsFirst

LEMMA FirstFacts ==
  ASSUME nat \in [Chain -> Seq(Rule)], TopEntries, NEW t, Rewrites(t) # {}
  PROVE  /\ Place(First(t), t)
         /\ \A v : Place(v, t) => First(t)[1] < v[1] \/ (First(t)[1] = v[1] /\ First(t)[2] <= v[2])
<1>1. PICK R : R = Rewrites(t)
  OBVIOUS
<1>2. \A w \in R : w[1] \in Nat /\ w[2] \in Nat
  <2> SUFFICES ASSUME NEW w \in R PROVE w[1] \in Nat /\ w[2] \in Nat
    OBVIOUS
  <2>1. Place(w, t)
    BY <1>1, Places1
  <2>2. PICK i \in 1 .. Len(nat["TOP"]) : \E k \in 1 .. Len(nat[nat["TOP"][i].to]) : w = <<i, k>>
    BY <2>1 DEF Place
  <2>3. PICK k \in 1 .. Len(nat[nat["TOP"][i].to]) : w = <<i, k>>
    BY <2>2
  <2>4. i \in Nat /\ k \in Nat
    OBVIOUS
  <2> QED BY <2>3, <2>4
<1>3. \E w : IsFirst(w, R)
  BY <1>1, <1>2, FirstExists
<1>4. First(t) = CHOOSE w \in R : \A v \in R : w[1] < v[1] \/ (w[1] = v[1] /\ w[2] <= v[2])
  BY <1>1 DEF First
<1>5. PICK f : f = First(t)
  OBVIOUS
<1>6. f \in R /\ \A v \in R : f[1] < v[1] \/ (f[1] = v[1] /\ f[2] <= v[2])
  BY <1>3, <1>4, <1>5 DEF IsFirst
<1> QED BY <1>1, <1>5, <1>6, Places1

(* What the program of a running sandbox has put in place.                 *)
LEMMA RulesNotBlank ==
  ASSUME NEW s \in Sandbox, NEW ip \in Addr
  PROVE  fillDnatRules(s, ip).rules \in Seq(Rule \ {NoRule})
<1>1. PICK entries : entries = PortMaps[PodOf[s]]
  OBVIOUS
<1>2. entries \in Seq(Mapping)
  BY <1>1, PortMapFacts
<1>3. PICK n \in Nat : n = Len(entries) /\ DOMAIN entries = 1 .. n
  BY <1>2
<1>4. PICK ss : ss = [i \in 1 .. n |-> DnatRules(entries[i], ip)]
  OBVIOUS
<1>5. fillDnatRules(s, ip).rules = FlattenSeq(ss)
  BY <1>1, <1>3, <1>4 DEF fillDnatRules
<1>6. ASSUME NEW i \in 1 .. n PROVE ss[i] \in Seq(Rule \ {NoRule})
  <2>1. PICK P : P = {<<entries[i].proto, entries[i].port>>}
    OBVIOUS
  <2>2. P \in SUBSET Port /\ P # {}
    <3>1. entries[i] \in Mapping
      BY <1>2, <1>3
    <3> QED BY <2>1, <3>1 DEF Mapping
  <2>3. PICK a \in Rule : a = Mark(P, ip) /\ a.on = P
    BY <2>2, DnatRuleFacts
  <2>4. PICK b \in Rule : b = Mark(P, "localhost") /\ b.on = P
    BY <2>2, DnatRuleFacts
  <2>5. PICK c \in Rule : c = Rewrite(P, ip) /\ c.on = P
    BY <2>2, DnatRuleFacts
  <2>6. ss[i] = IF entries[i].host = "v6" THEN <<>> ELSE <<a, b, c>>
    BY <1>4, <2>1, <2>3, <2>4, <2>5 DEF DnatRules, Mark, Rewrite
  <2>7. a \in Rule \ {NoRule} /\ b \in Rule \ {NoRule} /\ c \in Rule \ {NoRule}
    BY <2>2, <2>3, <2>4, <2>5, RuleFacts
  <2>8. PICK T : T = Rule \ {NoRule}
    OBVIOUS
  <2>9. a \in T /\ b \in T /\ c \in T
    BY <2>7, <2>8
  <2>10. <<>> \in Seq(T) /\ <<a, b, c>> \in Seq(T)
    BY <2>9
  <2> QED BY <2>6, <2>8, <2>10
<1>7. ss \in Seq(Seq(Rule \ {NoRule}))
  <2>1. ss = [i \in 1 .. n |-> ss[i]]
    BY <1>4
  <2> QED BY <1>6, <2>1, FunctionIsSeq
<1>8. IsFlat(Rule \ {NoRule}, ss, FlattenSeq(ss))
  BY <1>7, FlattenFacts
<1> QED BY <1>5, <1>8 DEF IsFlat

LEMMA Inside ==
  ASSUME NEW n \in Nat, NEW m \in Nat, NEW q \in Nat, q >= n + 1 + m
  PROVE  /\ n + 1 \in 1 .. q
         /\ \A i \in 1 .. m : n + 1 + i \in 1 .. q
         /\ \A k \in n + 2 + m .. q : k \in 1 .. q
OBVIOUS

Marks ==
  external \/ (/\ Contains(nat["SETMARK"], Jump(Port, "MARK"))
               /\ Contains(nat["MASQ"], Jump(Port, "MASQUERADE"))
               /\ Contains(nat["POSTROUTING"], Jump(Port, "MASQ")))

InPlace(s, rules, er) ==
  /\ s \in chains /\ Hooked /\ Marks
  /\ \A i \in 1 .. Len(rules) : Contains(nat[s], rules[i])
  /\ \A g \in 1 .. Len(er) : Contains(nat["TOP"], Jump(er[g], s))

LEMMA RunFacts ==
  ASSUME NEW s \in Sandbox, NEW ip \in Addr, PortMaps[PodOf[s]] # <<>>,
         NEW p, p = forwardPorts(s, ip), \A j \in 1 .. Len(p) : Done(p[j]),
         NEW rules, rules = fillDnatRules(s, ip).rules, NEW er, er = fillDnatRules(s, ip).entryRules
  PROVE  InPlace(s, rules, er)
<1>1. PICK n : Layout(p, n, s, rules, er)
  BY LayoutFacts
<1>2. ASSUME NEW y, NEW r, HasCommand(p, y, r), r # NoRule PROVE Contains(nat[y], r)
  BY <1>2 DEF HasCommand, Done
<1>3. \A S, y : y # "RETURN" => Jump(S, y) # NoRule
  BY RuleFacts
<1>4. /\ HasCommand(p, "PREROUTING", Jump(Port, "TOP")) /\ HasCommand(p, "OUTPUT", Jump(Port, "TOP"))
      /\ ~external => /\ HasCommand(p, "SETMARK", Jump(Port, "MARK"))
                      /\ HasCommand(p, "MASQ", Jump(Port, "MASQUERADE"))
                      /\ HasCommand(p, "POSTROUTING", Jump(Port, "MASQ"))
  BY LayoutFacts
<1>5. Contains(nat["PREROUTING"], Jump(Port, "TOP")) /\ Contains(nat["OUTPUT"], Jump(Port, "TOP"))
  BY <1>2, <1>3, <1>4
<1>6. Hooked
  BY <1>5 DEF Hooked
<1>7. Marks
  BY <1>2, <1>3, <1>4 DEF Marks
<1>8. n \in Nat /\ Len(p) \in Nat /\ Len(rules) \in Nat /\ Len(p) >= n + 1 + Len(rules)
  <2>1. p \in Seq(Cmd) /\ rules \in Seq(Rule) /\ n \in Nat /\ Len(p) >= n + 1 + Len(rules)
    BY <1>1 DEF Layout
  <2>2. Len(p) \in Nat
    BY <2>1
  <2>3. Len(rules) \in Nat
    BY <2>1
  <2> QED BY <2>1, <2>2, <2>3
<1>9. s \in chains
  <2>1. n + 1 \in 1 .. Len(p)
    BY <1>8, Inside
  <2>2. p[n + 1] = Command(s, NoRule, FALSE)
    BY <1>1 DEF Layout
  <2> QED BY <2>1, <2>2 DEF Done, Command
<1>10. ASSUME NEW i \in 1 .. Len(rules) PROVE Contains(nat[s], rules[i])
  <2>1. n + 1 + i \in 1 .. Len(p)
    BY <1>8, Inside
  <2>2. p[n + 1 + i] = Command(s, rules[i], FALSE)
    BY <1>1 DEF Layout
  <2>3. rules[i] # NoRule
    BY RulesNotBlank
  <2> QED BY <2>1, <2>2, <2>3 DEF Done, Command
<1>11. ASSUME NEW g \in 1 .. Len(er) PROVE Contains(nat["TOP"], Jump(er[g], s))
  <2>1. PICK k \in n + 2 + Len(rules) .. Len(p) : p[k] = Command("TOP", Jump(er[g], s), FALSE)
    BY <1>1 DEF Layout
  <2>2. k \in 1 .. Len(p)
    BY <1>8, Inside
  <2>3. Jump(er[g], s) # NoRule
    BY <1>3, Names DEF Target
  <2>4. PICK r : r = Jump(er[g], s)
    OBVIOUS
  <2> QED BY <2>1, <2>2, <2>3, <2>4 DEF Done, Command
<1> QED BY <1>6, <1>7, <1>9, <1>10, <1>11 DEF InPlace

(* The ports of a sandbox are rewritten somewhere.                         *)
LEMMA PortPlace ==
  ASSUME nat \in [Chain -> Seq(Rule)], NEW s \in Sandbox, NEW ip \in Addr, NEW rules, NEW er,
         rules = fillDnatRules(s, ip).rules, er = fillDnatRules(s, ip).entryRules,
         InPlace(s, rules, er), NEW e \in ToSet(PortMaps[PodOf[s]]), e.host # "v6"
  PROVE  \E w : Place(w, <<e.proto, e.port>>)
<1>1. PICK entries : entries = PortMaps[PodOf[s]]
  OBVIOUS
<1>2. entries \in Seq(Mapping) /\ ToSet(entries) = {entries[i] : i \in 1 .. Len(entries)}
  BY <1>1, PortMapFacts
<1>3. PICK i \in 1 .. Len(entries) : entries[i] = e
  BY <1>1, <1>2
<1>4. PICK t : t = <<e.proto, e.port>>
  OBVIOUS
<1>5. er = EntryRules(entries)
  BY <1>1 DEF fillDnatRules
<1>6. PICK g \in 1 .. Len(er) : t \in er[g]
  BY <1>2, <1>3, <1>4, <1>5, EntryFacts
<1>7. PICK k \in 1 .. Len(rules) : rules[k] = Rewrite({t}, ip)
  <2>1. e = entries[i] /\ entries[i].host # "v6" /\ t = <<entries[i].proto, entries[i].port>>
    BY <1>3, <1>4
  <2>2. \E k \in 1 .. Len(rules) : rules[k] = Rewrite({<<entries[i].proto, entries[i].port>>}, ip)
    <3>1. HasRewrites(rules, entries, ip)
      BY <1>1, DnatFacts
    <3> QED BY <2>1, <3>1 DEF HasRewrites
  <2> QED BY <2>1, <2>2
<1>8. PICK u \in Seq(Rule) : u = nat["TOP"]
  BY Names
<1>9. PICK v \in Seq(Rule) : v = nat[s]
  BY Names
<1>10. PICK x \in 1 .. Len(u) : u[x] = Jump(er[g], s)
  BY <1>8 DEF InPlace, Contains
<1>11. PICK y \in 1 .. Len(v) : v[y] = Rewrite({t}, ip)
  BY <1>7, <1>9 DEF InPlace, Contains
<1>12. u[x].to = s /\ u[x].on = er[g]
  BY <1>10, RuleFacts
<1>13. v[y].to = ip /\ v[y].on = {t}
  BY <1>11 DEF Rewrite
<1>14. Place(<<x, y>>, t)
  BY <1>6, <1>8, <1>9, <1>12, <1>13 DEF Place
<1> QED BY <1>4, <1>14

(* From the end of its ADD to the start of its DEL every host port of a    *)
(* sandbox leads to it, marks and all, unless a sandbox that took the port *)
(* before is alive or was not cleaned up, whatever the port mappings, the  *)
(* number of ports that one entry can match and the faults.                *)
THEOREM PortsDelivered == Spec => []Delivers
<1>1. IInv /\ RestInv /\ ForwardInv => Delivers
  <2> SUFFICES ASSUME IInv, RestInv, ForwardInv, NEW s \in Sandbox, sb[s] = "running",
                      PortMaps[PodOf[s]] # <<>>
               PROVE  /\ checkPorts(s, net[s])
                      /\ \A e \in ToSet(PortMaps[PodOf[s]]) :
                           LET t == <<e.proto, e.port>>
                               r == Receiver(t)
                           IN /\ s \in chains
                              /\ e.host # "v6" =>
                                   /\ Hooked
                                   /\ r = s => nat[s][First(t)[2]].to = net[s] /\ MarkedBefore(s, First(t)[2], t)
                                   /\ r # s => r # None /\ (sb[r] \in Live \/ r \in Leftover)
    BY DEF Delivers, portmapCmdCheck, ToSet
  <2>0. /\ SbShape /\ LinkShape /\ RunInv /\ nat \in [Chain -> Seq(Rule)] /\ TopEntries /\ ChainInv
        /\ ForwardFresh
    BY ShapeParts DEF IInv, RestInv, ForwardInv, NatShape
  <2>1. PICK ip \in Addr : ip = net[s]
    BY <2>0 DEF RunInv, LinkShape
  <2>2. PICK p : p = forwardPorts(s, ip)
    OBVIOUS
  <2>3. PICK rules : rules = fillDnatRules(s, ip).rules
    OBVIOUS
  <2>4. PICK er : er = fillDnatRules(s, ip).entryRules
    OBVIOUS
  <2>5. \A j \in 1 .. Len(p) : Done(p[j])
    BY <2>1, <2>2 DEF ForwardInv, RunsForwarded, RunProgram
  <2>6. InPlace(s, rules, er)
    BY <2>2, <2>3, <2>4, <2>5, RunFacts
  <2>7. s \in chains /\ Hooked /\ Marks
    BY <2>6 DEF InPlace
  <2>8. checkPorts(s, net[s])
    <3>1. PICK c : c = fillDnatRules(s, ip)
      OBVIOUS
    <3>2. c.name = s /\ c.entryChains = <<"TOP">> /\ c.rules = rules /\ c.entryRules = er
      BY <2>3, <2>4, <3>1 DEF fillDnatRules
    <3>3. rules \in Seq(Rule) /\ er \in Seq(SUBSET Port) /\ nat[s] \in Seq(Rule)
      <4>1. er = EntryRules(PortMaps[PodOf[s]])
        BY <2>4 DEF fillDnatRules
      <4>2. PortMaps[PodOf[s]] \in Seq(Mapping)
        BY PortMapFacts
      <4> QED BY <2>0, <2>3, <4>1, <4>2, DnatFacts, EntryFacts, Names
    <3>4. ASSUME NEW r \in ToSet(rules) PROVE r \in ToSet(nat[s])
      <4>1. PICK i \in 1 .. Len(rules) : r = rules[i]
        BY <3>3 DEF ToSet
      <4>2. Contains(nat[s], r)
        BY <2>6, <4>1 DEF InPlace
      <4> QED BY <3>3, <4>2 DEF Contains, ToSet
    <3>5. ASSUME NEW i \in DOMAIN c.entryChains, NEW j \in DOMAIN c.entryRules
          PROVE  Contains(nat[c.entryChains[i]], Jump(c.entryRules[j], c.name))
      <4>1. c.entryChains[i] = "TOP"
        BY <3>2
      <4>2. j \in 1 .. Len(er)
        BY <3>2, <3>3
      <4> QED BY <2>6, <3>2, <4>1, <4>2 DEF InPlace
    <3>6. check(c)
      BY <2>7, <3>2, <3>4, <3>5 DEF check
    <3> QED BY <2>1, <3>1, <3>6 DEF checkPorts
  <2>9. ASSUME NEW e \in ToSet(PortMaps[PodOf[s]]), e.host # "v6", NEW t, t = <<e.proto, e.port>>,
               NEW r, r = Receiver(t)
        PROVE  /\ r = s => nat[s][First(t)[2]].to = net[s] /\ MarkedBefore(s, First(t)[2], t)
               /\ r # s => r # None /\ (sb[r] \in Live \/ r \in Leftover)
    <3>1. PICK w : Place(w, t)
      BY <2>0, <2>3, <2>4, <2>6, <2>9, PortPlace
    <3>2. Rewrites(t) # {}
      BY <2>0, <3>1, Places1
    <3>3. PICK f : f = First(t)
      OBVIOUS
    <3>4. Place(f, t)
      BY <2>0, <3>2, <3>3, FirstFacts
    <3>5. PICK i \in 1 .. Len(nat["TOP"]) : \E k \in 1 .. Len(nat[nat["TOP"][i].to]) :
            /\ f = <<i, k>> /\ t \in nat["TOP"][i].on
            /\ t \in nat[nat["TOP"][i].to][k].on /\ nat[nat["TOP"][i].to][k].to \in Addr
      BY <3>4 DEF Place
    <3>6. r = nat["TOP"][i].to
      BY <2>9, <3>2, <3>3, <3>5 DEF Receiver
    <3>7. PICK k \in 1 .. Len(nat[r]) : f = <<i, k>> /\ t \in nat[r][k].on /\ nat[r][k].to \in Addr
      BY <3>5, <3>6
    <3>8. f[2] = k
      BY <3>7
    <3>9. r \in Sandbox
      BY <2>0, <3>6 DEF TopEntries
    <3>10. CASE r = s
      <4>1. MarkedRule(s, k) /\ nat[s][k].to = net[s]
        BY <2>0, <3>7, <3>10 DEF ChainInv
      <4>2. \A from \in {nat[s][k].to, "localhost"} : \E l \in 1 .. k - 1 :
              t \in nat[s][l].on /\ nat[s][l].from = from /\ nat[s][l].to = SetMarkChainName
        BY <3>7, <3>10, <4>1 DEF MarkedRule, Mark
      <4>3. MarkedBefore(s, k, t)
        BY <2>7, <4>2 DEF MarkedBefore, Marks
      <4> QED BY <3>3, <3>8, <3>10, <4>1, <4>3
    <3>11. CASE r # s
      <4>1. r # None
        BY <3>9, Consts
      <4>2. nat["TOP"][i] \in Entries(r)
        <5>1. nat["TOP"] \in Seq(Rule)
          BY <2>0, Names
        <5> QED BY <3>6, <5>1 DEF Entries, ToSet
      <4>3. sb[r] # "none"
        BY <2>0, <3>9, <4>2 DEF ForwardFresh, HasForward
      <4> QED BY <2>0, <3>9, <3>11, <4>1, <4>2, <4>3 DEF SbShape, Leftover
    <3> QED BY <3>10, <3>11
  <2> QED BY <2>7, <2>8, <2>9
<1> QED BY <1>1, ForwardInvariant, PTL

(* A sandbox receives a port when the first entry that takes the packet to *)
(* a rewrite is one of its own.                                            *)
Serves(c, t) == \E k \in 1 .. Len(nat[c]) : t \in nat[c][k].on /\ nat[c][k].to \in Addr
Hit(i, t) == i \in 1 .. Len(nat["TOP"]) /\ t \in nat["TOP"][i].on /\ Serves(nat["TOP"][i].to, t)
Leads(s, t) == \E i : /\ Hit(i, t) /\ nat["TOP"][i].to = s
                      /\ \A j \in 1 .. Len(nat["TOP"]) : Hit(j, t) => i <= j
ReceiverLeads == \A s \in Sandbox, t \in Port : Receiver(t) = s <=> Leads(s, t)

LEMMA HitPlace ==
  ASSUME NEW t
  PROVE  /\ \A i : Hit(i, t) => \E k : Place(<<i, k>>, t)
         /\ \A w : Place(w, t) => Hit(w[1], t) /\ w[1] \in 1 .. Len(nat["TOP"])
<1>1. ASSUME NEW i, Hit(i, t) PROVE \E k : Place(<<i, k>>, t)
  <2>1. PICK k \in 1 .. Len(nat[nat["TOP"][i].to]) :
          t \in nat[nat["TOP"][i].to][k].on /\ nat[nat["TOP"][i].to][k].to \in Addr
    BY <1>1 DEF Hit, Serves
  <2>2. Place(<<i, k>>, t)
    BY <1>1, <2>1 DEF Hit, Place
  <2> QED BY <2>2
<1>2. ASSUME NEW w, Place(w, t) PROVE Hit(w[1], t) /\ w[1] \in 1 .. Len(nat["TOP"])
  <2>1. PICK i \in 1 .. Len(nat["TOP"]) : \E k \in 1 .. Len(nat[nat["TOP"][i].to]) :
            /\ w = <<i, k>> /\ t \in nat["TOP"][i].on
            /\ t \in nat[nat["TOP"][i].to][k].on /\ nat[nat["TOP"][i].to][k].to \in Addr
    BY <1>2 DEF Place
  <2>2. w[1] = i
    BY <2>1
  <2>3. Hit(i, t)
    BY <2>1 DEF Hit, Serves
  <2> QED BY <2>2, <2>3
<1> QED BY <1>1, <1>2

LEMMA ReceiverIsLead == NatShape /\ TopEntries => ReceiverLeads
<1> SUFFICES ASSUME NatShape, TopEntries, NEW s \in Sandbox, NEW t \in Port
             PROVE  Receiver(t) = s <=> Leads(s, t)
  BY DEF ReceiverLeads
<1>0. nat \in [Chain -> Seq(Rule)] /\ s # None
  BY Consts DEF NatShape
<1>1. PICK f : f = First(t)
  OBVIOUS
<1>2. ASSUME Rewrites(t) # {}
      PROVE  /\ Receiver(t) = nat["TOP"][f[1]].to /\ Hit(f[1], t) /\ f[1] \in 1 .. Len(nat["TOP"])
             /\ \A j \in 1 .. Len(nat["TOP"]) : Hit(j, t) => f[1] <= j
  <2>1. Receiver(t) = nat["TOP"][f[1]].to
    BY <1>1, <1>2 DEF Receiver
  <2>2. Place(f, t) /\ \A v : Place(v, t) => f[1] < v[1] \/ (f[1] = v[1] /\ f[2] <= v[2])
    BY <1>0, <1>1, <1>2, FirstFacts
  <2>3. Hit(f[1], t) /\ f[1] \in 1 .. Len(nat["TOP"])
    BY <2>2, HitPlace
  <2>4. ASSUME NEW j \in 1 .. Len(nat["TOP"]), Hit(j, t) PROVE f[1] <= j
    <3>1. PICK k : Place(<<j, k>>, t)
      BY <2>4, HitPlace
    <3>2. PICK v : v = <<j, k>>
      OBVIOUS
    <3>3. v[1] = j /\ Place(v, t)
      BY <3>1, <3>2
    <3>4. f[1] < j \/ f[1] = j
      BY <2>2, <3>3
    <3> QED BY <2>3, <3>4
  <2> QED BY <2>1, <2>3, <2>4
<1>3. ASSUME Receiver(t) = s PROVE Leads(s, t)
  <2>1. Rewrites(t) # {}
    BY <1>0, <1>3 DEF Receiver
  <2> QED BY <1>2, <1>3, <2>1 DEF Leads
<1>4. ASSUME Leads(s, t) PROVE Receiver(t) = s
  <2>1. PICK i : /\ Hit(i, t) /\ nat["TOP"][i].to = s
                 /\ \A j \in 1 .. Len(nat["TOP"]) : Hit(j, t) => i <= j
    BY <1>4 DEF Leads
  <2>2. i \in 1 .. Len(nat["TOP"])
    BY <2>1 DEF Hit
  <2>3. Rewrites(t) # {}
    <3>1. PICK k : Place(<<i, k>>, t)
      BY <2>1, HitPlace
    <3> QED BY <1>0, <3>1, Places1
  <2>4. f[1] <= i /\ i <= f[1] /\ f[1] \in 1 .. Len(nat["TOP"])
    BY <1>2, <2>1, <2>2, <2>3
  <2>5. f[1] = i
    BY <2>2, <2>4
  <2> QED BY <1>2, <2>1, <2>3, <2>5
<1> QED BY <1>3, <1>4

(* A sandbox that has entries gets no more rules.                          *)
LEMMA ServesLess ==
  ASSUME Shape, CountShape, NatShape, EntryLast, [Next]_vars, NEW r \in Sandbox, Entries(r) # {}
  PROVE  nat'[r] = nat[r] \/ nat'[r] = <<>>
<1>1. CASE portmapCmdAdd /\ r = proc.sb /\ ~UNCHANGED <<chains, nat>>
  <2>1. PICK ip, p, rules, er, n : p = Program /\ Layout(p, n, r, rules, er)
    BY <1>1, CommandLayout
  <2>2. /\ proc.k \in 1 .. Len(p)
        /\ nat'[r] = nat[r] \/ OwnRule(rules, p, n, r) \/ OwnEntry(rules, p, n, r)
    BY <1>1, <2>1, CommandChains
  <2>3. ASSUME OwnRule(rules, p, n, r) PROVE FALSE
    <3>1. PICK i \in 1 .. Len(rules) : proc.k = n + 1 + i
      BY <2>3 DEF OwnRule
    <3>2. p[n + 1 + i] = Command(r, rules[i], FALSE)
      BY <2>1 DEF Layout
    <3>3. p[proc.k].chain = r
      BY <3>1, <3>2 DEF Command
    <3>4. At("ADD", "portmap")
      BY <1>1, PortFacts
    <3>5. proc.k >= proc.k
      BY DEF CountShape
    <3> QED BY <1>1, <2>1, <2>2, <3>3, <3>4, <3>5 DEF EntryLast
  <2> QED BY <2>2, <2>3 DEF OwnEntry
<1> QED BY <1>1, ChainSteps

LEMMA LeadsStay ==
  ASSUME IInv, RestInv, ForwardInv, [Next]_vars, NEW s \in Sandbox, sb[s] = "running",
         sb'[s] = "running", NEW t, Leads(s, t)
  PROVE  Leads(s, t)'
<1>0. /\ Shape /\ CountShape /\ NatShape /\ EntryLast /\ TopEntries /\ ProcShape /\ SbShape
      /\ nat \in [Chain -> Seq(Rule)] /\ "TOP" \in Chain
  BY ShapeParts, Names DEF IInv, RestInv, ForwardInv, NatShape
<1>1. PICK u \in Seq(Rule) : u = nat["TOP"]
  BY <1>0
<1>2. PICK w : w = nat'["TOP"]
  OBVIOUS
<1>3. PICK m \in Nat : m = Len(u)
  OBVIOUS
<1>4. PICK V : V = {c \in Sandbox : Serves(c, t)}
  OBVIOUS
<1>5. PICK W : W = {c \in Sandbox : Serves(c, t)'}
  OBVIOUS
<1>6. \A i \in 1 .. m : u[i].to \in Sandbox
  BY <1>0, <1>1, <1>3 DEF TopEntries
<1>7. \A i : Hit(i, t) <=> i \in 1 .. m /\ t \in u[i].on /\ u[i].to \in V
  BY <1>1, <1>3, <1>4, <1>6 DEF Hit
<1>8. PICK i \in 1 .. m : /\ t \in u[i].on /\ u[i].to = s /\ s \in V
                          /\ \A j \in 1 .. m : t \in u[j].on /\ u[j].to \in V => i <= j
  BY <1>1, <1>3, <1>7 DEF Leads
<1>9. ~Reboot /\ ~(proc.op = "DEL" /\ proc.sb = s)
  BY NetStays
<1>10. s \in W
  <2>1. ~(portmapCmdAdd /\ s = proc.sb)
    BY <1>0, PortFacts DEF ProcShape, At
  <2>2. nat'[s] = nat[s]
    BY <1>0, <1>9, <2>1, ChainSteps
  <2> QED BY <1>4, <1>5, <1>8, <2>2 DEF Serves
<1>11. \A j \in 1 .. m : u[j].to \in W => u[j].to \in V
  <2> SUFFICES ASSUME NEW j \in 1 .. m, u[j].to \in W PROVE u[j].to \in V
    OBVIOUS
  <2>1. PICK r \in Sandbox : r = u[j].to
    BY <1>6
  <2>2. u[j] \in Entries(r)
    BY <1>1, <1>3, <2>1 DEF Entries, ToSet
  <2>3. nat'[r] = nat[r] \/ nat'[r] = <<>>
    BY <1>0, <2>2, ServesLess
  <2>4. Serves(r, t)'
    BY <1>5, <2>1
  <2>5. PICK k \in 1 .. Len(nat'[r]) : t \in nat'[r][k].on /\ nat'[r][k].to \in Addr
    BY <2>4 DEF Serves
  <2>6. nat'[r] = nat[r]
    BY <2>3, <2>5
  <2>7. Serves(r, t)
    BY <2>5, <2>6 DEF Serves
  <2> QED BY <1>4, <2>1, <2>7
<1>12. ASSUME NEW x \in 1 .. Len(w), t \in w[x].on, w[x].to = s,
              \A y \in 1 .. Len(w) : t \in w[y].on /\ w[y].to \in W => x <= y
       PROVE  Leads(s, t)'
  <2>1. TopEntries'
    BY <1>0, TopKeeps
  <2>2. \A y \in 1 .. Len(w) : w[y].to \in Sandbox
    BY <1>2, <2>1 DEF TopEntries
  <2>3. \A y : Hit(y, t)' <=> y \in 1 .. Len(w) /\ t \in w[y].on /\ w[y].to \in W
    <3> SUFFICES ASSUME NEW y PROVE Hit(y, t)' <=> y \in 1 .. Len(w) /\ t \in w[y].on /\ w[y].to \in W
      OBVIOUS
    <3>1. CASE y \in 1 .. Len(w)
      <4>1. PICK c \in Sandbox : c = w[y].to
        BY <2>2, <3>1
      <4>2. Serves(c, t)' <=> c \in W
        BY <1>5
      <4> QED BY <1>2, <3>1, <4>1, <4>2 DEF Hit, Serves
    <3>2. CASE y \notin 1 .. Len(w)
      BY <1>2, <3>2 DEF Hit
    <3> QED BY <3>1, <3>2
  <2>4. Hit(x, t)'
    BY <1>10, <1>12, <2>3
  <2>5. \A y \in 1 .. Len(w) : Hit(y, t)' => x <= y
    BY <1>12, <2>3
  <2> QED BY <1>2, <1>12, <2>4, <2>5 DEF Leads
<1>13. CASE w = u
  BY <1>3, <1>8, <1>11, <1>12, <1>13
<1>14. CASE proc.op = "DEL" /\ Unlinks
  <2>1. PICK x \in 1 .. m : u[x].to = proc.sb /\ IsWithout(Rule, w, u, x)
    BY <1>1, <1>2, <1>3, <1>14 DEF Unlinks
  <2>2. x # i
    BY <1>8, <1>9, <1>14, <2>1
  <2>3. /\ Len(w) = m - 1 /\ (\A k \in 1 .. x - 1 : w[k] = u[k])
        /\ \A k \in x .. m - 1 : w[k] = u[k + 1]
    BY <1>3, <2>1 DEF IsWithout
  <2>4. \A y \in 1 .. m - 1 : \/ y < x /\ y \in 1 .. m /\ w[y] = u[y]
                              \/ y >= x /\ y + 1 \in 1 .. m /\ w[y] = u[y + 1]
    BY <2>3
  <2>5. CASE i < x
    <3>1. i \in 1 .. Len(w) /\ w[i] = u[i]
      BY <2>3, <2>5
    <3>2. \A y \in 1 .. Len(w) : t \in w[y].on /\ w[y].to \in W => i <= y
      <4> SUFFICES ASSUME NEW y \in 1 .. Len(w), t \in w[y].on, w[y].to \in W PROVE i <= y
        OBVIOUS
      <4>1. \/ y < x /\ y \in 1 .. m /\ w[y] = u[y]
            \/ y >= x /\ y + 1 \in 1 .. m /\ w[y] = u[y + 1]
        BY <2>3, <2>4
      <4>2. CASE y >= x
        BY <2>5, <4>2
      <4>3. CASE y \in 1 .. m /\ w[y] = u[y]
        BY <1>8, <1>11, <4>3
      <4> QED BY <4>1, <4>2, <4>3
    <3> QED BY <1>8, <1>12, <3>1, <3>2
  <2>6. CASE i > x
    <3>1. i - 1 \in 1 .. Len(w) /\ i - 1 \in x .. m - 1 /\ i - 1 + 1 = i
      BY <2>3, <2>6
    <3>2. w[i - 1] = u[i]
      BY <2>3, <3>1
    <3>3. \A y \in 1 .. Len(w) : t \in w[y].on /\ w[y].to \in W => i - 1 <= y
      <4> SUFFICES ASSUME NEW y \in 1 .. Len(w), t \in w[y].on, w[y].to \in W PROVE i - 1 <= y
        OBVIOUS
      <4>1. \/ y < x /\ y \in 1 .. m /\ w[y] = u[y]
            \/ y >= x /\ y + 1 \in 1 .. m /\ w[y] = u[y + 1]
        BY <2>3, <2>4
      <4>2. CASE y < x /\ y \in 1 .. m /\ w[y] = u[y]
        <5>1. i <= y
          BY <1>8, <1>11, <4>2
        <5> QED BY <5>1
      <4>3. CASE y >= x /\ y + 1 \in 1 .. m /\ w[y] = u[y + 1]
        <5>1. i <= y + 1
          BY <1>8, <1>11, <4>3
        <5> QED BY <5>1
      <4> QED BY <4>1, <4>2, <4>3
    <3> QED BY <1>8, <1>12, <3>1, <3>2, <3>3
  <2> QED BY <2>2, <2>5, <2>6
<1>15. CASE portmapCmdAdd /\ ~UNCHANGED <<chains, nat>>
  <2>1. PICK q, p, rules, er, n : q \in Sandbox /\ q = proc.sb /\ p = Program /\ Layout(p, n, q, rules, er)
    BY <1>0, <1>15, CommandLayout
  <2>2. w = u \/ \E r \in Rule : w = Append(u, r)
    BY <1>0, <1>1, <1>2, <1>15, <2>1, CommandChains DEF OwnRule, OwnEntry
  <2>3. ASSUME NEW r \in Rule, w = Append(u, r) PROVE Leads(s, t)'
    <3>1. Len(w) = m + 1 /\ \A k \in 1 .. m : w[k] = u[k]
      BY <1>3, <2>3
    <3>2. i \in 1 .. Len(w) /\ w[i] = u[i]
      BY <3>1
    <3>3. \A y \in 1 .. Len(w) : t \in w[y].on /\ w[y].to \in W => i <= y
      <4> SUFFICES ASSUME NEW y \in 1 .. Len(w), t \in w[y].on, w[y].to \in W PROVE i <= y
        OBVIOUS
      <4>1. y \in 1 .. m \/ y = m + 1
        BY <3>1
      <4>2. CASE y = m + 1
        BY <4>2
      <4>3. CASE y \in 1 .. m
        BY <1>8, <1>11, <3>1, <4>3
      <4> QED BY <4>1, <4>2, <4>3
    <3> QED BY <1>8, <1>12, <3>2, <3>3
  <2> QED BY <1>13, <2>2, <2>3
<1> QED BY <1>0, <1>1, <1>2, <1>9, <1>13, <1>14, <1>15, TopSteps

(* A sandbox that receives a host port keeps it while it runs, later ADDs  *)
(* that claim the port included: entries are appended, and removed only    *)
(* with the sandbox they lead to.  This is more than NoCapture says, and   *)
(* not what the package comment of portmap promises (last-write-wins).     *)
LEMMA ReceiverStays ==
  ASSUME IInv, RestInv, ForwardInv, [Next]_vars, NatShape' /\ TopEntries' => ReceiverLeads',
         NEW s \in Sandbox, NEW t \in Port, Receiver(t) = s, sb[s] = "running", sb'[s] = "running"
  PROVE  Receiver(t)' = s
<1>1. NatShape /\ TopEntries
  BY DEF RestInv, ForwardInv
<1>2. Leads(s, t)
  BY <1>1, ReceiverIsLead DEF ReceiverLeads
<1>3. Leads(s, t)'
  BY <1>2, LeadsStay
<1>4. NatShape' /\ TopEntries'
  BY StepRest, StepForward DEF RestInv, ForwardInv
<1> QED BY <1>3, <1>4 DEF ReceiverLeads

(* A host port passes from a running sandbox to no one but a sandbox whose *)
(* own ADD claims it (DeleteEntries, portmapCmdAdd).                       *)
THEOREM PortsNotCaptured == Spec => NoCapture
<1>1. NatShape' /\ TopEntries' => ReceiverLeads'
  BY ReceiverIsLead, PTL
<1>2. IInv /\ RestInv /\ ForwardInv /\ [Next]_vars =>
        [\A s \in Sandbox, t \in Port :
           (Receiver(t) = s /\ sb[s] = "running" /\ sb'[s] = "running") =>
             Receiver(t)' \in {s} \cup Claimant]_vars
  BY <1>1, ReceiverStays
<1> QED BY <1>2, ForwardInvariant, PTL DEF NoCapture, Spec
=============================================================================
