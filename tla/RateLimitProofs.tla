-------------------------- MODULE RateLimitProofs --------------------------
(***************************************************************************)
(* Theorems about the navigation throttle, for every set of rules, every   *)
(* number of calls and every bound.                                        *)
(***************************************************************************)
EXTENDS RateLimit, FiniteSetTheorems, WellFoundedInduction, TLAPS

----------------------------------------------------------------------------
(* The calls                                                               *)

\* A call has read the clock, waits for its slot, and goes no earlier.
Sound(n) ==
    /\ clock[n] <= now
    /\ pc[n] = "locking" => now - clock[n] <= MaxLag
    /\ pc[n] \in {"idle", "locking", "refused"} => slot[n] = NoSlot
    /\ slot[n] # NoSlot => slot[n].dom \in Domains /\ slot[n].under <= swaps
    /\ pc[n] = "sleeping" => slot[n] # NoSlot /\ slot[n].at <= alarm[n]
    /\ pc[n] \in {"reserved", "committed"} /\ slot[n] # NoSlot => slot[n].at <= now

CallInv == TypeOK /\ \A n \in Navigations : Sound(n)

----------------------------------------------------------------------------
(* The cap                                                                 *)

\* The Max last entries, the first of which the next grant goes by: those from a on.
Heads(s, max, a) == {i \in 1..Len(s) : i > Len(s) - max /\ s[i] >= a}

\* No call will be granted a slot before e.
Over(e) == now >= e /\ \A n \in Navigations : pc[n] = "locking" => clock[n] >= e

\* The slots of a span are as many as the heads from its start on, which are Max at
\* most, or it is over.
SpanInv(d, start) ==
    LET len == rules[d].window - MaxLag
        N == Cardinality(LiveIn(d, len, start)) IN
      /\ N <= rules[d].max
      /\ Over(start + len) \/ N <= Cardinality(Heads(grants[d], rules[d].max, start))

CapInv ==
    ~returned => \A d \in DOMAIN rules : Throttled(d) => \A start \in Times : SpanInv(d, start)

----------------------------------------------------------------------------
(* Least and greatest                                                      *)

LEMMA LeastNumber ==
    ASSUME NEW S \in SUBSET Nat, S # {}
    PROVE  \E m \in S : \A n \in S : m <= n
<1>1. PICK m \in S : \A n \in S : <<n, m>> \notin OpToRel(<, Nat)
  BY NatLessThanWellFounded, WFMin
<1>2. \A n \in S : ~(n < m)
  BY <1>1 DEF OpToRel
<1>. QED
  BY <1>2

\* A finite set has an element where a function is greatest: in a least subset without
\* one, leave out an element.
LEMMA Greatest ==
    ASSUME NEW C, IsFiniteSet(C), C # {}, NEW f \in [C -> Int]
    PROVE  \E x \in C : \A y \in C : f[y] <= f[x]
<1> DEFINE Has(U) == \E x \in U : \A y \in U : f[y] <= f[x]
           Without == {U \in FiniteSubsetsOf(C) : U # {} /\ ~Has(U)}
<1>1. SUFFICES ASSUME Without # {} PROVE FALSE
  BY DEF FiniteSubsetsOf
<1>2. PICK U \in Without : \A V \in Without : <<V, U>> \notin StrictSubsetOrdering(C)
  BY <1>1, FS_StrictSubsetOrderingWellFounded, WFMin
<1>3. PICK x \in U : TRUE
  OBVIOUS
<1>4. U \subseteq C /\ IsFiniteSet(U) /\ ~Has(U)
  BY DEF FiniteSubsetsOf
<1>5. PICK V : V = U \ {x}
  OBVIOUS
<1>6. V \subseteq C /\ IsFiniteSet(V) /\ <<V, U>> \in StrictSubsetOrdering(C)
  BY <1>3, <1>4, <1>5, FS_RemoveElement DEF StrictSubsetOrdering
<1>7. V = {} \/ Has(V)
  BY <1>2, <1>6 DEF FiniteSubsetsOf
<1>8. f[x] \in Int /\ \A y \in U : f[y] \in Int
  BY <1>3, <1>4
<1>9. CASE V = {}
  BY <1>3, <1>4, <1>5, <1>8, <1>9
<1>10. CASE Has(V)
  <2>1. PICK z \in V : \A y \in V : f[y] <= f[z]
    BY <1>10
  <2>2. CASE f[x] <= f[z]
    <3>1. \A y \in U : f[y] <= f[z]
      BY <1>5, <2>1, <2>2
    <3>. QED
      BY <1>4, <1>5, <2>1, <3>1
  <2>3. CASE f[z] <= f[x]
    <3>1. \A y \in U : f[y] <= f[x]
      BY <1>5, <1>8, <2>1, <2>3
    <3>. QED
      BY <1>3, <1>4, <3>1
  <2>. QED
    BY <1>5, <1>8, <2>1, <2>2, <2>3
<1>. QED
  BY <1>7, <1>9, <1>10

LEMMA MaxIs ==
    ASSUME NEW S \in SUBSET Int, IsFiniteSet(S), S # {}
    PROVE  Max(S) \in S /\ \A x \in S : x <= Max(S)
<1>1. [x \in S |-> x] \in [S -> Int]
  OBVIOUS
<1>2. PICK x \in S : \A y \in S : [z \in S |-> z][y] <= [z \in S |-> z][x]
  BY <1>1, Greatest
<1>3. \A y \in S : x >= y
  BY <1>2
<1>. QED
  BY <1>3 DEF Max

LEMMA MaxOfTwo ==
    ASSUME NEW a \in Int, NEW b \in Int
    PROVE  Max({a, b}) \in {a, b} /\ a <= Max({a, b}) /\ b <= Max({a, b})
<1>1. IsFiniteSet({a} \union {b})
  BY FS_Singleton, FS_AddElement
<1>2. {a} \union {b} = {a, b} /\ {a, b} \in SUBSET Int /\ {a, b} # {}
  OBVIOUS
<1>. QED
  BY <1>1, <1>2, MaxIs

----------------------------------------------------------------------------
(* What the operators give                                                 *)

\* A rule that applies is one of those that are configured.
LEMMA MatchIs ==
    ASSUME TypeOK, NEW h \in Hosts, Throttled(Match(h))
    PROVE  LET d == Match(h) IN
           d \in Domains /\ d \in DOMAIN rules /\ rules[d].max \in Nat \ {0} /\ rules[d].window \in Nat \ {0}
<1> DEFINE C == Parents[h] \intersect DOMAIN rules
<1>1. /\ rules \in RuleSets /\ Parents[h] \subseteq Domains /\ IsFiniteSet(Parents[h])
      /\ DOMAIN rules \subseteq Domains /\ \A d \in DOMAIN rules : rules[d] \in Rule
      /\ Labels \in [Domains -> Nat]
  BY RateLimitAssumption DEF TypeOK
<1>2. C # {} /\ IsFiniteSet(C) /\ C \subseteq Domains
  BY <1>1, FS_Subset DEF Match, Throttled
<1>3. PICK x \in C : \A y \in C : Labels[y] <= Labels[x]
  <2>1. [e \in C |-> Labels[e]] \in [C -> Int]
    BY <1>1, <1>2
  <2>2. PICK x \in C : \A y \in C : [e \in C |-> Labels[e]][y] <= [e \in C |-> Labels[e]][x]
    BY <1>2, <2>1, Greatest
  <2>. QED
    BY <2>2
<1>4. Match(h) \in C
  BY <1>2, <1>3 DEF Match
<1>5. rules[Match(h)] \in Rule /\ rules[Match(h)].max > 0 /\ rules[Match(h)].window > 0
  BY <1>1, <1>4 DEF Throttled
<1>. QED
  BY <1>2, <1>4, <1>5 DEF Rule

\* A rule that is kept, as Reserve and Status test it.
LEMMA RuleIs ==
    ASSUME TypeOK, NEW d \in DOMAIN rules, Throttled(d)
    PROVE  d \in Domains /\ rules[d].max \in Nat \ {0} /\ rules[d].window \in Nat \ {0}
<1>1. d \in Domains /\ rules[d] \in Rule
  BY RateLimitAssumption DEF TypeOK
<1>. QED
  BY <1>1 DEF Rule, Throttled

LEMMA EarliestIs ==
    ASSUME TypeOK, NEW d \in DOMAIN rules, rules[d].max \in Nat \ {0}, rules[d].window \in Nat \ {0},
           NEW g \in Seq(Times), NEW t \in Nat
    PROVE  LET at == Earliest(d, g, t)
               i == Len(g) - rules[d].max + 1 IN
           /\ at \in Nat /\ t <= at
           /\ Len(g) < rules[d].max => at = t
           /\ Len(g) >= rules[d].max =>
                i \in 1..Len(g) /\ g[i] \in Nat /\ g[i] + rules[d].window <= at /\ at \in {t, g[i] + rules[d].window}
<1>1. CASE Len(g) < rules[d].max
  BY <1>1 DEF Earliest
<1>2. CASE Len(g) >= rules[d].max
  <2> DEFINE i == Len(g) - rules[d].max + 1
  <2>1. i \in 1..Len(g) /\ g[i] \in Times
    BY <1>2
  <2>2. g[i] \in Nat
    BY <2>1, RateLimitAssumption DEF Times
  <2> DEFINE b == g[i] + rules[d].window
  <2>3. b \in Nat /\ Earliest(d, g, t) = Max({t, b})
    BY <1>2, <2>2 DEF Earliest
  <2> HIDE DEF b
  <2>4. Max({t, b}) \in {t, b} /\ t <= Max({t, b}) /\ b <= Max({t, b})
    <3>1. t \in Int /\ b \in Int
      BY <2>3
    <3>. QED
      BY <3>1, MaxOfTwo
  <2>. QED
    BY <1>2, <2>1, <2>2, <2>3, <2>4 DEF b
<1>. QED
  BY <1>1, <1>2

\* What is left of the first n entries of a list when the grants that constrain nothing
\* any more go: those at the places e, in order.
Left(s, n, m, window, t, e) ==
    /\ m \in Seq(Times) /\ e \in [1..Len(m) -> 1..n]
    /\ \A i, j \in 1..Len(m) : i < j => e[i] < e[j]
    /\ \A j \in 1..Len(m) : m[j] = s[e[j]] /\ s[e[j]] + window > t
    /\ \A i \in 1..n : s[i] + window > t => \E j \in 1..Len(m) : e[j] = i

\* The loop of the prune, over the first n entries.
Step(s, window, t, f, i) ==
    IF i = 0 THEN <<>>
    ELSE IF s[i] + window > t THEN Append(f[i - 1], s[i])
    ELSE f[i - 1]
KeptOf(s, window, t, n, f) == f = [i \in 0..n |-> Step(s, window, t, f, i)]

LEMMA LoopRuns ==
    ASSUME NEW s, NEW window, NEW t, NEW n \in Nat
    PROVE  \E f : KeptOf(s, window, t, n, f)
<1> DEFINE Bad == {i \in Nat : ~\E f : KeptOf(s, window, t, i, f)}
<1>1. SUFFICES ASSUME Bad # {} PROVE FALSE
  OBVIOUS
<1>2. Bad \in SUBSET Nat
  OBVIOUS
<1>3. \A i \in Nat : i \in Bad <=> ~\E f : KeptOf(s, window, t, i, f)
  OBVIOUS
<1> HIDE DEF Bad
<1>4. PICK m \in Bad : \A i \in Bad : m <= i
  BY <1>1, <1>2, LeastNumber
<1>5. CASE m = 0
  <2>1. PICK f : f = [i \in 0..0 |-> <<>>]
    OBVIOUS
  <2>2. f = [i \in 0..0 |-> Step(s, window, t, f, i)]
    BY <2>1 DEF Step
  <2>. QED
    BY <1>3, <1>4, <1>5, <2>2 DEF KeptOf
<1>6. CASE m # 0
  <2>1. m - 1 \in Nat /\ m - 1 \notin Bad /\ m \in Nat \ {0}
    BY <1>2, <1>4, <1>6
  <2>2. PICK g : KeptOf(s, window, t, m - 1, g)
    BY <1>3, <2>1
  <2>3. PICK f : f = [i \in 0..m |-> Step(s, window, t, g, i)]
    OBVIOUS
  <2>4. ASSUME NEW i \in 0..(m - 1) PROVE f[i] = g[i]
    <3>1. i \in 0..m
      BY <2>1
    <3>2. f[i] = Step(s, window, t, g, i)
      BY <2>3, <3>1
    <3>3. g[i] = Step(s, window, t, g, i)
      BY <2>2 DEF KeptOf
    <3>. QED
      BY <3>2, <3>3
  <2>5. ASSUME NEW i \in 0..m PROVE Step(s, window, t, g, i) = Step(s, window, t, f, i)
    <3>1. i # 0 => i - 1 \in 0..(m - 1)
      BY <2>1
    <3>. QED
      BY <2>4, <3>1 DEF Step
  <2>6. f = [i \in 0..m |-> Step(s, window, t, f, i)]
    BY <2>3, <2>5
  <2>. QED
    BY <1>2, <1>3, <1>4, <2>6 DEF KeptOf
<1>. QED
  BY <1>5, <1>6

\* One entry more.
LEMMA LoopTurns ==
    ASSUME NEW s \in Seq(Times), NEW window \in Int, NEW t \in Int, NEW n \in 1..Len(s), NEW m, NEW e,
           Left(s, n - 1, m, window, t, e)
    PROVE  \E k, h : /\ k = IF s[n] + window > t THEN Append(m, s[n]) ELSE m
                     /\ Left(s, n, k, window, t, h)
<1>1. /\ m \in Seq(Times) /\ e \in [1..Len(m) -> 1..(n - 1)] /\ Len(m) \in Nat
      /\ \A i, j \in 1..Len(m) : i < j => e[i] < e[j]
      /\ \A j \in 1..Len(m) : m[j] = s[e[j]] /\ s[e[j]] + window > t
      /\ \A i \in 1..(n - 1) : s[i] + window > t => \E j \in 1..Len(m) : e[j] = i
  BY DEF Left
<1>2. n \in Nat \ {0} /\ s[n] \in Times
  OBVIOUS
<1>3. CASE s[n] + window > t
  <2>1. PICK k : k = Append(m, s[n])
    OBVIOUS
  <2>2. PICK l \in Nat \ {0} : l = Len(m) + 1
    BY <1>1
  <2>3. PICK h : h = [j \in 1..l |-> IF j = l THEN n ELSE e[j]]
    OBVIOUS
  <2>4. k \in Seq(Times) /\ Len(k) = l /\ k[l] = s[n] /\ \A j \in 1..Len(m) : k[j] = m[j]
    BY <1>1, <1>2, <2>1, <2>2
  <2>5. \A j \in 1..l : j = l \/ j \in 1..Len(m)
    BY <1>1, <2>2
  <2>6. h[l] = n /\ \A j \in 1..Len(m) : h[j] = e[j] /\ e[j] \in 1..(n - 1) /\ j \in 1..l /\ j # l
    <3>1. \A j \in 1..Len(m) : e[j] \in 1..(n - 1) /\ j \in 1..l /\ j # l
      BY <1>1, <2>2
    <3>. QED
      BY <2>2, <2>3, <3>1
  <2>7. h \in [1..l -> 1..n]
    <3>1. \A j \in 1..l : h[j] \in 1..n
      BY <1>2, <2>5, <2>6
    <3>. QED
      BY <2>3, <3>1
  <2>8. ASSUME NEW i \in 1..l, NEW j \in 1..l, i < j PROVE h[i] < h[j]
    <3>1. i \in 1..Len(m)
      BY <2>2, <2>5, <2>8
    <3>2. CASE j = l
      BY <1>2, <2>6, <3>1, <3>2
    <3>3. CASE j \in 1..Len(m)
      BY <1>1, <2>6, <2>8, <3>1, <3>3
    <3>. QED
      BY <2>5, <3>2, <3>3
  <2>9. ASSUME NEW j \in 1..l PROVE k[j] = s[h[j]] /\ s[h[j]] + window > t
    BY <1>1, <1>3, <2>4, <2>5, <2>6
  <2>10. ASSUME NEW i \in 1..n, s[i] + window > t PROVE \E j \in 1..l : h[j] = i
    <3>1. CASE i = n
      BY <2>2, <2>6, <3>1
    <3>2. CASE i \in 1..(n - 1)
      <4>1. PICK j \in 1..Len(m) : e[j] = i
        BY <1>1, <2>10, <3>2
      <4>. QED
        BY <2>6, <4>1
    <3>. QED
      BY <1>2, <3>1, <3>2
  <2>11. Left(s, n, k, window, t, h)
    BY <2>4, <2>7, <2>8, <2>9, <2>10 DEF Left
  <2>. QED
    BY <1>3, <2>1, <2>11
<1>4. CASE ~(s[n] + window > t)
  <2>1. e \in [1..Len(m) -> 1..n]
    BY <1>1, <1>2
  <2>2. \A i \in 1..n : s[i] + window > t => i \in 1..(n - 1)
    BY <1>2, <1>4
  <2>3. Left(s, n, m, window, t, e)
    BY <1>1, <2>1, <2>2 DEF Left
  <2>. QED
    BY <1>4, <2>3
<1>. QED
  BY <1>3, <1>4

\* What the loop has kept.
LEMMA LoopKeeps ==
    ASSUME NEW s \in Seq(Times), NEW window \in Int, NEW t \in Int, NEW f, KeptOf(s, window, t, Len(s), f)
    PROVE  \E e : Left(s, Len(s), f[Len(s)], window, t, e)
<1> DEFINE Bad == {n \in 0..Len(s) : ~\E e : Left(s, n, f[n], window, t, e)}
<1>1. \A i \in 0..Len(s) : f[i] = Step(s, window, t, f, i)
  BY DEF KeptOf
<1>2. /\ Bad \in SUBSET Nat /\ Bad \subseteq 0..Len(s)
      /\ \A i \in 0..Len(s) : i \in Bad <=> ~\E e : Left(s, i, f[i], window, t, e)
      /\ Len(s) \in 0..Len(s)
  OBVIOUS
<1> HIDE DEF Bad
<1>3. Bad = {}
  <2>1. SUFFICES ASSUME Bad # {} PROVE FALSE
    OBVIOUS
  <2>2. PICK n \in Bad : \A i \in Bad : n <= i
    BY <1>2, <2>1, LeastNumber
  <2>3. n \in 0..Len(s)
    BY <1>2, <2>2
  <2>4. CASE n = 0
    <3>1. f[n] = <<>>
      BY <1>1, <2>3, <2>4 DEF Step
    <3>2. <<>> \in Seq(Times) /\ Len(<<>>) = 0
      OBVIOUS
    <3>3. Left(s, 0, <<>>, window, t, [j \in 1..0 |-> 0])
      BY <3>2 DEF Left
    <3>. QED
      BY <1>2, <2>3, <2>4, <3>1, <3>3
  <2>5. CASE n # 0
    <3>1. n - 1 \in 0..Len(s) /\ n - 1 \notin Bad /\ n \in 1..Len(s)
      BY <1>2, <2>2, <2>3, <2>5
    <3>2. PICK e : Left(s, n - 1, f[n - 1], window, t, e)
      BY <1>2, <3>1
    <3>3. f[n] = IF s[n] + window > t THEN Append(f[n - 1], s[n]) ELSE f[n - 1]
      BY <1>1, <2>3, <2>5 DEF Step
    <3>4. n \in 1..Len(s) /\ Left(s, n - 1, f[n - 1], window, t, e)
      BY <3>1, <3>2
    <3>5. \E k, h : /\ k = IF s[n] + window > t THEN Append(f[n - 1], s[n]) ELSE f[n - 1]
                    /\ Left(s, n, k, window, t, h)
      BY <3>4, LoopTurns
    <3>6. PICK k, h : /\ k = IF s[n] + window > t THEN Append(f[n - 1], s[n]) ELSE f[n - 1]
                     /\ Left(s, n, k, window, t, h)
      BY <3>5
    <3>7. k = f[n]
      BY <3>3, <3>6
    <3>8. Left(s, n, f[n], window, t, h)
      BY <3>6, <3>7
    <3>. QED
      BY <1>2, <2>2, <2>3, <3>8
  <2>. QED
    BY <2>4, <2>5
<1>. QED
  BY <1>2, <1>3

LEMMA PruneIs ==
    ASSUME TypeOK, NEW d \in DOMAIN rules, d \in Domains, rules[d].window \in Int, NEW t \in Int
    PROVE  \E e : Left(grants[d], Len(grants[d]), Prune(d, t), rules[d].window, t, e)
<1>1. PICK s : s = grants[d]
  OBVIOUS
<1>2. s \in Seq(Times) /\ Len(s) \in Nat
  BY <1>1 DEF TypeOK
<1>3. PICK kept : kept = CHOOSE f : KeptOf(s, rules[d].window, t, Len(s), f)
  OBVIOUS
<1>4. Prune(d, t) = kept[Len(s)]
  BY <1>1, <1>3 DEF Prune, KeptOf, Step
<1>5. KeptOf(s, rules[d].window, t, Len(s), kept)
  <2>1. \E f : KeptOf(s, rules[d].window, t, Len(s), f)
    BY <1>2, LoopRuns
  <2>. QED
    BY <1>3, <2>1
<1>. QED
  BY <1>1, <1>2, <1>4, <1>5, LoopKeeps

LEMMA PruneTypes ==
    ASSUME TypeOK, NEW d \in DOMAIN rules, d \in Domains, rules[d].window \in Int, NEW t \in Int
    PROVE  Prune(d, t) \in Seq(Times)
<1>1. PICK e : Left(grants[d], Len(grants[d]), Prune(d, t), rules[d].window, t, e)
  BY PruneIs
<1>. QED
  BY <1>1 DEF Left

LEMMA RemoveAtIs ==
    ASSUME NEW T, NEW s \in Seq(T), NEW i \in 1..Len(s)
    PROVE  /\ RemoveAt(s, i) \in Seq(T) /\ Len(RemoveAt(s, i)) = Len(s) - 1
           /\ \A j \in 1..(Len(s) - 1) : RemoveAt(s, i)[j] = IF j < i THEN s[j] ELSE s[j + 1]
<1>1. Len(s) \in Nat /\ i \in Nat \ {0} /\ i <= Len(s)
  OBVIOUS
<1>2. PICK l \in Nat : l = i - 1
  BY <1>1
<1>3. SubSeq(s, 1, l) \in Seq(T) /\ Len(SubSeq(s, 1, l)) = l /\ \A j \in 1..l : SubSeq(s, 1, l)[j] = s[j]
  BY <1>1, <1>2
<1>4. PICK r : r = SubSeq(s, i + 1, Len(s))
  OBVIOUS
<1>5. r \in Seq(T) /\ Len(r) = Len(s) - i /\ \A j \in 1..(Len(s) - i) : r[j] = s[j + i]
  BY <1>1, <1>4
<1>6. PICK p : p = SubSeq(s, 1, l)
  OBVIOUS
<1>7. RemoveAt(s, i) = p \o r
  BY <1>2, <1>4, <1>6 DEF RemoveAt
<1>8. p \in Seq(T) /\ Len(p) = l /\ \A j \in 1..l : p[j] = s[j]
  BY <1>3, <1>6
<1>9. p \o r \in Seq(T) /\ Len(p \o r) = Len(s) - 1
  <2>1. p \in Seq(T) /\ r \in Seq(T) /\ Len(p) = l /\ Len(r) = Len(s) - i
    BY <1>5, <1>8
  <2>2. p \o r \in Seq(T) /\ Len(p \o r) = Len(p) + Len(r)
    BY <2>1
  <2>. QED
    BY <1>1, <1>2, <2>1, <2>2
<1>10. ASSUME NEW j \in 1..(Len(s) - 1) PROVE (p \o r)[j] = IF j < i THEN s[j] ELSE s[j + 1]
  <2>1. CASE j < i
    BY <1>1, <1>2, <1>5, <1>8, <2>1
  <2>2. CASE ~(j < i)
    <3>1. (p \o r)[j] = r[j - l] /\ j - l \in 1..(Len(s) - i)
      BY <1>1, <1>2, <1>5, <1>8, <2>2
    <3>2. (j - l) + i = j + 1
      BY <1>1, <1>2
    <3>. QED
      BY <1>5, <2>2, <3>1, <3>2
  <2>. QED
    BY <2>1, <2>2
<1>. QED
  BY <1>7, <1>9, <1>10

\* One entry of the time goes, if there is one.
LEMMA RemoveGrantIs ==
    ASSUME TypeOK, NEW d \in Domains, NEW t \in Times
    PROVE  \/ /\ RemoveGrant(d, t) = grants
              /\ \A i \in 1..Len(grants[d]) : grants[d][i] # t
           \/ \E i \in 1..Len(grants[d]) :
                grants[d][i] = t /\ RemoveGrant(d, t) = [grants EXCEPT ![d] = RemoveAt(grants[d], i)]
<1> DEFINE I == {i \in 1..Len(grants[d]) : grants[d][i] = t}
<1>1. grants[d] \in Seq(Times) /\ Len(grants[d]) \in Nat
  BY DEF TypeOK
<1>2. RemoveGrant(d, t) = LET i == IF I # {} THEN Max(I) ELSE 0 IN
                          IF i = 0 THEN grants ELSE [grants EXCEPT ![d] = RemoveAt(@, i)]
  BY DEF RemoveGrant, SelectLastInSeq
<1>3. CASE I = {}
  BY <1>2, <1>3
<1>4. CASE I # {}
  <2>1. IsFiniteSet(I) /\ I \in SUBSET Int
    <3>1. IsFiniteSet(1..Len(grants[d])) /\ I \in SUBSET (1..Len(grants[d]))
      BY <1>1, FS_Interval
    <3>2. 1..Len(grants[d]) \subseteq Int
      BY <1>1
    <3>. QED
      BY <3>1, <3>2, FS_Subset
  <2>2. Max(I) \in I
    BY <1>4, <2>1, MaxIs
  <2>3. Max(I) \in 1..Len(grants[d]) /\ grants[d][Max(I)] = t /\ Max(I) # 0
    BY <2>2
  <2>. QED
    BY <1>2, <1>4, <2>3
<1>. QED
  BY <1>3, <1>4

LEMMA RemoveGrantTypes ==
    ASSUME TypeOK, NEW d \in Domains, NEW t \in Times
    PROVE  RemoveGrant(d, t) \in [Domains -> Seq(Times)]
<1>1. grants \in [Domains -> Seq(Times)]
  BY DEF TypeOK
<1>2. CASE RemoveGrant(d, t) = grants
  BY <1>1, <1>2
<1>3. ASSUME NEW i \in 1..Len(grants[d]), RemoveGrant(d, t) = [grants EXCEPT ![d] = RemoveAt(grants[d], i)]
      PROVE RemoveGrant(d, t) \in [Domains -> Seq(Times)]
  <2>1. RemoveAt(grants[d], i) \in Seq(Times)
    BY <1>1, RemoveAtIs
  <2>. QED
    BY <1>1, <1>3, <2>1
<1>. QED
  BY <1>2, <1>3, RemoveGrantIs

----------------------------------------------------------------------------
(* Every call waits for its slot                                           *)

LEMMA SoundKept ==
    ASSUME NEW m \in Navigations, Sound(m), now' = now, swaps' = swaps, pc'[m] = pc[m],
           clock'[m] = clock[m], slot'[m] = slot[m], alarm'[m] = alarm[m]
    PROVE  Sound(m)'
BY DEF Sound

LEMMA CallsStart ==
    ASSUME Init
    PROVE  CallInv
<1>1. TypeOK
  <2>1. NoSlot \in [dom : Domains \union {NoDomain}, at : Times, under : 0..MaxSwaps]
    BY RateLimitAssumption DEF NoSlot, Times
  <2>2. <<>> \in Seq(Times)
    OBVIOUS
  <2>3. 0 \in 0..MaxTime /\ 0 \in 0..MaxSwaps
    BY RateLimitAssumption
  <2>. QED
    BY <2>1, <2>2, <2>3 DEF Init, TypeOK
<1>2. ASSUME NEW n \in Navigations PROVE Sound(n)
  BY RateLimitAssumption DEF Init, Sound, NoSlot
<1>. QED
  BY <1>1, <1>2 DEF CallInv

\* What a grant records: its slot is in the time range, no earlier than its clock.
LEMMA GrantTypes ==
    ASSUME CallInv, NEW n \in Navigations, Grant(n)
    PROVE  LET d == Match(HostOf[n])
               g == Prune(d, clock[n])
               at == Earliest(d, g, clock[n]) IN
           /\ d \in Domains /\ d \in DOMAIN rules /\ rules[d].max \in Nat \ {0} /\ rules[d].window \in Nat \ {0}
           /\ g \in Seq(Times) /\ at \in Times /\ clock[n] <= at /\ at \in Nat
           /\ clock[n] \in Nat /\ now \in Nat /\ clock[n] <= now
<1> DEFINE d == Match(HostOf[n])
           g == Prune(d, clock[n])
           at == Earliest(d, g, clock[n])
<1>1. TypeOK /\ Sound(n) /\ HostOf[n] \in Hosts
  BY RateLimitAssumption DEF CallInv
<1>2. d \in Domains /\ d \in DOMAIN rules /\ rules[d].max \in Nat \ {0} /\ rules[d].window \in Nat \ {0}
  BY <1>1, MatchIs DEF Grant
<1>3. clock[n] \in 0..MaxTime /\ now \in Nat /\ clock[n] \in Nat /\ clock[n] <= now /\ clock[n] <= MaxTime
  BY <1>1, RateLimitAssumption DEF TypeOK, Sound
<1>4. g \in Seq(Times)
  BY <1>1, <1>2, <1>3, PruneTypes
<1> HIDE DEF g
<1>5. at \in Nat /\ clock[n] <= at
  <2> HIDE DEF d
  <2>. QED
    BY <1>1, <1>2, <1>3, <1>4, EarliestIs
<1>6. at <= clock[n] + Timeout
  BY DEF Grant, WithinDeadline, g
<1>7. at \in Times
  BY <1>3, <1>5, <1>6, RateLimitAssumption DEF Times
<1>. QED
  BY <1>2, <1>3, <1>4, <1>5, <1>7 DEF g

LEMMA CallsStep ==
    ASSUME CallInv, [Next]_vars
    PROVE  CallInv'
<1>1. TypeOK /\ \A m \in Navigations : Sound(m)
  BY DEF CallInv
<1>2. SUFFICES TypeOK' /\ \A m \in Navigations : Sound(m)'
  BY DEF CallInv
<1>3. /\ Timeout \in Nat /\ MaxLag \in Nat /\ MaxTime \in Nat /\ MaxSwaps \in Nat
      /\ now \in Nat /\ swaps \in Nat /\ \A m \in Navigations : clock[m] \in Nat /\ alarm[m] \in Nat
  BY <1>1, RateLimitAssumption DEF TypeOK
<1>4. CASE UNCHANGED vars
  BY <1>1, <1>4 DEF TypeOK, Sound, vars
<1>5. ASSUME NEW n \in Navigations, ReadClock(n) PROVE TypeOK' /\ \A m \in Navigations : Sound(m)'
  <2>1. TypeOK'
    BY <1>1, <1>5 DEF ReadClock, TypeOK
  <2>2. ASSUME NEW m \in Navigations, m # n PROVE Sound(m)'
    BY <1>1, <1>5, <2>2, SoundKept DEF ReadClock, TypeOK
  <2>3. Sound(n)'
    BY <1>1, <1>3, <1>5 DEF ReadClock, TypeOK, Sound
  <2>. QED
    BY <2>1, <2>2, <2>3
<1>6. ASSUME NEW n \in Navigations, PassUnthrottled(n) PROVE TypeOK' /\ \A m \in Navigations : Sound(m)'
  <2>1. TypeOK'
    BY <1>1, <1>6 DEF PassUnthrottled, TypeOK
  <2>2. ASSUME NEW m \in Navigations, m # n PROVE Sound(m)'
    BY <1>1, <1>6, <2>2, SoundKept DEF PassUnthrottled, TypeOK
  <2>3. Sound(n)'
    BY <1>1, <1>6 DEF PassUnthrottled, TypeOK, Sound
  <2>. QED
    BY <2>1, <2>2, <2>3
<1>7. ASSUME NEW n \in Navigations, Grant(n) PROVE TypeOK' /\ \A m \in Navigations : Sound(m)'
  <2>1. PICK d, g, at : d = Match(HostOf[n]) /\ g = Prune(d, clock[n]) /\ at = Earliest(d, g, clock[n])
    OBVIOUS
  <2>2. /\ d \in Domains /\ g \in Seq(Times) /\ at \in Times /\ clock[n] <= at
        /\ at \in Nat /\ clock[n] <= now
    BY <1>7, <2>1, GrantTypes
  <2>3. /\ pc[n] = "locking"
        /\ grants' = [grants EXCEPT ![d] = Append(g, at)]
        /\ slot' = [slot EXCEPT ![n] = [dom |-> d, at |-> at, under |-> swaps]]
        /\ IF at > clock[n]
           THEN pc' = [pc EXCEPT ![n] = "sleeping"] /\ alarm' = [alarm EXCEPT ![n] = AlarmFor(at, clock[n])]
           ELSE pc' = [pc EXCEPT ![n] = "reserved"] /\ alarm' = alarm
        /\ UNCHANGED <<now, rules, clock, swaps, returned>>
    BY <1>7, <2>1 DEF Grant
  <2>4. AlarmFor(at, clock[n]) \in Nat /\ at <= AlarmFor(at, clock[n])
    BY <1>3, <2>2 DEF AlarmFor
  <2>5. TypeOK'
    <3>1. grants' \in [Domains -> Seq(Times)]
      <4>1. Append(g, at) \in Seq(Times)
        BY <2>2
      <4>. QED
        BY <1>1, <2>2, <2>3, <4>1 DEF TypeOK
    <3>2. slot' \in [Navigations -> [dom : Domains \union {NoDomain}, at : Times, under : 0..MaxSwaps]]
      BY <1>1, <2>2, <2>3 DEF TypeOK
    <3>3. /\ alarm' \in [Navigations -> Nat]
          /\ pc' \in [Navigations -> {"idle", "locking", "sleeping", "reserved", "refused",
                                      "cancelled", "committed", "rolledback"}]
      BY <1>1, <2>3, <2>4 DEF TypeOK
    <3>. QED
      BY <1>1, <2>3, <3>1, <3>2, <3>3 DEF TypeOK
  <2>6. ASSUME NEW m \in Navigations, m # n PROVE Sound(m)'
    <3>1. pc'[m] = pc[m] /\ alarm'[m] = alarm[m] /\ slot'[m] = slot[m]
      BY <1>1, <2>3, <2>6 DEF TypeOK
    <3>. QED
      BY <1>1, <2>3, <3>1, SoundKept
  <2>7. Sound(n)'
    <3>1. slot'[n] = [dom |-> d, at |-> at, under |-> swaps] /\ clock'[n] = clock[n] /\ now' = now /\ swaps' = swaps
      BY <1>1, <2>3 DEF TypeOK
    <3>2. slot'[n] # NoSlot /\ slot'[n].dom \in Domains /\ slot'[n].under <= swaps' /\ slot'[n].at = at
      BY <1>3, <2>2, <3>1, RateLimitAssumption DEF NoSlot
    <3>3. CASE at > clock[n]
      <4>1. pc'[n] = "sleeping" /\ alarm'[n] = AlarmFor(at, clock[n])
        BY <1>1, <2>3, <3>3 DEF TypeOK
      <4>. QED
        BY <2>2, <2>4, <3>1, <3>2, <4>1 DEF Sound
    <3>4. CASE ~(at > clock[n])
      <4>1. pc'[n] = "reserved" /\ at <= now
        BY <1>1, <1>3, <2>2, <2>3, <3>4 DEF TypeOK
      <4>. QED
        BY <2>2, <3>1, <3>2, <4>1 DEF Sound
    <3>. QED
      BY <3>3, <3>4
  <2>. QED
    BY <2>5, <2>6, <2>7
<1>8. ASSUME NEW n \in Navigations, Refuse(n) PROVE TypeOK' /\ \A m \in Navigations : Sound(m)'
  <2>1. PICK d, g : d = Match(HostOf[n]) /\ g = Prune(d, clock[n])
    OBVIOUS
  <2>2. /\ pc[n] = "locking"
        /\ grants' = [grants EXCEPT ![d] = g]
        /\ pc' = [pc EXCEPT ![n] = "refused"]
        /\ UNCHANGED <<now, rules, clock, slot, alarm, swaps, returned>>
    BY <1>8, <2>1 DEF Refuse
  <2>3. g \in Seq(Times)
    <3>1. HostOf[n] \in Hosts /\ Throttled(d) /\ clock[n] \in Int
      BY <1>3, <1>8, <2>1, RateLimitAssumption DEF Refuse
    <3>2. d \in Domains /\ d \in DOMAIN rules /\ rules[d].window \in Int
      BY <1>1, <2>1, <3>1, MatchIs
    <3>. QED
      BY <1>1, <2>1, <3>1, <3>2, PruneTypes
  <2>4. TypeOK'
    BY <1>1, <2>2, <2>3 DEF TypeOK
  <2>5. ASSUME NEW m \in Navigations, m # n PROVE Sound(m)'
    BY <1>1, <2>2, <2>5, SoundKept DEF TypeOK
  <2>6. Sound(n)'
    BY <1>1, <2>2 DEF TypeOK, Sound
  <2>. QED
    BY <2>4, <2>5, <2>6
<1>9. ASSUME NEW n \in Navigations, TimerFires(n) PROVE TypeOK' /\ \A m \in Navigations : Sound(m)'
  <2>1. TypeOK'
    BY <1>1, <1>9 DEF TimerFires, TypeOK
  <2>2. ASSUME NEW m \in Navigations, m # n PROVE Sound(m)'
    BY <1>1, <1>9, <2>2, SoundKept DEF TimerFires, TypeOK
  <2>3. Sound(n)'
    <3>1. slot[n].at \in Nat
      BY <1>1, RateLimitAssumption DEF TypeOK, Times
    <3>2. slot[n].at <= alarm[n] /\ alarm[n] <= now
      BY <1>1, <1>3, <1>9 DEF TimerFires, Sound
    <3>3. slot[n].at <= now
      BY <1>3, <3>1, <3>2
    <3>. QED
      BY <1>1, <1>9, <3>3 DEF TimerFires, TypeOK, Sound
  <2>. QED
    BY <2>1, <2>2, <2>3
<1>10. ASSUME NEW n \in Navigations, Cancel(n) PROVE TypeOK' /\ \A m \in Navigations : Sound(m)'
  <2>1. /\ pc[n] = "sleeping" /\ grants' = RemoveGrant(slot[n].dom, slot[n].at)
        /\ pc' = [pc EXCEPT ![n] = "cancelled"] /\ returned' = TRUE
        /\ UNCHANGED <<now, rules, clock, slot, alarm, swaps>>
    BY <1>10 DEF Cancel
  <2>2. slot[n].dom \in Domains /\ slot[n].at \in Times
    BY <1>1, <2>1 DEF TypeOK, Sound
  <2>3. grants' \in [Domains -> Seq(Times)]
    BY <1>1, <2>1, <2>2, RemoveGrantTypes
  <2>4. TypeOK'
    BY <1>1, <2>1, <2>3 DEF TypeOK
  <2>5. ASSUME NEW m \in Navigations, m # n PROVE Sound(m)'
    BY <1>1, <2>1, <2>5, SoundKept DEF TypeOK
  <2>6. Sound(n)'
    BY <1>1, <2>1 DEF TypeOK, Sound
  <2>. QED
    BY <2>4, <2>5, <2>6
<1>11. ASSUME NEW n \in Navigations, Commit(n) PROVE TypeOK' /\ \A m \in Navigations : Sound(m)'
  <2>1. TypeOK'
    BY <1>1, <1>11 DEF Commit, TypeOK
  <2>2. ASSUME NEW m \in Navigations, m # n PROVE Sound(m)'
    BY <1>1, <1>11, <2>2, SoundKept DEF Commit, TypeOK
  <2>3. Sound(n)'
    BY <1>1, <1>11 DEF Commit, TypeOK, Sound
  <2>. QED
    BY <2>1, <2>2, <2>3
<1>12. ASSUME NEW n \in Navigations, Rollback(n) PROVE TypeOK' /\ \A m \in Navigations : Sound(m)'
  <2>1. /\ pc[n] = "reserved" /\ pc' = [pc EXCEPT ![n] = "rolledback"]
        /\ UNCHANGED <<now, rules, clock, slot, alarm, swaps>>
    BY <1>12 DEF Rollback
  <2>2. TypeOK'
    <3>1. grants' \in [Domains -> Seq(Times)] /\ returned' \in BOOLEAN
      <4>1. CASE slot[n] = NoSlot
        BY <1>1, <1>12, <4>1 DEF Rollback, TypeOK
      <4>2. CASE slot[n] # NoSlot
        <5>1. slot[n].dom \in Domains /\ slot[n].at \in Times
          BY <1>1, <4>2 DEF TypeOK, Sound
        <5>. QED
          BY <1>1, <1>12, <4>2, <5>1, RemoveGrantTypes DEF Rollback
      <4>. QED
        BY <4>1, <4>2
    <3>. QED
      BY <1>1, <2>1, <3>1 DEF TypeOK
  <2>3. ASSUME NEW m \in Navigations, m # n PROVE Sound(m)'
    BY <1>1, <2>1, <2>3, SoundKept DEF TypeOK
  <2>4. Sound(n)'
    BY <1>1, <2>1 DEF TypeOK, Sound
  <2>. QED
    BY <2>2, <2>3, <2>4
<1>13. ASSUME NEW r \in RuleSets, SetRules(r) PROVE TypeOK' /\ \A m \in Navigations : Sound(m)'
  <2>1. TypeOK'
    BY <1>1, <1>3, <1>13 DEF SetRules, TypeOK
  <2>2. ASSUME NEW m \in Navigations PROVE Sound(m)'
    <3>1. slot[m].under \in Nat
      BY <1>1, <1>3 DEF TypeOK
    <3>. QED
      BY <1>1, <1>3, <1>13, <3>1 DEF SetRules, Sound
  <2>. QED
    BY <2>1, <2>2
<1>14. CASE Tick
  <2>1. TypeOK'
    BY <1>1, <1>3, <1>14 DEF Tick, TypeOK
  <2>2. ASSUME NEW m \in Navigations PROVE Sound(m)'
    <3>1. slot[m].at \in Nat
      BY <1>1, <1>3 DEF TypeOK, Times
    <3>2. now' = now + 1 /\ UNCHANGED <<swaps, pc, clock, slot, alarm>>
      BY <1>14 DEF Tick
    <3>3. pc[m] = "locking" => now - clock[m] < MaxLag
      BY <1>14 DEF Tick
    <3>. QED
      BY <1>1, <1>3, <3>1, <3>2, <3>3 DEF Sound
  <2>. QED
    BY <2>1, <2>2
<1>. QED
  BY <1>4, <1>5, <1>6, <1>7, <1>8, <1>9, <1>10, <1>11, <1>12, <1>13, <1>14 DEF Next

LEMMA CallsHold == Spec => []CallInv
<1>1. Init => CallInv
  BY CallsStart
<1>2. CallInv /\ [Next]_vars => CallInv'
  BY CallsStep
<1>. QED
  BY <1>1, <1>2, PTL DEF Spec

\* Reserve, removeGrant and SetRules keep every variable in its set: the slots recorded
\* are times within the deadline of a request.
THEOREM TypeCorrect == Spec => []TypeOK
<1>1. CallInv => TypeOK
  BY DEF CallInv
<1>. QED
  BY <1>1, CallsHold, PTL

\* No navigation proceeds before its slot: the timer of Reserve is set after the lock
\* from the clock read before it, and can only be late.
THEOREM NobodyIsEarly == Spec => []NeverEarly
<1>1. CallInv => NeverEarly
  BY DEF CallInv, Sound, NeverEarly, Live
<1>. QED
  BY <1>1, CallsHold, PTL

\* What Status reports for a rule is the wait that Reserve would compute at that moment,
\* for every rule and every list of recorded grants.
THEOREM StatusIsRight == Spec => []StatusTellsTheWait
<1>1. ASSUME CallInv, NEW d \in DOMAIN rules, Throttled(d)
      PROVE  WaitSeconds(d) = Earliest(d, Prune(d, now), now) - now
  <2>1. TypeOK /\ now \in Nat
    BY <1>1, RateLimitAssumption DEF CallInv, TypeOK
  <2>2. d \in Domains /\ rules[d].max \in Nat \ {0} /\ rules[d].window \in Nat \ {0}
    BY <1>1, <2>1, RuleIs
  <2>3. PICK g : g = Prune(d, now)
    OBVIOUS
  <2>4. g \in Seq(Times) /\ Len(g) \in Nat
    BY <2>1, <2>2, <2>3, PruneTypes
  <2>5. CASE Len(g) < rules[d].max
    <3>1. ~(Len(g) >= rules[d].max)
      BY <2>2, <2>4, <2>5
    <3>2. WaitSeconds(d) = 0 /\ Earliest(d, g, now) = now
      BY <2>3, <3>1 DEF WaitSeconds, InUse, Earliest
    <3>. QED
      BY <2>1, <2>3, <3>2
  <2>6. CASE Len(g) >= rules[d].max
    <3>1. PICK i : i = Len(g) - rules[d].max + 1
      OBVIOUS
    <3>2. i \in 1..Len(g) /\ i \in Int
      BY <2>2, <2>4, <2>6, <3>1
    <3>3. Max({1, i}) = i
      <4>1. 1 \in Int /\ i \in Int
        BY <3>2
      <4>2. Max({1, i}) \in {1, i} /\ 1 <= Max({1, i}) /\ i <= Max({1, i})
        BY <4>1, MaxOfTwo
      <4>. QED
        BY <2>4, <3>2, <4>2
    <3>4. g[i] \in Nat
      BY <2>4, <3>2, RateLimitAssumption DEF Times
    <3>5. PICK b : b = g[i] + rules[d].window
      OBVIOUS
    <3>6. b \in Nat /\ b - now \in Int /\ 0 \in Int
      BY <2>1, <2>2, <3>4, <3>5
    <3>7. WaitSeconds(d) = Max({0, b - now}) /\ Earliest(d, g, now) = Max({now, b})
      <4>1. Earliest(d, g, now) = Max({now, b})
        BY <2>6, <3>1, <3>5 DEF Earliest
      <4>2. WaitSeconds(d) = Max({0, g[Max({1, i})] + rules[d].window - now})
        BY <2>3, <2>6, <3>1 DEF WaitSeconds, InUse
      <4>3. PICK x : x = g[Max({1, i})] + rules[d].window - now
        OBVIOUS
      <4>4. x = b - now
        BY <2>1, <2>2, <3>3, <3>4, <3>5, <4>3
      <4>5. WaitSeconds(d) = Max({0, x})
        BY <4>2, <4>3
      <4>. QED
        BY <4>1, <4>4, <4>5
    <3>8. Max({0, b - now}) \in {0, b - now} /\ 0 <= Max({0, b - now}) /\ b - now <= Max({0, b - now})
      BY <3>6, MaxOfTwo
    <3>9. Max({now, b}) \in {now, b} /\ now <= Max({now, b}) /\ b <= Max({now, b})
      <4>1. now \in Int /\ b \in Int
        BY <2>1, <3>6
      <4>. QED
        BY <4>1, MaxOfTwo
    <3>10. PICK p, q : p = Max({0, b - now}) /\ q = Max({now, b})
      OBVIOUS
    <3>11. p = q - now
      BY <2>1, <3>6, <3>8, <3>9, <3>10
    <3>. QED
      BY <2>3, <3>7, <3>10, <3>11
  <2>. QED
    BY <2>2, <2>4, <2>5, <2>6
<1>2. CallInv => StatusTellsTheWait
  BY <1>1 DEF StatusTellsTheWait
<1>. QED
  BY <1>2, CallsHold, PTL

----------------------------------------------------------------------------
(* Counting                                                                *)

LEMMA SameSize ==
    ASSUME NEW S, NEW T, IsFiniteSet(S), NEW f \in [S -> T],
           \A x, y \in S : f[x] = f[y] => x = y, \A z \in T : \E x \in S : f[x] = z
    PROVE  IsFiniteSet(T) /\ Cardinality(T) = Cardinality(S)
<1>1. f \in Bijection(S, T)
  BY DEF Bijection, Injection, Surjection, IsInjective
<1>2. ExistsBijection(S, T)
  BY <1>1 DEF ExistsBijection
<1>. QED
  BY <1>2, FS_Bijection

LEMMA NotLarger ==
    ASSUME NEW S, NEW T, IsFiniteSet(T), NEW f \in [S -> T], \A x, y \in S : f[x] = f[y] => x = y
    PROVE  IsFiniteSet(S) /\ Cardinality(S) <= Cardinality(T)
<1>1. f \in Injection(S, T)
  BY DEF Injection, IsInjective
<1>. QED
  BY <1>1, FS_Injection

\* The entries of one time.
At(s, v) == {i \in 1..Len(s) : s[i] = v}

LEMMA AtIsFinite ==
    ASSUME NEW s \in Seq(Times), NEW v
    PROVE  IsFiniteSet(At(s, v)) /\ Cardinality(At(s, v)) \in Nat
<1>1. IsFiniteSet(1..Len(s)) /\ At(s, v) \in SUBSET (1..Len(s))
  BY FS_Interval DEF At
<1>2. IsFiniteSet(At(s, v))
  BY <1>1, FS_Subset
<1>. QED
  BY <1>2, FS_CardinalityType

\* The prune leaves the entries of a time that can still constrain.
LEMMA AtOfPruned ==
    ASSUME NEW s \in Seq(Times), NEW m, NEW window \in Int, NEW t \in Int, NEW e,
           Left(s, Len(s), m, window, t, e), NEW v \in Times, v + window > t
    PROVE  Cardinality(At(m, v)) = Cardinality(At(s, v))
<1>1. /\ m \in Seq(Times) /\ e \in [1..Len(m) -> 1..Len(s)]
      /\ \A i, j \in 1..Len(m) : i < j => e[i] < e[j]
      /\ \A j \in 1..Len(m) : m[j] = s[e[j]]
      /\ \A i \in 1..Len(s) : s[i] + window > t => \E j \in 1..Len(m) : e[j] = i
  BY DEF Left
<1>2. PICK f : f = [j \in At(m, v) |-> e[j]]
  OBVIOUS
<1>3. \A j \in At(m, v) : f[j] = e[j] /\ j \in 1..Len(m) /\ e[j] \in 1..Len(s) /\ e[j] \in At(s, v)
  BY <1>1, <1>2 DEF At
<1>4. f \in [At(m, v) -> At(s, v)]
  BY <1>2, <1>3
<1>5. ASSUME NEW x \in At(m, v), NEW y \in At(m, v), f[x] = f[y] PROVE x = y
  <2>1. x \in 1..Len(m) /\ y \in 1..Len(m) /\ e[x] = e[y] /\ e[x] \in 1..Len(s)
    BY <1>3, <1>5
  <2>2. ~(x < y) /\ ~(y < x)
    BY <1>1, <2>1
  <2>. QED
    BY <2>1, <2>2
<1>6. ASSUME NEW z \in At(s, v) PROVE \E x \in At(m, v) : f[x] = z
  <2>1. z \in 1..Len(s) /\ s[z] = v
    BY DEF At
  <2>2. PICK j \in 1..Len(m) : e[j] = z
    BY <1>1, <2>1
  <2>3. j \in At(m, v)
    BY <1>1, <2>1, <2>2 DEF At
  <2>. QED
    BY <1>3, <2>2, <2>3
<1>. QED
  BY <1>1, <1>4, <1>5, <1>6, AtIsFinite, SameSize

LEMMA AtOfAppended ==
    ASSUME NEW s \in Seq(Times), NEW a \in Times, NEW v
    PROVE  At(Append(s, a), v) = IF v = a THEN At(s, v) \union {Len(s) + 1} ELSE At(s, v)
<1>1. PICK k : k = Append(s, a)
  OBVIOUS
<1>2. /\ Len(s) \in Nat /\ Len(k) = Len(s) + 1 /\ k[Len(s) + 1] = a
      /\ \A i \in 1..Len(s) : k[i] = s[i]
  BY <1>1
<1>3. \A i \in 1..Len(k) : i = Len(s) + 1 \/ i \in 1..Len(s)
  BY <1>2
<1>4. \A i : i = Len(s) + 1 \/ i \in 1..Len(s) => i \in 1..Len(k)
  BY <1>2
<1>5. \A i : i \in At(k, v) <=> \/ (i = Len(s) + 1 /\ v = a)
                               \/ (i \in 1..Len(s) /\ s[i] = v)
  <2>1. ASSUME NEW i, i \in 1..Len(k) PROVE k[i] = v <=> \/ (i = Len(s) + 1 /\ v = a)
                                                       \/ (i \in 1..Len(s) /\ s[i] = v)
    <3>1. CASE i = Len(s) + 1
      <4>1. i \notin 1..Len(s)
        BY <1>2, <3>1
      <4>. QED
        BY <1>2, <3>1, <4>1
    <3>2. CASE i \in 1..Len(s)
      <4>1. i # Len(s) + 1
        BY <1>2, <3>2
      <4>. QED
        BY <1>2, <3>2, <4>1
    <3>. QED
      BY <1>3, <2>1, <3>1, <3>2
  <2>. QED
    BY <1>4, <2>1 DEF At
<1>. QED
  BY <1>1, <1>5 DEF At

\* Taking out one entry takes it from the entries of its time, and none from others.
LEMMA AtOfRemoved ==
    ASSUME NEW s \in Seq(Times), NEW i \in 1..Len(s), NEW v
    PROVE  Cardinality(At(RemoveAt(s, i), v)) = IF s[i] = v THEN Cardinality(At(s, v)) - 1 ELSE Cardinality(At(s, v))
<1>1. PICK r : r = RemoveAt(s, i)
  OBVIOUS
<1>2. /\ r \in Seq(Times) /\ Len(r) = Len(s) - 1 /\ Len(s) \in Nat /\ i \in Nat /\ 1 <= i /\ i <= Len(s)
      /\ \A j \in 1..(Len(s) - 1) : r[j] = IF j < i THEN s[j] ELSE s[j + 1]
  <2>1. Len(s) \in Nat /\ i \in Nat /\ 1 <= i /\ i <= Len(s)
    OBVIOUS
  <2>2. /\ RemoveAt(s, i) \in Seq(Times) /\ Len(RemoveAt(s, i)) = Len(s) - 1
        /\ \A j \in 1..(Len(s) - 1) : RemoveAt(s, i)[j] = IF j < i THEN s[j] ELSE s[j + 1]
    BY RemoveAtIs
  <2>. QED
    BY <1>1, <2>1, <2>2
<1>3. PICK f : f = [j \in At(r, v) |-> IF j < i THEN j ELSE j + 1]
  OBVIOUS
<1>4. \A j \in At(r, v) : /\ j \in 1..(Len(s) - 1) /\ j \in Nat /\ r[j] = v
                          /\ f[j] = IF j < i THEN j ELSE j + 1
  BY <1>2, <1>3 DEF At
<1>5. ASSUME NEW j \in At(r, v) PROVE f[j] \in At(s, v) \ {i}
  <2>1. CASE j < i
    BY <1>2, <1>4, <2>1 DEF At
  <2>2. CASE ~(j < i)
    BY <1>2, <1>4, <2>2 DEF At
  <2>. QED
    BY <2>1, <2>2
<1>6. f \in [At(r, v) -> At(s, v) \ {i}]
  BY <1>3, <1>5
<1>7. \A x, y \in At(r, v) : f[x] = f[y] => x = y
  BY <1>2, <1>4
<1>8. ASSUME NEW z \in At(s, v) \ {i} PROVE \E x \in At(r, v) : f[x] = z
  <2>1. z \in 1..Len(s) /\ s[z] = v /\ z # i /\ z \in Nat
    BY <1>2 DEF At
  <2>2. CASE z < i
    <3>1. z \in 1..(Len(s) - 1) /\ r[z] = v
      BY <1>2, <2>1, <2>2
    <3>2. z \in At(r, v)
      BY <1>2, <3>1 DEF At
    <3>. QED
      BY <1>4, <2>2, <3>2
  <2>3. CASE z > i
    <3>1. z - 1 \in 1..(Len(s) - 1) /\ ~(z - 1 < i) /\ (z - 1) + 1 = z
      BY <1>2, <2>1, <2>3
    <3>2. r[z - 1] = v
      BY <1>2, <2>1, <3>1
    <3>3. z - 1 \in At(r, v)
      BY <1>2, <3>1, <3>2 DEF At
    <3>. QED
      BY <1>4, <3>1, <3>3
  <2>. QED
    BY <1>2, <2>1, <2>2, <2>3
<1>9. Cardinality(At(s, v) \ {i}) = Cardinality(At(r, v))
  BY <1>2, <1>6, <1>7, <1>8, AtIsFinite, SameSize
<1>10. Cardinality(At(s, v) \ {i}) = IF i \in At(s, v) THEN Cardinality(At(s, v)) - 1 ELSE Cardinality(At(s, v))
  BY AtIsFinite, FS_RemoveElement
<1>11. i \in At(s, v) <=> s[i] = v
  BY DEF At
<1>. QED
  BY <1>1, <1>9, <1>10, <1>11

----------------------------------------------------------------------------
(* The ledger                                                              *)

\* The calls that hold a slot of that time.
Holders(d, t) == {n \in Navigations : Live(n) /\ slot[n].dom = d /\ slot[n].at = t}

\* A slot of that time can constrain a grant, whatever rules are loaded.
Matters(d, t) == \A r \in RuleSets : d \in DOMAIN r /\ r[d].window > 0 => t + r[d].window > now

Balanced(d, t) == Matters(d, t) => Cardinality(At(grants[d], t)) = Cardinality(Holders(d, t))

LedgerInv == \A d \in Domains : \A t \in Times : Balanced(d, t)

LEMMA LedgerIs ==
    ASSUME TypeOK
    PROVE  LedgerInv <=> LedgerMatchesSlots
<1>1. \A d \in Domains : DOMAIN grants[d] = 1..Len(grants[d])
  BY DEF TypeOK
<1>2. ASSUME NEW d \in Domains, NEW t \in Times
      PROVE {i \in DOMAIN grants[d] : grants[d][i] = t} = At(grants[d], t)
  BY <1>1 DEF At
<1>. QED
  BY <1>2 DEF LedgerInv, LedgerMatchesSlots, Balanced, Matters, Holders

LEMMA HoldersIsFinite ==
    ASSUME NEW d, NEW t
    PROVE  IsFiniteSet(Holders(d, t)) /\ Cardinality(Holders(d, t)) \in Nat
<1>1. IsFiniteSet(Navigations) /\ Holders(d, t) \in SUBSET Navigations
  BY RateLimitAssumption DEF Holders
<1>2. IsFiniteSet(Holders(d, t))
  BY <1>1, FS_Subset
<1>. QED
  BY <1>2, FS_CardinalityType

\* What no longer constrains will not do so again.
LEMMA MattersLess ==
    ASSUME TypeOK, now' \in Nat, now <= now', NEW d \in Domains, NEW t \in Times, Matters(d, t)'
    PROVE  Matters(d, t)
<1>1. now \in Nat /\ t \in Nat
  BY RateLimitAssumption DEF TypeOK, Times
<1>2. ASSUME NEW r \in RuleSets, d \in DOMAIN r, r[d].window > 0 PROVE t + r[d].window > now
  <2>1. r[d].window \in Int
    BY <1>2, RateLimitAssumption DEF Rule
  <2>2. t + r[d].window > now'
    BY <1>2 DEF Matters
  <2>. QED
    BY <1>1, <2>1, <2>2
<1>. QED
  BY <1>2 DEF Matters

\* Nothing granted, taken back or refused.
LEMMA LedgerKept ==
    ASSUME TypeOK, LedgerInv, grants' = grants, now' \in Nat, now <= now',
           \A n \in Navigations : slot'[n] = slot[n] /\ (Live(n)' <=> Live(n))
    PROVE  LedgerInv'
<1>1. ASSUME NEW d \in Domains, NEW t \in Times PROVE Balanced(d, t)'
  <2>1. Holders(d, t)' = Holders(d, t)
    BY DEF Holders
  <2>2. Matters(d, t)' => Matters(d, t)
    BY MattersLess
  <2>. QED
    BY <2>1, <2>2 DEF Balanced, LedgerInv
<1>. QED
  BY <1>1 DEF LedgerInv

LEMMA PrunedLedger ==
    ASSUME CallInv, NEW n \in Navigations, pc[n] = "locking", Throttled(Match(HostOf[n])),
           NEW v \in Times, Matters(Match(HostOf[n]), v)
    PROVE  Cardinality(At(Prune(Match(HostOf[n]), clock[n]), v)) = Cardinality(At(grants[Match(HostOf[n])], v))
<1>1. TypeOK /\ Sound(n) /\ HostOf[n] \in Hosts
  BY RateLimitAssumption DEF CallInv
<1>2. PICK d : d = Match(HostOf[n])
  OBVIOUS
<1>3. d \in Domains /\ d \in DOMAIN rules /\ rules[d].window \in Nat \ {0} /\ rules \in RuleSets
  BY <1>1, <1>2, MatchIs DEF TypeOK
<1>4. clock[n] \in Nat /\ now \in Nat /\ clock[n] <= now /\ v \in Nat /\ rules[d].window \in Int /\ clock[n] \in Int
  BY <1>1, <1>3, RateLimitAssumption DEF TypeOK, Sound, Times
<1>5. v + rules[d].window > now
  BY <1>2, <1>3 DEF Matters
<1>6. v + rules[d].window > clock[n]
  BY <1>4, <1>5
<1>7. grants[d] \in Seq(Times)
  BY <1>1, <1>3 DEF TypeOK
<1>8. PICK e : Left(grants[d], Len(grants[d]), Prune(d, clock[n]), rules[d].window, clock[n], e)
  BY <1>1, <1>3, <1>4, PruneIs
<1>9. Cardinality(At(Prune(d, clock[n]), v)) = Cardinality(At(grants[d], v))
  BY <1>4, <1>6, <1>7, <1>8, AtOfPruned
<1>. QED
  BY <1>2, <1>9

LEMMA LedgerOfRefused ==
    ASSUME CallInv, LedgerInv, NEW n \in Navigations, Refuse(n)
    PROVE  LedgerInv'
<1>1. TypeOK /\ Sound(n) /\ HostOf[n] \in Hosts
  BY RateLimitAssumption DEF CallInv
<1>2. PICK d : d = Match(HostOf[n])
  OBVIOUS
<1>3. /\ pc[n] = "locking" /\ Throttled(d) /\ d \in Domains
      /\ grants' = [grants EXCEPT ![d] = Prune(d, clock[n])] /\ pc' = [pc EXCEPT ![n] = "refused"]
      /\ now' = now /\ slot' = slot
  BY <1>1, <1>2, MatchIs DEF Refuse
<1>4. \A m \in Navigations : Live(m)' <=> Live(m)
  BY <1>1, <1>3 DEF Live, Sound, TypeOK
<1>5. ASSUME NEW c \in Domains, NEW v \in Times, Matters(c, v)'
      PROVE Cardinality(At(grants'[c], v)) = Cardinality(Holders(c, v)')
  <2>1. Holders(c, v)' = Holders(c, v)
    BY <1>3, <1>4 DEF Holders
  <2>2. Matters(c, v)
    BY <1>3, <1>5 DEF Matters
  <2>3. Cardinality(At(grants[c], v)) = Cardinality(Holders(c, v))
    BY <2>2 DEF LedgerInv, Balanced
  <2>4. CASE c = d
    <3>1. grants'[c] = Prune(d, clock[n])
      BY <1>1, <1>3, <2>4 DEF TypeOK
    <3>2. Cardinality(At(Prune(d, clock[n]), v)) = Cardinality(At(grants[d], v))
      BY <1>2, <1>3, <2>2, <2>4, PrunedLedger
    <3>. QED
      BY <2>1, <2>3, <2>4, <3>1, <3>2
  <2>5. CASE c # d
    <3>1. grants'[c] = grants[c]
      BY <1>1, <1>3, <2>5 DEF TypeOK
    <3>. QED
      BY <2>1, <2>3, <3>1
  <2>. QED
    BY <2>4, <2>5
<1>. QED
  BY <1>5 DEF LedgerInv, Balanced, At

LEMMA LedgerOfGranted ==
    ASSUME CallInv, LedgerInv, NEW n \in Navigations, Grant(n)
    PROVE  LedgerInv'
<1>1. TypeOK /\ Sound(n) /\ \A m \in Navigations : Sound(m)
  BY DEF CallInv
<1>2. PICK d, g, at : d = Match(HostOf[n]) /\ g = Prune(d, clock[n]) /\ at = Earliest(d, g, clock[n])
  OBVIOUS
<1>3. d \in Domains /\ g \in Seq(Times) /\ at \in Times
  BY <1>2, GrantTypes
<1>4. /\ pc[n] = "locking" /\ Throttled(d)
      /\ grants' = [grants EXCEPT ![d] = Append(g, at)]
      /\ slot' = [slot EXCEPT ![n] = [dom |-> d, at |-> at, under |-> swaps]]
      /\ now' = now
      /\ \/ pc' = [pc EXCEPT ![n] = "sleeping"]
         \/ pc' = [pc EXCEPT ![n] = "reserved"]
  BY <1>2 DEF Grant
<1>5. \A m \in Navigations : m # n => (Live(m)' <=> Live(m)) /\ slot'[m] = slot[m]
  BY <1>1, <1>4 DEF Live, TypeOK
<1>6. ~Live(n) /\ Live(n)' /\ slot'[n].dom = d /\ slot'[n].at = at
  <2>1. slot'[n] = [dom |-> d, at |-> at, under |-> swaps]
    BY <1>1, <1>4 DEF TypeOK
  <2>2. slot'[n] # NoSlot
    BY <1>3, <2>1, RateLimitAssumption DEF NoSlot
  <2>3. pc'[n] \in {"sleeping", "reserved"}
    BY <1>1, <1>4 DEF TypeOK
  <2>4. ~Live(n)
    BY <1>4 DEF Live
  <2>. QED
    BY <2>1, <2>2, <2>3, <2>4 DEF Live
<1>7. ASSUME NEW c \in Domains, NEW v \in Times, Matters(c, v)'
      PROVE Cardinality(At(grants'[c], v)) = Cardinality(Holders(c, v)')
  <2>1. Matters(c, v)
    BY <1>4, <1>7 DEF Matters
  <2>2. Cardinality(At(grants[c], v)) = Cardinality(Holders(c, v))
    BY <2>1 DEF LedgerInv, Balanced
  <2>3. CASE c = d /\ v = at
    <3>1. Holders(c, v)' = Holders(c, v) \union {n} /\ n \notin Holders(c, v)
      BY <1>5, <1>6, <2>3 DEF Holders
    <3>2. Cardinality(Holders(c, v)') = Cardinality(Holders(c, v)) + 1
      BY <3>1, HoldersIsFinite, FS_AddElement
    <3>3. grants'[c] = Append(g, at)
      BY <1>1, <1>4, <2>3 DEF TypeOK
    <3>4. At(grants'[c], v) = At(g, v) \union {Len(g) + 1}
      BY <1>3, <2>3, <3>3, AtOfAppended
    <3>5. Len(g) + 1 \notin At(g, v)
      BY <1>3 DEF At
    <3>6. Cardinality(At(grants'[c], v)) = Cardinality(At(g, v)) + 1
      BY <1>3, <3>4, <3>5, AtIsFinite, FS_AddElement
    <3>7. Cardinality(At(g, v)) = Cardinality(At(grants[c], v))
      BY <1>2, <1>4, <2>1, <2>3, PrunedLedger
    <3>. QED
      BY <2>2, <3>2, <3>6, <3>7
  <2>4. CASE c = d /\ v # at
    <3>1. Holders(c, v)' = Holders(c, v)
      BY <1>5, <1>6, <2>4 DEF Holders
    <3>2. grants'[c] = Append(g, at)
      BY <1>1, <1>4, <2>4 DEF TypeOK
    <3>3. At(grants'[c], v) = At(g, v)
      BY <1>3, <2>4, <3>2, AtOfAppended
    <3>4. Cardinality(At(g, v)) = Cardinality(At(grants[c], v))
      BY <1>2, <1>4, <2>1, <2>4, PrunedLedger
    <3>. QED
      BY <2>2, <3>1, <3>3, <3>4
  <2>5. CASE c # d
    <3>1. Holders(c, v)' = Holders(c, v)
      BY <1>5, <1>6, <2>5 DEF Holders
    <3>2. grants'[c] = grants[c]
      BY <1>1, <1>4, <2>5 DEF TypeOK
    <3>. QED
      BY <2>2, <3>1, <3>2
  <2>. QED
    BY <2>3, <2>4, <2>5
<1>. QED
  BY <1>7 DEF LedgerInv, Balanced, At

\* A call gives its slot back: one entry of its time goes, and it was there.
LEMMA LedgerOfReturned ==
    ASSUME CallInv, LedgerInv, NEW n \in Navigations, Live(n),
           pc' = [pc EXCEPT ![n] = "cancelled"] \/ pc' = [pc EXCEPT ![n] = "rolledback"],
           grants' = RemoveGrant(slot[n].dom, slot[n].at), slot' = slot, now' = now
    PROVE  LedgerInv'
<1>1. TypeOK /\ Sound(n)
  BY DEF CallInv
<1>2. PICK d, at : d = slot[n].dom /\ at = slot[n].at
  OBVIOUS
<1>3. d \in Domains /\ at \in Times /\ slot[n] # NoSlot
  BY <1>1, <1>2 DEF TypeOK, Sound, Live
<1>4. \A m \in Navigations : m # n => (Live(m)' <=> Live(m))
  BY <1>1 DEF Live, TypeOK
<1>5. ~Live(n)'
  BY <1>1 DEF Live, TypeOK
<1>6. ASSUME NEW c \in Domains, NEW v \in Times, Matters(c, v)'
      PROVE Cardinality(At(grants'[c], v)) = Cardinality(Holders(c, v)')
  <2>1. Matters(c, v)
    BY <1>6 DEF Matters
  <2>2. Cardinality(At(grants[c], v)) = Cardinality(Holders(c, v))
    BY <2>1 DEF LedgerInv, Balanced
  <2>3. CASE ~(c = d /\ v = at)
    <3>1. Holders(c, v)' = Holders(c, v)
      BY <1>2, <1>4, <1>5, <2>3 DEF Holders
    <3>2. CASE grants' = grants
      BY <2>2, <3>1, <3>2
    <3>3. ASSUME NEW i \in 1..Len(grants[d]), grants[d][i] = at, grants' = [grants EXCEPT ![d] = RemoveAt(grants[d], i)]
          PROVE  Cardinality(At(grants'[c], v)) = Cardinality(Holders(c, v)')
      <4>1. CASE c # d
        <5>1. grants'[c] = grants[c]
          BY <1>1, <3>3, <4>1 DEF TypeOK
        <5>. QED
          BY <2>2, <3>1, <5>1
      <4>2. CASE c = d
        <5>1. grants'[c] = RemoveAt(grants[c], i) /\ grants[c] \in Seq(Times) /\ i \in 1..Len(grants[c])
          BY <1>1, <3>3, <4>2 DEF TypeOK
        <5>2. grants[c][i] # v
          BY <2>3, <3>3, <4>2
        <5>3. Cardinality(At(RemoveAt(grants[c], i), v)) = Cardinality(At(grants[c], v))
          BY <5>1, <5>2, AtOfRemoved
        <5>. QED
          BY <2>2, <3>1, <5>1, <5>3
      <4>. QED
        BY <4>1, <4>2
    <3>. QED
      BY <1>1, <1>2, <1>3, <3>2, <3>3, RemoveGrantIs
  <2>4. CASE c = d /\ v = at
    <3>1. Holders(c, v)' = Holders(c, v) \ {n} /\ n \in Holders(c, v)
      BY <1>2, <1>4, <1>5, <2>4 DEF Holders
    <3>2. Cardinality(Holders(c, v)') = Cardinality(Holders(c, v)) - 1
      BY <3>1, HoldersIsFinite, FS_RemoveElement
    <3>3. CASE \A i \in 1..Len(grants[d]) : grants[d][i] # at
      <4>1. At(grants[c], v) = {}
        BY <2>4, <3>3 DEF At
      <4>2. Cardinality(Holders(c, v)) = 0
        BY <2>2, <4>1, FS_EmptySet
      <4>3. Holders(c, v) = {}
        BY <4>2, HoldersIsFinite, FS_EmptySet
      <4>. QED
        BY <3>1, <4>3
    <3>4. ASSUME NEW i \in 1..Len(grants[d]), grants[d][i] = at, grants' = [grants EXCEPT ![d] = RemoveAt(grants[d], i)]
          PROVE  Cardinality(At(grants'[c], v)) = Cardinality(Holders(c, v)')
      <4>1. grants'[c] = RemoveAt(grants[c], i) /\ grants[c] \in Seq(Times) /\ i \in 1..Len(grants[c]) /\ grants[c][i] = v
        BY <1>1, <2>4, <3>4 DEF TypeOK
      <4>2. Cardinality(At(RemoveAt(grants[c], i), v)) = Cardinality(At(grants[c], v)) - 1
        BY <4>1, AtOfRemoved
      <4>. QED
        BY <2>2, <3>2, <4>1, <4>2
    <3>. QED
      BY <1>1, <1>2, <1>3, <3>3, <3>4, RemoveGrantIs
  <2>. QED
    BY <2>3, <2>4
<1>. QED
  BY <1>6 DEF LedgerInv, Balanced, At

LEMMA LedgerStarts ==
    ASSUME Init
    PROVE  LedgerInv
<1>1. ASSUME NEW d \in Domains, NEW t \in Times PROVE At(grants[d], t) = {} /\ Holders(d, t) = {}
  <2>1. grants[d] = <<>> /\ \A n \in Navigations : slot[n] = NoSlot
    BY DEF Init
  <2>2. 1..Len(<<>>) = {}
    OBVIOUS
  <2>. QED
    BY <2>1, <2>2 DEF At, Holders, Live
<1>. QED
  BY <1>1 DEF LedgerInv, Balanced

LEMMA LedgerStep ==
    ASSUME CallInv, LedgerInv, [Next]_vars
    PROVE  LedgerInv'
<1>1. TypeOK /\ TypeOK' /\ \A m \in Navigations : Sound(m)
  BY CallsStep DEF CallInv
<1>2. now \in Nat /\ now' \in Nat
  BY <1>1 DEF TypeOK
<1>3. CASE UNCHANGED vars
  BY <1>1, <1>2, <1>3, LedgerKept DEF vars, Live
<1>4. ASSUME NEW n \in Navigations, ReadClock(n) \/ PassUnthrottled(n) \/ TimerFires(n) \/ Commit(n) PROVE LedgerInv'
  <2>1. grants' = grants /\ now' = now /\ slot' = slot
    BY <1>4 DEF ReadClock, PassUnthrottled, TimerFires, Commit
  <2>2. ASSUME NEW m \in Navigations PROVE Live(m)' <=> Live(m)
    <3>1. CASE ReadClock(n)
      BY <1>1, <2>1, <3>1 DEF ReadClock, Live, TypeOK
    <3>2. CASE PassUnthrottled(n)
      BY <1>1, <2>1, <3>2 DEF PassUnthrottled, Live, TypeOK, Sound
    <3>3. CASE TimerFires(n)
      BY <1>1, <2>1, <3>3 DEF TimerFires, Live, TypeOK
    <3>4. CASE Commit(n)
      BY <1>1, <2>1, <3>4 DEF Commit, Live, TypeOK
    <3>. QED
      BY <1>4, <3>1, <3>2, <3>3, <3>4
  <2>. QED
    BY <1>1, <1>2, <2>1, <2>2, LedgerKept
<1>5. ASSUME NEW n \in Navigations, Grant(n) PROVE LedgerInv'
  BY <1>5, LedgerOfGranted
<1>6. ASSUME NEW n \in Navigations, Refuse(n) PROVE LedgerInv'
  BY <1>6, LedgerOfRefused
<1>7. ASSUME NEW n \in Navigations, Cancel(n) PROVE LedgerInv'
  <2>1. Live(n)
    BY <1>1, <1>7 DEF Cancel, Live, Sound
  <2>. QED
    BY <1>7, <2>1, LedgerOfReturned DEF Cancel
<1>8. ASSUME NEW n \in Navigations, Rollback(n) PROVE LedgerInv'
  <2>1. /\ pc[n] = "reserved" /\ pc' = [pc EXCEPT ![n] = "rolledback"]
        /\ slot' = slot /\ now' = now
    BY <1>8 DEF Rollback
  <2>2. CASE slot[n] = NoSlot
    <3>1. grants' = grants
      BY <1>8, <2>2 DEF Rollback
    <3>2. \A m \in Navigations : Live(m)' <=> Live(m)
      BY <1>1, <2>1, <2>2 DEF Live, TypeOK
    <3>. QED
      BY <1>1, <1>2, <2>1, <3>1, <3>2, LedgerKept
  <2>3. CASE slot[n] # NoSlot
    <3>1. grants' = RemoveGrant(slot[n].dom, slot[n].at) /\ Live(n)
      BY <1>8, <2>1, <2>3 DEF Rollback, Live
    <3>. QED
      BY <2>1, <3>1, LedgerOfReturned
  <2>. QED
    BY <2>2, <2>3
<1>9. ASSUME NEW r \in RuleSets, SetRules(r) PROVE LedgerInv'
  BY <1>1, <1>2, <1>9, LedgerKept DEF SetRules, Live
<1>10. CASE Tick
  BY <1>1, <1>2, <1>10, LedgerKept DEF Tick, Live
<1>. QED
  BY <1>3, <1>4, <1>5, <1>6, <1>7, <1>8, <1>9, <1>10 DEF Next

\* The list of grants is exact where it matters: for every time that some rule can still
\* count, removeGrant takes out one entry of the call's own, Reserve adds one or none, and
\* its prune drops none, whatever times collide.
THEOREM LedgerIsExact == Spec => []LedgerMatchesSlots
<1>1. Init => LedgerInv
  BY LedgerStarts
<1>2. CallInv /\ LedgerInv /\ [Next]_vars => LedgerInv'
  BY LedgerStep
<1>3. CallInv /\ LedgerInv => LedgerMatchesSlots
  BY LedgerIs DEF CallInv
<1>. QED
  BY <1>1, <1>2, <1>3, CallsHold, PTL DEF Spec

----------------------------------------------------------------------------
(* Every span                                                              *)

LEMMA HeadsAreFew ==
    ASSUME NEW s \in Seq(Times), NEW max \in Nat, NEW a
    PROVE  /\ IsFiniteSet(Heads(s, max, a)) /\ Cardinality(Heads(s, max, a)) \in Nat
           /\ Cardinality(Heads(s, max, a)) <= max
<1>1. Len(s) \in Nat
  OBVIOUS
<1>2. PICK lo \in Int : lo = Len(s) - max + 1
  <2>1. Len(s) - max + 1 \in Int
    BY <1>1
  <2>. QED
    BY <2>1
<1>3. Heads(s, max, a) \in SUBSET (lo..Len(s))
  BY <1>1, <1>2 DEF Heads
<1>4. IsFiniteSet(lo..Len(s)) /\ Cardinality(lo..Len(s)) <= max
  <2>1. /\ IsFiniteSet(lo..Len(s))
        /\ Cardinality(lo..Len(s)) = IF lo > Len(s) THEN 0 ELSE Len(s) - lo + 1
    <3>1. lo \in Int /\ Len(s) \in Int
      BY <1>1, <1>2
    <3>. QED
      BY <3>1, FS_Interval
  <2>. QED
    BY <1>1, <1>2, <2>1
<1>5. IsFiniteSet(Heads(s, max, a)) /\ Cardinality(Heads(s, max, a)) <= Cardinality(lo..Len(s))
  BY <1>3, <1>4, FS_Subset
<1>6. Cardinality(Heads(s, max, a)) \in Nat /\ Cardinality(lo..Len(s)) \in Nat
  BY <1>4, <1>5, FS_CardinalityType
<1>. QED
  BY <1>4, <1>5, <1>6

\* An increasing map of places does not move a place away from the end.
LEMMA NearTheEnd ==
    ASSUME NEW k \in Nat, NEW l \in Nat, NEW e \in [1..k -> 1..l],
           \A i, j \in 1..k : i < j => e[i] < e[j], NEW j \in 1..k
    PROVE  k - j <= l - e[j]
<1>1. PICK a \in Nat : a = j + 1
  OBVIOUS
<1>2. e[j] \in 1..l
  OBVIOUS
<1>3. PICK b \in Nat : b = e[j] + 1
  BY <1>2
<1>4. PICK f : f = [i \in a..k |-> e[i]]
  OBVIOUS
<1>5. \A i \in a..k : f[i] = e[i] /\ i \in 1..k /\ e[i] \in 1..l /\ e[j] < e[i]
  BY <1>1, <1>4
<1>6. f \in [a..k -> b..l]
  <2>1. \A i \in a..k : f[i] \in b..l
    BY <1>2, <1>3, <1>5
  <2>. QED
    BY <1>4, <2>1
<1>7. ASSUME NEW x \in a..k, NEW y \in a..k, f[x] = f[y] PROVE x = y
  <2>1. x \in 1..k /\ y \in 1..k /\ e[x] = e[y] /\ e[x] \in 1..l
    BY <1>5, <1>7
  <2>2. ~(x < y) /\ ~(y < x)
    BY <2>1
  <2>. QED
    BY <2>1, <2>2
<1>8. /\ IsFiniteSet(b..l) /\ Cardinality(b..l) = IF b > l THEN 0 ELSE l - b + 1
      /\ IsFiniteSet(a..k) /\ Cardinality(a..k) = IF a > k THEN 0 ELSE k - a + 1
  BY FS_Interval
<1>9. Cardinality(a..k) <= Cardinality(b..l)
  BY <1>6, <1>7, <1>8, NotLarger
<1>. QED
  BY <1>1, <1>2, <1>3, <1>8, <1>9

\* If no head is pruned, there are no fewer afterwards.
LEMMA HeadsOfPruned ==
    ASSUME NEW s \in Seq(Times), NEW m, NEW window \in Int, NEW t \in Int, NEW e,
           Left(s, Len(s), m, window, t, e), NEW max \in Nat, NEW a \in Int,
           \A i \in Heads(s, max, a) : s[i] + window > t
    PROVE  Cardinality(Heads(s, max, a)) <= Cardinality(Heads(m, max, a))
<1>1. /\ m \in Seq(Times) /\ e \in [1..Len(m) -> 1..Len(s)]
      /\ \A i, j \in 1..Len(m) : i < j => e[i] < e[j]
      /\ \A j \in 1..Len(m) : m[j] = s[e[j]]
      /\ \A i \in 1..Len(s) : s[i] + window > t => \E j \in 1..Len(m) : e[j] = i
      /\ Len(m) \in Nat /\ Len(s) \in Nat
  BY DEF Left
<1>2. \A i \in Heads(s, max, a) : \E j \in 1..Len(m) : e[j] = i
  BY <1>1 DEF Heads
<1>3. PICK f : f = [i \in Heads(s, max, a) |-> CHOOSE j \in 1..Len(m) : e[j] = i]
  OBVIOUS
<1>4. ASSUME NEW i \in Heads(s, max, a) PROVE f[i] \in 1..Len(m) /\ e[f[i]] = i
  BY <1>2, <1>3
<1>5. ASSUME NEW i \in Heads(s, max, a) PROVE f[i] \in Heads(m, max, a)
  <2>1. PICK j : j = f[i]
    OBVIOUS
  <2>2. j \in 1..Len(m) /\ e[j] = i
    BY <1>4, <2>1
  <2>3. i \in 1..Len(s) /\ i > Len(s) - max /\ s[i] >= a
    BY DEF Heads
  <2>4. Len(m) - j <= Len(s) - e[j]
    BY <1>1, <2>2, NearTheEnd
  <2>5. j > Len(m) - max
    BY <1>1, <2>2, <2>3, <2>4
  <2>6. m[j] >= a
    BY <1>1, <2>2, <2>3
  <2>. QED
    BY <2>1, <2>2, <2>5, <2>6 DEF Heads
<1>6. f \in [Heads(s, max, a) -> Heads(m, max, a)]
  BY <1>3, <1>5
<1>7. \A x, y \in Heads(s, max, a) : f[x] = f[y] => x = y
  BY <1>4
<1>8. IsFiniteSet(Heads(m, max, a))
  BY <1>1, HeadsAreFew
<1>. QED
  BY <1>6, <1>7, <1>8, NotLarger

\* A grant pushes one entry out of the heads, the one it goes by.
LEMMA HeadsOfAppended ==
    ASSUME NEW s \in Seq(Times), NEW at \in Times, NEW max \in Nat \ {0}, NEW a \in Int
    PROVE  LET k == Len(s) - max + 1
               old == Cardinality(Heads(s, max, a))
               new == Cardinality(Heads(Append(s, at), max, a)) IN
           /\ at >= a => old <= new
           /\ (k \in 1..Len(s) => s[k] < a) => new >= old + (IF at >= a THEN 1 ELSE 0)
<1>1. PICK k \in Int : k = Len(s) - max + 1
  OBVIOUS
<1>2. PICK r : r = Append(s, at)
  OBVIOUS
<1>3. PICK l \in Nat : l = Len(s)
  OBVIOUS
<1>4. /\ r \in Seq(Times) /\ Len(r) = l + 1 /\ r[l + 1] = at /\ k <= l /\ k = l - max + 1
      /\ \A i \in 1..l : r[i] = s[i] /\ i \in 1..(l + 1) /\ i # l + 1
  BY <1>1, <1>2, <1>3
<1>5. PICK H, J : H = Heads(s, max, a) /\ J = Heads(r, max, a)
  OBVIOUS
<1>6. \A i : i \in H <=> i \in 1..l /\ i >= k /\ s[i] >= a
  <2>1. \A i \in 1..l : i > l - max <=> i >= k
    BY <1>3, <1>4
  <2>. QED
    BY <1>3, <1>5, <2>1 DEF Heads
<1>7. \A i \in 1..l : i \in J <=> i > k /\ s[i] >= a
  <2>1. \A i \in 1..l : i > (l + 1) - max <=> i > k
    BY <1>4
  <2>. QED
    BY <1>4, <1>5, <2>1 DEF Heads
<1>8. l + 1 \in J <=> at >= a
  <2>1. l + 1 \in 1..(l + 1) /\ l + 1 > (l + 1) - max
    OBVIOUS
  <2>. QED
    BY <1>4, <1>5, <2>1 DEF Heads
<1>9. l + 1 \notin H
  BY <1>6
<1>10. H \ {k} \subseteq J
  BY <1>4, <1>6, <1>7
<1>11. /\ IsFiniteSet(H) /\ Cardinality(H) \in Nat
       /\ IsFiniteSet(J) /\ Cardinality(J) \in Nat
  BY <1>4, <1>5, HeadsAreFew
<1>12. IsFiniteSet(H \ {k}) /\ Cardinality(H \ {k}) = IF k \in H THEN Cardinality(H) - 1 ELSE Cardinality(H)
  BY <1>11, FS_RemoveElement
<1>13. PICK K : K = H \ {k}
  OBVIOUS
<1>14. /\ IsFiniteSet(K) /\ Cardinality(K) = IF k \in H THEN Cardinality(H) - 1 ELSE Cardinality(H)
       /\ K \subseteq J /\ l + 1 \notin K
  BY <1>9, <1>10, <1>12, <1>13
<1>15. Cardinality(K) <= Cardinality(J)
  BY <1>11, <1>14, FS_Subset
<1>16. ASSUME at >= a PROVE Cardinality(K) + 1 <= Cardinality(J)
  <2>1. K \union {l + 1} \in SUBSET J
    BY <1>8, <1>14, <1>16
  <2>2. Cardinality(K \union {l + 1}) = Cardinality(K) + 1
    BY <1>14, FS_AddElement
  <2>3. Cardinality(K \union {l + 1}) <= Cardinality(J)
    BY <1>11, <2>1, FS_Subset
  <2>. QED
    BY <2>2, <2>3
<1>17. Cardinality(K) \in Nat
  BY <1>14, FS_CardinalityType
<1>18. at >= a => Cardinality(H) <= Cardinality(J)
  BY <1>11, <1>14, <1>16, <1>17
<1>19. ASSUME k \in 1..l => s[k] < a PROVE Cardinality(J) >= Cardinality(H) + (IF at >= a THEN 1 ELSE 0)
  <2>1. k \notin H
    <3>1. k \in 1..l => s[k] \in Int
      BY <1>3, RateLimitAssumption DEF Times
    <3>. QED
      BY <1>6, <1>19, <3>1
  <2>2. Cardinality(K) = Cardinality(H)
    BY <1>14, <2>1
  <2>. QED
    BY <1>11, <1>15, <1>16, <2>2
<1>. QED
  BY <1>1, <1>2, <1>3, <1>5, <1>18, <1>19

LEMMA LiveInIsFinite ==
    ASSUME NEW d, NEW len, NEW start
    PROVE  IsFiniteSet(LiveIn(d, len, start)) /\ Cardinality(LiveIn(d, len, start)) \in Nat
<1>1. IsFiniteSet(Navigations) /\ LiveIn(d, len, start) \in SUBSET Navigations
  BY RateLimitAssumption DEF LiveIn
<1>2. IsFiniteSet(LiveIn(d, len, start))
  BY <1>1, FS_Subset
<1>. QED
  BY <1>2, FS_CardinalityType

\* Clocks are read as time goes on, so a span stays over.
LEMMA OverKept ==
    ASSUME NEW e \in Int, Over(e), now \in Nat, now' \in Nat, now <= now',
           \A m \in Navigations : pc'[m] = "locking" =>
               (pc[m] = "locking" /\ clock'[m] = clock[m]) \/ clock'[m] = now'
    PROVE  Over(e)'
BY DEF Over

\* The list, the rules and the slots held are as they were.
LEMMA CapKept ==
    ASSUME TypeOK, TypeOK', CapInv, now <= now',
           UNCHANGED <<rules, grants, slot, swaps, returned>>,
           \A m \in Navigations : Live(m)' <=> Live(m),
           \A m \in Navigations : pc'[m] = "locking" =>
               (pc[m] = "locking" /\ clock'[m] = clock[m]) \/ clock'[m] = now'
    PROVE  CapInv'
<1>1. ASSUME ~returned, NEW d \in DOMAIN rules, Throttled(d), NEW start \in Times PROVE SpanInv(d, start)'
  <2>1. rules[d].window \in Nat /\ now \in Nat /\ now' \in Nat /\ start \in Nat /\ MaxLag \in Nat
    BY <1>1, RuleIs, RateLimitAssumption DEF TypeOK, Times
  <2>2. PICK len, N : len = rules[d].window - MaxLag /\ N = Cardinality(LiveIn(d, len, start))
    OBVIOUS
  <2>3. start + len \in Int
    BY <2>1, <2>2
  <2>4. N <= rules[d].max /\ (Over(start + len) \/ N <= Cardinality(Heads(grants[d], rules[d].max, start)))
    BY <1>1, <2>2 DEF CapInv, SpanInv
  <2>5. LiveIn(d, len, start)' = LiveIn(d, len, start)
    BY DEF LiveIn
  <2>6. Over(start + len) => Over(start + len)'
    <3>1. PICK e \in Int : e = start + len
      BY <2>3
    <3>2. Over(e) => Over(e)'
      BY <2>1, OverKept
    <3>. QED
      BY <3>1, <3>2 DEF Over
  <2>. QED
    BY <2>2, <2>4, <2>5, <2>6 DEF SpanInv, Heads
<1>. QED
  BY <1>1 DEF CapInv, Throttled

\* A prune that takes a head of the span comes after it: no caller has a clock older than
\* MaxLag.
LEMMA HeadsArePruned ==
    ASSUME CallInv, NEW n \in Navigations, pc[n] = "locking", NEW d, d = Match(HostOf[n]), Throttled(d),
           NEW start \in Times, ~Over(start + (rules[d].window - MaxLag))
    PROVE  Cardinality(Heads(grants[d], rules[d].max, start))
             <= Cardinality(Heads(Prune(d, clock[n]), rules[d].max, start))
<1>1. TypeOK /\ HostOf[n] \in Hosts /\ \A m \in Navigations : Sound(m)
  BY RateLimitAssumption DEF CallInv
<1>2. /\ d \in Domains /\ d \in DOMAIN rules
      /\ rules[d].window \in Nat \ {0} /\ rules[d].max \in Nat \ {0}
  BY <1>1, MatchIs
<1>3. PICK s, w, t, max : s = grants[d] /\ w = rules[d].window /\ t = clock[n] /\ max = rules[d].max
  OBVIOUS
<1>4. /\ s \in Seq(Times) /\ w \in Int /\ t \in Int /\ max \in Nat /\ start \in Int
      /\ w \in Nat /\ t \in Nat /\ now \in Nat /\ MaxLag \in Nat /\ start \in Nat
      /\ \A m \in Navigations : clock[m] \in Nat
  BY <1>1, <1>2, <1>3, RateLimitAssumption DEF TypeOK, Times
<1>5. t <= now
  BY <1>1, <1>3 DEF Sound
<1>6. ASSUME NEW i \in Heads(s, max, start) PROVE s[i] + w > t
  <2>1. i \in 1..Len(s) /\ s[i] >= start
    BY DEF Heads
  <2>2. s[i] \in Nat
    BY <1>4, <2>1, RateLimitAssumption DEF Times
  <2>3. SUFFICES ASSUME ~(s[i] + w > t) PROVE FALSE
    OBVIOUS
  <2>4. now >= start + w
    BY <1>4, <1>5, <2>1, <2>2, <2>3
  <2>5. now >= start + (w - MaxLag)
    BY <1>4, <2>4
  <2>6. ASSUME NEW m \in Navigations, pc[m] = "locking" PROVE clock[m] >= start + (w - MaxLag)
    <3>1. now - clock[m] <= MaxLag /\ clock[m] \in Nat
      BY <1>1, <1>4, <2>6 DEF Sound
    <3>. QED
      BY <1>4, <2>4, <3>1
  <2>. QED
    BY <1>3, <2>5, <2>6 DEF Over
<1>7. PICK e : Left(s, Len(s), Prune(d, t), w, t, e)
  BY <1>1, <1>2, <1>3, <1>4, PruneIs
<1>8. PICK m : m = Prune(d, t)
  OBVIOUS
<1>9. Cardinality(Heads(s, max, start)) <= Cardinality(Heads(m, max, start))
  BY <1>4, <1>6, <1>7, <1>8, HeadsOfPruned
<1>. QED
  BY <1>3, <1>8, <1>9

LEMMA CapOfRefused ==
    ASSUME CallInv, TypeOK', CapInv, NEW n \in Navigations, Refuse(n)
    PROVE  CapInv'
<1>1. TypeOK /\ HostOf[n] \in Hosts /\ \A m \in Navigations : Sound(m)
  BY RateLimitAssumption DEF CallInv
<1>2. PICK d : d = Match(HostOf[n])
  OBVIOUS
<1>3. /\ pc[n] = "locking" /\ Throttled(d) /\ d \in Domains
      /\ grants' = [grants EXCEPT ![d] = Prune(d, clock[n])] /\ pc' = [pc EXCEPT ![n] = "refused"]
      /\ UNCHANGED <<now, rules, clock, slot, swaps, returned>>
  BY <1>1, <1>2, MatchIs DEF Refuse
<1>4. \A m \in Navigations : Live(m)' <=> Live(m)
  BY <1>1, <1>3 DEF Live, Sound, TypeOK
<1>5. ASSUME ~returned, NEW c \in DOMAIN rules, Throttled(c), NEW start \in Times PROVE SpanInv(c, start)'
  <2>1. rules[c].window \in Nat /\ rules[c].max \in Nat /\ c \in Domains /\ MaxLag \in Nat /\ start \in Nat
    BY <1>1, <1>5, RuleIs, RateLimitAssumption DEF Times
  <2>2. PICK len, N : len = rules[c].window - MaxLag /\ N = Cardinality(LiveIn(c, len, start))
    OBVIOUS
  <2>3. start + len \in Int /\ N \in Nat
    BY <2>1, <2>2, LiveInIsFinite
  <2>4. N <= rules[c].max /\ (Over(start + len) \/ N <= Cardinality(Heads(grants[c], rules[c].max, start)))
    BY <1>5, <2>2 DEF CapInv, SpanInv
  <2>5. LiveIn(c, len, start)' = LiveIn(c, len, start)
    BY <1>3, <1>4 DEF LiveIn
  <2>6. Over(start + len) => Over(start + len)'
    BY <1>1, <1>3 DEF Over, TypeOK
  <2>7. Over(start + len) \/ N <= Cardinality(Heads(grants'[c], rules[c].max, start))
    <3>1. CASE c # d
      <4>1. grants'[c] = grants[c]
        BY <1>1, <1>3, <2>1, <3>1 DEF TypeOK
      <4>. QED
        BY <2>4, <4>1
    <3>2. CASE c = d
      <4>1. SUFFICES ASSUME ~Over(start + len) PROVE N <= Cardinality(Heads(grants'[c], rules[c].max, start))
        OBVIOUS
      <4>2. grants'[c] = Prune(d, clock[n])
        BY <1>1, <1>3, <3>2 DEF TypeOK
      <4>3. Cardinality(Heads(grants[c], rules[c].max, start)) <= Cardinality(Heads(grants'[c], rules[c].max, start))
        BY <1>2, <1>3, <2>2, <3>2, <4>1, <4>2, HeadsArePruned
      <4>4. grants[c] \in Seq(Times) /\ grants'[c] \in Seq(Times)
        BY <1>1, <2>1 DEF TypeOK
      <4>5. /\ Cardinality(Heads(grants[c], rules[c].max, start)) \in Nat
            /\ Cardinality(Heads(grants'[c], rules[c].max, start)) \in Nat
        BY <2>1, <4>4, HeadsAreFew
      <4>. QED
        BY <2>3, <2>4, <4>1, <4>3, <4>5
    <3>. QED
      BY <3>1, <3>2
  <2>. QED
    BY <1>3, <2>2, <2>4, <2>5, <2>6, <2>7 DEF SpanInv, Heads
<1>. QED
  BY <1>3, <1>5 DEF CapInv, Throttled

\* A slot in a span that is not over: the entry it goes by is a window before it, and so
\* before the span.
LEMMA CapOfGranted ==
    ASSUME CallInv, TypeOK', CapInv, NEW n \in Navigations, Grant(n)
    PROVE  CapInv'
<1>1. TypeOK /\ HostOf[n] \in Hosts /\ \A m \in Navigations : Sound(m)
  BY RateLimitAssumption DEF CallInv
<1>2. PICK d, g, at : d = Match(HostOf[n]) /\ g = Prune(d, clock[n]) /\ at = Earliest(d, g, clock[n])
  OBVIOUS
<1>3. /\ d \in Domains /\ g \in Seq(Times) /\ at \in Times /\ at \in Nat /\ clock[n] <= at
      /\ d \in DOMAIN rules /\ rules[d].max \in Nat \ {0} /\ rules[d].window \in Nat \ {0}
      /\ clock[n] \in Nat
  BY <1>2, GrantTypes
<1>4. /\ pc[n] = "locking" /\ Throttled(d)
      /\ grants' = [grants EXCEPT ![d] = Append(g, at)]
      /\ slot' = [slot EXCEPT ![n] = [dom |-> d, at |-> at, under |-> swaps]]
      /\ UNCHANGED <<now, rules, clock, swaps, returned>>
      /\ \/ pc' = [pc EXCEPT ![n] = "sleeping"]
         \/ pc' = [pc EXCEPT ![n] = "reserved"]
  BY <1>2 DEF Grant
<1>5. \A m \in Navigations : m # n => (Live(m)' <=> Live(m)) /\ slot'[m] = slot[m]
  BY <1>1, <1>4 DEF Live, TypeOK
<1>6. ~Live(n) /\ slot'[n].dom = d /\ slot'[n].at = at
  BY <1>1, <1>4 DEF Live, TypeOK
<1>7. ASSUME ~returned, NEW c \in DOMAIN rules, Throttled(c), NEW start \in Times PROVE SpanInv(c, start)'
  <2>1. /\ rules[c].window \in Nat \ {0} /\ rules[c].max \in Nat \ {0} /\ c \in Domains
        /\ MaxLag \in Nat /\ start \in Nat /\ start \in Int
    BY <1>1, <1>7, RuleIs, RateLimitAssumption DEF Times
  <2>2. PICK len, N, NN : /\ len = rules[c].window - MaxLag /\ N = Cardinality(LiveIn(c, len, start))
                          /\ NN = Cardinality(LiveIn(c, len, start)')
    OBVIOUS
  <2>3. PICK max, old, new : /\ max = rules[c].max
                             /\ old = Cardinality(Heads(grants[c], max, start))
                             /\ new = Cardinality(Heads(grants'[c], max, start))
    OBVIOUS
  <2>4. grants[c] \in Seq(Times) /\ grants'[c] \in Seq(Times)
    BY <1>1, <2>1 DEF TypeOK
  <2>5. start + len \in Int /\ len \in Int /\ N \in Nat /\ max \in Nat \ {0} /\ old \in Nat /\ new \in Nat /\ new <= max
    <3>1. max \in Nat \ {0} /\ max \in Nat
      BY <2>1, <2>3
    <3>2. old \in Nat /\ new \in Nat /\ new <= max
      BY <2>3, <2>4, <3>1, HeadsAreFew
    <3>. QED
      BY <2>1, <2>2, <3>1, <3>2, LiveInIsFinite
  <2>6. N <= max /\ (Over(start + len) \/ N <= old)
    BY <1>7, <2>2, <2>3 DEF CapInv, SpanInv
  <2>7. Over(start + len) => Over(start + len)'
    BY <1>1, <1>4 DEF Over, TypeOK
  <2>8. SUFFICES NN <= max /\ (Over(start + len) \/ NN <= new)
    BY <1>4, <2>2, <2>3, <2>7 DEF SpanInv, Heads
  <2>9. CASE c # d
    <3>1. LiveIn(c, len, start)' = LiveIn(c, len, start)
      BY <1>4, <1>5, <1>6, <2>9 DEF LiveIn
    <3>2. grants'[c] = grants[c]
      BY <1>1, <1>4, <2>1, <2>9 DEF TypeOK
    <3>. QED
      BY <2>2, <2>3, <2>6, <3>1, <3>2
  <2>10. CASE c = d
    <3>1. grants'[c] = Append(g, at)
      BY <1>1, <1>3, <1>4, <2>10 DEF TypeOK
    <3>2. PICK mid, k : mid = Cardinality(Heads(g, max, start)) /\ k = Len(g) - max + 1
      OBVIOUS
    <3>3. mid \in Nat
      BY <1>3, <2>5, <3>2, HeadsAreFew
    <3>4. /\ at >= start => mid <= new
          /\ (k \in 1..Len(g) => g[k] < start) => new >= mid + (IF at >= start THEN 1 ELSE 0)
      BY <1>3, <2>1, <2>3, <2>5, <3>1, <3>2, HeadsOfAppended
    <3>5. ~Over(start + len) => N <= mid
      <4>1. ASSUME ~Over(start + len) PROVE old <= mid
        BY <1>2, <1>4, <2>2, <2>3, <2>10, <3>2, <4>1, HeadsArePruned
      <4>. QED
        BY <2>5, <2>6, <3>3, <4>1
    <3>6. k \in 1..Len(g) => g[k] \in Nat /\ g[k] + rules[c].window <= at
      <4>1. /\ Len(g) >= rules[d].max =>
                  g[Len(g) - rules[d].max + 1] \in Nat /\ g[Len(g) - rules[d].max + 1] + rules[d].window <= at
        BY <1>1, <1>2, <1>3, EarliestIs
      <4>2. Len(g) \in Nat /\ max \in Nat
        BY <1>3, <2>5
      <4>3. k \in 1..Len(g) => Len(g) >= max
        BY <3>2, <4>2
      <4>. QED
        BY <2>3, <2>10, <3>2, <4>1, <4>3
    <3>7. CASE start <= at /\ at < start + len
      <4>1. LiveIn(c, len, start)' \subseteq LiveIn(c, len, start) \union {n}
        BY <1>4, <1>5 DEF LiveIn
      <4>2. NN <= N + 1 /\ NN \in Nat
        <5>1. PICK L : L = LiveIn(c, len, start)
          OBVIOUS
        <5>2. IsFiniteSet(L) /\ N = Cardinality(L)
          BY <2>2, <5>1, LiveInIsFinite
        <5>3. IsFiniteSet(L \union {n}) /\ Cardinality(L \union {n}) = IF n \in L THEN N ELSE N + 1
          BY <5>2, FS_AddElement
        <5>4. LiveIn(c, len, start)' \in SUBSET (L \union {n})
          BY <4>1, <5>1
        <5>5. IsFiniteSet(LiveIn(c, len, start)') /\ NN <= Cardinality(L \union {n})
          BY <2>2, <5>3, <5>4, FS_Subset
        <5>6. NN \in Nat
          BY <2>2, <5>5, FS_CardinalityType
        <5>. QED
          BY <2>5, <5>3, <5>5, <5>6
      <4>3. ~Over(start + len)
        <5>1. ~(clock[n] >= start + len)
          BY <1>3, <2>5, <3>7
        <5>. QED
          BY <1>4, <5>1 DEF Over
      <4>4. k \in 1..Len(g) => g[k] < start
        BY <1>3, <2>1, <2>2, <3>6, <3>7
      <4>5. N + 1 <= new
        BY <2>5, <3>3, <3>4, <3>5, <3>7, <4>3, <4>4
      <4>. QED
        BY <2>5, <4>2, <4>5
    <3>8. CASE ~(start <= at /\ at < start + len)
      <4>1. LiveIn(c, len, start)' = LiveIn(c, len, start)
        <5>1. n \notin LiveIn(c, len, start)' /\ n \notin LiveIn(c, len, start)
          BY <1>6, <3>8 DEF LiveIn
        <5>. QED
          BY <1>4, <1>5, <5>1 DEF LiveIn
      <4>2. NN = N
        BY <2>2, <4>1
      <4>3. CASE at >= start
        BY <2>5, <2>6, <3>3, <3>4, <3>5, <4>2, <4>3
      <4>4. CASE ~(at >= start)
        <5>1. k \in 1..Len(g) => g[k] < start
          BY <1>3, <2>1, <3>6, <4>4
        <5>. QED
          BY <2>5, <2>6, <3>3, <3>4, <3>5, <4>2, <4>4, <5>1
      <4>. QED
        BY <4>3, <4>4
    <3>. QED
      BY <3>7, <3>8
  <2>. QED
    BY <2>9, <2>10
<1>. QED
  BY <1>4, <1>7 DEF CapInv, Throttled

LEMMA CapStarts ==
    ASSUME Init
    PROVE  CapInv
<1>1. TypeOK
  BY CallsStart DEF CallInv
<1>2. ASSUME NEW d \in DOMAIN rules, Throttled(d), NEW start \in Times PROVE SpanInv(d, start)
  <2>1. rules[d].max \in Nat /\ grants[d] \in Seq(Times)
    BY <1>1, <1>2, RuleIs DEF TypeOK
  <2>2. Cardinality(Heads(grants[d], rules[d].max, start)) \in Nat
    BY <2>1, HeadsAreFew
  <2>3. \A len : LiveIn(d, len, start) = {}
    BY DEF Init, LiveIn, Live
  <2>4. \A len : Cardinality(LiveIn(d, len, start)) = 0
    BY <2>3, FS_EmptySet
  <2>. QED
    BY <2>1, <2>2, <2>4 DEF SpanInv
<1>. QED
  BY <1>2 DEF CapInv

\* New rules have granted nothing.
LEMMA CapOfNewRules ==
    ASSUME CallInv, CallInv', NEW r \in RuleSets, SetRules(r)
    PROVE  CapInv'
<1>1. /\ rules' = r /\ swaps' = swaps + 1
      /\ UNCHANGED <<now, grants, pc, clock, slot, alarm, returned>>
  BY DEF SetRules
<1>2. ASSUME NEW d \in DOMAIN r, r[d].max > 0, NEW start \in Times, d # NoDomain, r[d].window > 0
      PROVE  SpanInv(d, start)'
  <2>1. r[d].max \in Nat /\ d \in Domains
    <3>1. d \in Domains /\ r[d] \in Rule
      BY RateLimitAssumption
    <3>. QED
      BY <1>2, <3>1 DEF Rule
  <2>2. grants'[d] \in Seq(Times)
    BY <2>1 DEF CallInv, TypeOK
  <2>3. Cardinality(Heads(grants'[d], r[d].max, start)) \in Nat
    BY <2>1, <2>2, HeadsAreFew
  <2>4. \A len : LiveIn(d, len, start)' = {}
    <3>1. \A m \in Navigations : slot[m] # NoSlot => slot[m].under <= swaps /\ slot[m].under \in Nat /\ swaps \in Nat
      BY RateLimitAssumption DEF CallInv, Sound, TypeOK
    <3>2. \A m \in Navigations : Live(m) => slot[m].under # swaps'
      BY <1>1, <3>1 DEF Live
    <3>. QED
      BY <1>1, <3>2 DEF LiveIn, Live
  <2>5. \A len : Cardinality(LiveIn(d, len, start)') = 0
    BY <2>4, FS_EmptySet
  <2>. QED
    BY <1>1, <2>1, <2>3, <2>5 DEF SpanInv, Heads
<1>. QED
  BY <1>1, <1>2 DEF CapInv, Throttled

LEMMA CapStep ==
    ASSUME CallInv, CapInv, [Next]_vars
    PROVE  CapInv'
<1>1. CallInv' /\ TypeOK /\ TypeOK' /\ \A m \in Navigations : Sound(m)
  BY CallsStep DEF CallInv
<1>2. now \in Nat /\ now' \in Nat
  BY <1>1 DEF TypeOK
<1>3. CASE UNCHANGED vars
  BY <1>1, <1>2, <1>3, CapKept DEF vars, Live
<1>4. ASSUME NEW n \in Navigations, ReadClock(n) \/ PassUnthrottled(n) \/ TimerFires(n) \/ Commit(n) PROVE CapInv'
  <2>1. UNCHANGED <<now, rules, grants, slot, swaps, returned>>
    BY <1>4 DEF ReadClock, PassUnthrottled, TimerFires, Commit
  <2>2. ASSUME NEW m \in Navigations PROVE Live(m)' <=> Live(m)
    <3>1. CASE ReadClock(n)
      BY <1>1, <2>1, <3>1 DEF ReadClock, Live, TypeOK
    <3>2. CASE PassUnthrottled(n)
      BY <1>1, <2>1, <3>2 DEF PassUnthrottled, Live, TypeOK, Sound
    <3>3. CASE TimerFires(n)
      BY <1>1, <2>1, <3>3 DEF TimerFires, Live, TypeOK
    <3>4. CASE Commit(n)
      BY <1>1, <2>1, <3>4 DEF Commit, Live, TypeOK
    <3>. QED
      BY <1>4, <3>1, <3>2, <3>3, <3>4
  <2>3. ASSUME NEW m \in Navigations, pc'[m] = "locking"
        PROVE  (pc[m] = "locking" /\ clock'[m] = clock[m]) \/ clock'[m] = now'
    <3>1. CASE ReadClock(n)
      BY <1>1, <2>1, <2>3, <3>1 DEF ReadClock, TypeOK
    <3>2. CASE PassUnthrottled(n)
      BY <1>1, <2>3, <3>2 DEF PassUnthrottled, TypeOK
    <3>3. CASE TimerFires(n)
      BY <1>1, <2>3, <3>3 DEF TimerFires, TypeOK
    <3>4. CASE Commit(n)
      BY <1>1, <2>3, <3>4 DEF Commit, TypeOK
    <3>. QED
      BY <1>4, <3>1, <3>2, <3>3, <3>4
  <2>. QED
    BY <1>1, <1>2, <2>1, <2>2, <2>3, CapKept
<1>5. ASSUME NEW n \in Navigations, Grant(n) PROVE CapInv'
  BY <1>1, <1>5, CapOfGranted
<1>6. ASSUME NEW n \in Navigations, Refuse(n) PROVE CapInv'
  BY <1>1, <1>6, CapOfRefused
<1>7. ASSUME NEW n \in Navigations, Cancel(n) PROVE CapInv'
  BY <1>7 DEF Cancel, CapInv
<1>8. ASSUME NEW n \in Navigations, Rollback(n) PROVE CapInv'
  <2>1. CASE slot[n] = NoSlot
    <3>1. /\ UNCHANGED <<now, rules, grants, clock, slot, swaps, returned>>
          /\ pc' = [pc EXCEPT ![n] = "rolledback"]
      BY <1>8, <2>1 DEF Rollback
    <3>2. \A m \in Navigations : Live(m)' <=> Live(m)
      BY <1>1, <2>1, <3>1 DEF Live, TypeOK
    <3>3. \A m \in Navigations : pc'[m] = "locking" => pc[m] = "locking" /\ clock'[m] = clock[m]
      BY <1>1, <3>1 DEF TypeOK
    <3>. QED
      BY <1>1, <1>2, <3>1, <3>2, <3>3, CapKept
  <2>2. CASE slot[n] # NoSlot
    BY <1>8, <2>2 DEF Rollback, CapInv
  <2>. QED
    BY <2>1, <2>2
<1>9. ASSUME NEW r \in RuleSets, SetRules(r) PROVE CapInv'
  BY <1>1, <1>9, CapOfNewRules
<1>10. CASE Tick
  BY <1>1, <1>2, <1>10, CapKept DEF Tick, Live
<1>. QED
  BY <1>3, <1>4, <1>5, <1>6, <1>7, <1>8, <1>9, <1>10 DEF Next

\* While no slot is given back, a rule of Max per Window caps its domain in every sliding
\* window, less the time a caller of Reserve may have waited for the lock: whatever is
\* granted, pruned, refused and loaded, and however the calls interleave.
THEOREM RulesCap == Spec => []CapWithoutReturns
<1>1. Init => CapInv
  BY CapStarts
<1>2. CallInv /\ CapInv /\ [Next]_vars => CapInv'
  BY CapStep
<1>3. CapInv => CapWithoutReturns
  BY DEF CapInv, SpanInv, CapWithoutReturns, AtMostMaxWithin
<1>. QED
  BY <1>1, <1>2, <1>3, CallsHold, PTL DEF Spec

=============================================================================
