--------------------------- MODULE CachePlanProofs ---------------------------
(***************************************************************************)
(* What the two loops of planCache do to any units under any policy.  A    *)
(* FoldLeft over a sequence is shown to be a function of the positions     *)
(* (FoldSteps), and facts about every position follow by induction in the  *)
(* form of the least counterexample.                                       *)
(***************************************************************************)
EXTENDS CachePlan, FiniteSetTheorems, SequenceTheorems, WellFoundedInduction, TLAPS

\* Every nonempty set of numbers has a least one.
LEMMA LeastNatural ==
  ASSUME NEW T \in SUBSET Nat, T # {}
  PROVE  \E x \in T : \A y \in T : x <= y
<1> DEFINE R == {ss \in Nat \X Nat : ss[1] < ss[2]}
<1>1. IsWellFoundedOn(R, Nat)
  BY NatLessThanWellFounded DEF OpToRel
<1> HIDE DEF R
<1>2. PICK x \in T : \A y \in T : ~(<<y, x>> \in R)
  BY <1>1, WFMin
<1>3. \A y, z \in Nat : y < z => <<y, z>> \in R
  BY DEF R
<1>4. \A y \in T : ~(y < x)
  BY <1>2, <1>3
<1> QED BY <1>4

\* Induction over an initial segment, for a set of numbers.
LEMMA Induction ==
  ASSUME NEW n \in Nat, NEW T, 0 \in T, \A k \in 0..(n - 1) : k \in T => k + 1 \in T
  PROVE  \A k \in 0..n : k \in T
<1> DEFINE B == {k \in 0..n : k \notin T}
<1>1. SUFFICES ASSUME B # {} PROVE FALSE
  OBVIOUS
<1>2. PICK m \in B : \A k \in B : m <= k
  BY <1>1, LeastNatural, B \in SUBSET Nat
<1>3. m \in 1..n
  BY <1>2
<1>4. m - 1 \in 0..(n - 1) /\ m - 1 \notin B
  BY <1>2, <1>3
<1> QED BY <1>3, <1>4, <1>2

LEMMA MaxOf ==
  ASSUME NEW n \in Nat, NEW s \in SUBSET (1..n), s # {}
  PROVE  Max(s) \in s /\ \A y \in s : y <= Max(s)
<1>0. \A x \in s : x \in Nat /\ x <= n
  OBVIOUS
<1> DEFINE T == {n - x : x \in s}
<1>1. T \in SUBSET Nat /\ T # {}
  <2>1. \A x \in s : n - x \in Nat
    BY <1>0
  <2> QED BY <2>1
<1>a. \A x \in s : n - x \in T
  OBVIOUS
<1>b. \A t \in T : \E x \in s : t = n - x
  OBVIOUS
<1> HIDE DEF T
<1>2. PICK t \in T : \A u \in T : t <= u
  BY <1>1, LeastNatural
<1>3. PICK x \in s : t = n - x
  BY <1>b
<1>5. \A y \in s : x >= y
  BY <1>2, <1>3, <1>a
<1>6. \E x1 \in s : \A y \in s : x1 >= y
  BY <1>5
<1>7. Max(s) \in s /\ \A y \in s : Max(s) >= y
  BY <1>6 DEF Max
<1>8. PICK m : m = Max(s)
  OBVIOUS
<1>9. m \in s /\ \A y \in s : m >= y
  BY <1>7, <1>8
<1>10. \A y \in s : y <= m
  BY ONLY <1>9, <1>0
<1> QED BY <1>8, <1>9, <1>10

\* The two loops, for lemmas about both.
Turn(loop, s, u, q) ==
  IF loop = "retention" THEN RetentionStep(s, u, q) ELSE PressureStep(s, u, q)

\* What FoldLeft unfolds to on a set of sets of indices.
Unfolds(f, D, c) ==
  f = [s \in D |-> IF s = {} THEN c.base ELSE Turn(c.loop, f[s \ {Max(s)}], c.o[Max(s)], c.q)]

LEMMA FoldExists ==
  ASSUME NEW n \in Nat, NEW c
  PROVE  \E f : Unfolds(f, SUBSET (1..n), c)
<1> DEFINE D(k) == {s \in SUBSET (1..n) : Cardinality(s) <= k}
           T == {k \in Nat : \E f : Unfolds(f, D(k), c)}
<1>0. IsFiniteSet(1..n) /\ Cardinality(1..n) = n
  BY FS_Interval
<1>1. \A s \in SUBSET (1..n) : IsFiniteSet(s) /\ Cardinality(s) \in Nat /\ Cardinality(s) <= n
  BY <1>0, FS_Subset, FS_CardinalityType
<1>2. \A s \in SUBSET (1..n) : s # {} =>
        /\ Max(s) \in s /\ s \ {Max(s)} \in SUBSET (1..n)
        /\ Cardinality(s \ {Max(s)}) = Cardinality(s) - 1
  BY <1>1, MaxOf, FS_RemoveElement
<1>3. Cardinality({}) = 0 /\ \A s \in SUBSET (1..n) : Cardinality(s) = 0 => s = {}
  BY <1>1, FS_EmptySet
<1>4. 0 \in T
  <2> DEFINE f == [s \in D(0) |-> c.base]
  <2>1. \A s \in D(0) : s = {}
    BY <1>1, <1>3
  <2>2. Unfolds(f, D(0), c)
    BY <2>1 DEF Unfolds
  <2> QED BY <2>2
<1>5. ASSUME NEW k \in 0..(n - 1), k \in T PROVE k + 1 \in T
  <2>1. PICK f : Unfolds(f, D(k), c)
    BY <1>5
  <2> DEFINE g == [s \in D(k + 1) |->
                     IF s = {} THEN c.base ELSE Turn(c.loop, f[s \ {Max(s)}], c.o[Max(s)], c.q)]
  <2>2. D(k) \subseteq D(k + 1)
    BY <1>1
  <2>3. \A s \in D(k + 1) : s # {} => s \ {Max(s)} \in D(k)
    BY <1>1, <1>2
  <2>4. \A s \in D(k) : g[s] = f[s]
    <3> HIDE DEF D
    <3> QED BY <2>1, <2>2 DEF Unfolds
  <2>5. Unfolds(g, D(k + 1), c)
    <3> HIDE DEF D
    <3> QED BY <2>3, <2>4 DEF Unfolds
  <2> HIDE DEF g, D
  <2>6. \E f1 : Unfolds(f1, D(k + 1), c)
    BY <2>5
  <2> QED BY <2>6
<1>6. n \in T
  <2> HIDE DEF T
  <2> QED BY <1>4, <1>5, Induction
<1>7. D(n) = SUBSET (1..n)
  BY <1>1
<1> QED BY <1>6, <1>7

\* What it goes through: one step for every index.
LEMMA FoldSteps ==
  ASSUME NEW n \in Nat, NEW c, NEW f,
         Unfolds(f, SUBSET (1..n), c)
  PROVE  /\ f[1..0] = c.base
         /\ \A i \in 1..n : f[1..i] = Turn(c.loop, f[1..(i - 1)], c.o[i], c.q)
<1>1. f[1..0] = c.base
  <2>1. 1..0 = {}
    OBVIOUS
  <2> QED BY <2>1 DEF Unfolds
<1>2. ASSUME NEW i \in 1..n PROVE f[1..i] = Turn(c.loop, f[1..(i - 1)], c.o[i], c.q)
  <2>1. 1..i \in SUBSET (1..n) /\ 1..i # {} /\ i \in 1..i
    OBVIOUS
  <2>2. Max(1..i) = i
    <3>1. Max(1..i) \in 1..i /\ \A y \in 1..i : y <= Max(1..i)
      BY <2>1, MaxOf
    <3> QED BY <3>1, <2>1
  <2>3. (1..i) \ {i} = 1..(i - 1)
    OBVIOUS
  <2> QED BY <2>1, <2>2, <2>3 DEF Unfolds
<1> QED BY <1>1, <1>2

LoopResult(c) ==
  IF c.loop = "retention" THEN FoldLeft(LAMBDA s, u : RetentionStep(s, u, c.q), c.base, c.o)
                        ELSE FoldLeft(LAMBDA s, u : PressureStep(s, u, c.q), c.base, c.o)

LEMMA LoopFolds ==
  ASSUME NEW n \in Nat, NEW c, DOMAIN c.o = 1..n
  PROVE  \E f : /\ Unfolds(f, SUBSET (1..n), c)
                /\ LoopResult(c) = f[1..n]
<1>1. \E f : Unfolds(f, SUBSET (1..n), c)
  BY FoldExists
<1>2. CASE c.loop = "retention"
  <2> DEFINE P(f) == f = [s \in SUBSET (1..n) |->
                            IF s = {} THEN c.base
                            ELSE RetentionStep(f[s \ {Max(s)}], c.o[Max(s)], c.q)]
  <2>1. \A f : P(f) <=> Unfolds(f, SUBSET (1..n), c)
    BY <1>2 DEF Unfolds, Turn
  <2>2. LoopResult(c) = (CHOOSE f : P(f))[1..n]
    BY <1>2 DEF LoopResult, FoldLeft, MapThenFoldSet
  <2> HIDE DEF P
  <2>3. P(CHOOSE f : P(f))
    BY <1>1, <2>1
  <2> QED BY <2>1, <2>2, <2>3
<1>3. CASE c.loop # "retention"
  <2> DEFINE P(f) == f = [s \in SUBSET (1..n) |->
                            IF s = {} THEN c.base
                            ELSE PressureStep(f[s \ {Max(s)}], c.o[Max(s)], c.q)]
  <2>1. \A f : P(f) <=> Unfolds(f, SUBSET (1..n), c)
    BY <1>3 DEF Unfolds, Turn
  <2>2. LoopResult(c) = (CHOOSE f : P(f))[1..n]
    BY <1>3 DEF LoopResult, FoldLeft, MapThenFoldSet
  <2> HIDE DEF P
  <2>3. P(CHOOSE f : P(f))
    BY <1>1, <2>1
  <2> QED BY <2>1, <2>2, <2>3
<1> QED BY <1>2, <1>3

LEMMA LoopSteps ==
  ASSUME NEW n \in Nat, NEW c, DOMAIN c.o = 1..n
  PROVE  \E r : /\ r[0] = c.base
                /\ \A i \in 1..n : r[i] = Turn(c.loop, r[i - 1], c.o[i], c.q)
                /\ LoopResult(c) = r[n]
<1>1. PICK f : /\ Unfolds(f, SUBSET (1..n), c)
               /\ LoopResult(c) = f[1..n]
  BY LoopFolds
<1>2. /\ f[1..0] = c.base
      /\ \A i \in 1..n : f[1..i] = Turn(c.loop, f[1..(i - 1)], c.o[i], c.q)
  BY <1>1, FoldSteps
<1> DEFINE r == [i \in 0..n |-> f[1..i]]
<1>3. r[0] = c.base /\ r[n] = f[1..n]
  BY <1>2
<1>4. ASSUME NEW i \in 1..n PROVE r[i] = Turn(c.loop, r[i - 1], c.o[i], c.q)
  <2>1. r[i] = f[1..i] /\ r[i - 1] = f[1..(i - 1)]
    OBVIOUS
  <2> QED BY <2>1, <1>2
<1> HIDE DEF r
<1> QED BY <1>1, <1>3, <1>4

Start(q) == [plan |-> <<>>, used |-> q.used, free |-> q.free, stop |-> FALSE]

Loop(loop, o, q, base) == [loop |-> loop, o |-> o, q |-> q, base |-> base]

LEMMA PlanIsLoops ==
  ASSUME NEW o, NEW q
  PROVE  PlanCache(o, q) = 
            LoopResult(Loop("pressure", o, q, LoopResult(Loop("retention", o, q, Start(q))))).plan
BY DEF PlanCache, LoopResult, Loop, Start

Fields == {"plan", "used", "free", "stop"}
Decisions(V) == [unit : V, reason : {"retention", "budget", "reserve"}]
Unprotected(U, q) == {u \in U : ~Protected(u, q)}

LEMMA TurnDecides ==
  ASSUME NEW loop, NEW s, NEW U, NEW u \in U, NEW q,
         DOMAIN s = Fields, s.plan \in Seq(Decisions(Unprotected(U, q)))
  PROVE  /\ DOMAIN Turn(loop, s, u, q) = Fields
         /\ Turn(loop, s, u, q).plan \in Seq(Decisions(Unprotected(U, q)))
<1> DEFINE V == Unprotected(U, q)
<1>1. ASSUME NEW reason \in {"retention", "budget", "reserve"}, ~Protected(u, q)
      PROVE  /\ DOMAIN Take(s, u, reason) = Fields
             /\ Take(s, u, reason).plan \in Seq(Decisions(V))
  <2>1. [unit |-> u, reason |-> reason] \in Decisions(V)
    BY <1>1 DEF Decisions, Unprotected
  <2>2. Take(s, u, reason).plan = Append(s.plan, [unit |-> u, reason |-> reason])
    BY DEF Take
  <2>3. DOMAIN Take(s, u, reason) = Fields
    BY DEF Take, Fields
  <2> HIDE DEF V
  <2>4. Append(s.plan, [unit |-> u, reason |-> reason]) \in Seq(Decisions(V))
    BY <2>1, AppendProperties DEF V
  <2> QED BY <2>2, <2>3, <2>4
<1>2. CASE Turn(loop, s, u, q) = s
  BY <1>2
<1>3. CASE loop = "retention" /\ Expired(u, q)
  BY <1>1, <1>3 DEF Turn, RetentionStep, Expired
<1>4. CASE loop # "retention" /\ ~Protected(u, q) /\ Turn(loop, s, u, q) # s
  <2> DEFINE t == [s EXCEPT !.stop = TRUE]
  <2>1. DOMAIN t = Fields /\ t.plan = s.plan
    BY DEF Fields
  <2>2. \/ Turn(loop, s, u, q) = t
        \/ \E reason \in {"budget", "reserve"} : Turn(loop, s, u, q) = Take(s, u, reason)
    BY <1>4 DEF Turn, PressureStep
  <2> HIDE DEF t
  <2> QED BY <2>1, <2>2, <1>1, <1>4
<1> QED BY <1>2, <1>3, <1>4 DEF Turn, RetentionStep, PressureStep

LEMMA LoopDecides ==
  ASSUME NEW n \in Nat, NEW U, NEW c, c.o \in [1..n -> U],
         DOMAIN c.base = Fields, c.base.plan \in Seq(Decisions(Unprotected(U, c.q)))
  PROVE  /\ DOMAIN LoopResult(c) = Fields
         /\ LoopResult(c).plan \in Seq(Decisions(Unprotected(U, c.q)))
<1> DEFINE S == Seq(Decisions(Unprotected(U, c.q)))
<1>1. PICK r : /\ r[0] = c.base
               /\ \A i \in 1..n : r[i] = Turn(c.loop, r[i - 1], c.o[i], c.q)
               /\ LoopResult(c) = r[n]
  BY LoopSteps
<1> DEFINE T == {k \in Nat : DOMAIN r[k] = Fields /\ r[k].plan \in S}
<1>2. 0 \in T
  BY <1>1
<1>3. ASSUME NEW k \in 0..(n - 1), k \in T PROVE k + 1 \in T
  <2>1. r[k + 1] = Turn(c.loop, r[k], c.o[k + 1], c.q) /\ c.o[k + 1] \in U
    BY <1>1
  <2>2. DOMAIN r[k] = Fields /\ r[k].plan \in S
    BY <1>3
  <2>3. DOMAIN r[k + 1] = Fields /\ r[k + 1].plan \in S
    BY <2>1, <2>2, TurnDecides
  <2> QED BY <2>3
<1>4. n \in T
  <2> HIDE DEF T
  <2> QED BY <1>2, <1>3, Induction
<1> QED BY <1>1, <1>4

\* planCache decides about units it was given, and about none it must protect.
LEMMA PlanSparesProtected ==
  ASSUME NEW n \in Nat, NEW U, NEW o \in [1..n -> U], NEW q
  PROVE  PlanCache(o, q) \in Seq(Decisions(Unprotected(U, q)))
<1>1. DOMAIN Start(q) = Fields /\ Start(q).plan \in Seq(Decisions(Unprotected(U, q)))
  BY DEF Start, Fields
<1>2. PICK c : c.o = o /\ c.q = q /\ c.base = Start(q) /\ c = Loop("retention", o, q, Start(q))
  BY DEF Loop
<1>3. PICK b : b = LoopResult(c)
  OBVIOUS
<1>4. DOMAIN b = Fields /\ b.plan \in Seq(Decisions(Unprotected(U, q)))
  BY <1>1, <1>2, <1>3, LoopDecides
<1>5. PICK d : d.o = o /\ d.q = q /\ d.base = b /\ d = Loop("pressure", o, q, b)
  BY DEF Loop
<1>6. LoopResult(d).plan \in Seq(Decisions(Unprotected(U, q)))
  BY <1>4, <1>5, LoopDecides
<1> QED BY <1>2, <1>3, <1>5, <1>6, PlanIsLoops

----------------------------------------------------------------------------
(* Sums over finite sets.  MapThenSumSet takes the elements out one by one, *)
(* as CHOOSE gives them; the sum does not depend on that.                  *)

First(s) == CHOOSE x \in s : TRUE

\* What MapThenSumSet unfolds to on a set of sets, w giving the summands.
SumUnfolds(g, D, w) ==
  g = [s \in D |-> IF s = {} THEN 0 ELSE w[First(s)] + g[s \ {First(s)}]]

Whole(w, S) == \A x \in S : w[x] \in Nat

\* g gives the sums of the subsets of S, whichever element is taken out.
Adds(g, S, w) ==
  /\ g[{}] = 0
  /\ \A s \in SUBSET S : g[s] \in Nat /\ \A x \in s : g[s] = w[x] + g[s \ {x}]

\* The facts about the sizes of the subsets of a finite set used below.
LEMMA Smaller ==
  ASSUME NEW S, IsFiniteSet(S)
  PROVE  /\ \A s \in SUBSET S : Cardinality(s) \in Nat /\ Cardinality(s) <= Cardinality(S)
         /\ \A s \in SUBSET S : Cardinality(s) = 0 <=> s = {}
         /\ \A s \in SUBSET S : s # {} => First(s) \in s
         /\ \A s \in SUBSET S : \A x \in s :
              s \ {x} \in SUBSET S /\ Cardinality(s \ {x}) = Cardinality(s) - 1
<1>1. \A s \in SUBSET S : IsFiniteSet(s) /\ Cardinality(s) \in Nat
                          /\ Cardinality(s) <= Cardinality(S)
  BY FS_Subset, FS_CardinalityType
<1>2. \A s \in SUBSET S : Cardinality(s) = 0 <=> s = {}
  BY <1>1, FS_EmptySet
<1>3. \A s \in SUBSET S : s # {} => First(s) \in s
  BY DEF First
<1>4. \A s \in SUBSET S : \A x \in s :
        s \ {x} \in SUBSET S /\ Cardinality(s \ {x}) = Cardinality(s) - 1
  BY <1>1, FS_RemoveElement
<1> QED BY <1>1, <1>2, <1>3, <1>4

LEMMA SumExists ==
  ASSUME NEW S, IsFiniteSet(S), NEW w
  PROVE  \E g : SumUnfolds(g, SUBSET S, w)
<1> DEFINE D(k) == {s \in SUBSET S : Cardinality(s) <= k}
           T == {k \in Nat : \E g : SumUnfolds(g, D(k), w)}
           n == Cardinality(S)
<1>1. n \in Nat /\ D(n) = SUBSET S
  BY Smaller, FS_CardinalityType
<1>2. 0 \in T
  <2> DEFINE g == [s \in D(0) |-> 0]
  <2>1. \A s \in D(0) : s = {}
    BY Smaller
  <2>2. SumUnfolds(g, D(0), w)
    BY <2>1 DEF SumUnfolds
  <2> QED BY <2>2
<1>3. ASSUME NEW k \in 0..(n - 1), k \in T PROVE k + 1 \in T
  <2>1. PICK g : SumUnfolds(g, D(k), w)
    BY <1>3
  <2> DEFINE h == [s \in D(k + 1) |->
                     IF s = {} THEN 0 ELSE w[First(s)] + g[s \ {First(s)}]]
  <2>2. D(k) \subseteq D(k + 1)
    BY Smaller
  <2>3. \A s \in D(k + 1) : s # {} => s \ {First(s)} \in D(k)
    BY Smaller
  <2>4. \A s \in D(k) : h[s] = g[s]
    <3> HIDE DEF D
    <3> QED BY <2>1, <2>2 DEF SumUnfolds
  <2>5. SumUnfolds(h, D(k + 1), w)
    <3> HIDE DEF D
    <3> QED BY <2>3, <2>4 DEF SumUnfolds
  <2> HIDE DEF h, D
  <2>6. \E f : SumUnfolds(f, D(k + 1), w)
    BY <2>5
  <2> QED BY <2>6
<1>4. n \in T
  <2> HIDE DEF T, n
  <2> QED BY <1>1, <1>2, <1>3, Induction
<1> HIDE DEF D
<1> QED BY <1>1, <1>4

\* The sum, whichever element is taken out first.
LEMMA SumSteps ==
  ASSUME NEW S, NEW w, NEW g, IsFiniteSet(S), Whole(w, S), SumUnfolds(g, SUBSET S, w)
  PROVE  Adds(g, S, w)
<1> DEFINE P(s) == g[s] \in Nat /\ \A x \in s : g[s] = w[x] + g[s \ {x}]
           T == {k \in Nat : \A s \in SUBSET S : Cardinality(s) <= k => P(s)}
           n == Cardinality(S)
<1>0. n \in Nat
  BY FS_CardinalityType
<1>1. g[{}] = 0
  BY DEF SumUnfolds
<1>2. 0 \in T
  <2>1. \A s \in SUBSET S : Cardinality(s) <= 0 => s = {}
    BY Smaller
  <2>2. P({})
    BY <1>1
  <2> HIDE DEF P
  <2> QED BY <2>1, <2>2
<1>3. ASSUME NEW k \in 0..(n - 1), k \in T PROVE k + 1 \in T
  <2>1. ASSUME NEW s \in SUBSET S, Cardinality(s) <= k + 1 PROVE P(s)
    <3>1. CASE s = {}
      BY <1>1, <3>1
    <3>2. CASE s # {}
      <4>1. PICK a : a = First(s)
        OBVIOUS
      <4>2. a \in s /\ a \in S
        BY <3>2, <4>1, Smaller
      <4>3. g[s] = w[a] + g[s \ {a}]
        BY <3>2, <4>1 DEF SumUnfolds
      <4>4. \A x \in s : s \ {x} \in SUBSET S /\ P(s \ {x})
        <5>1. \A x \in s : s \ {x} \in SUBSET S /\ Cardinality(s \ {x}) <= k
          BY <2>1, Smaller
        <5> QED BY <1>3, <5>1
      <4>5. g[s] \in Nat
        <5>1. g[s \ {a}] \in Nat /\ w[a] \in Nat
          BY <4>2, <4>4 DEF Whole
        <5> QED BY <4>3, <5>1
      <4>6. ASSUME NEW x \in s, x # a PROVE g[s] = w[x] + g[s \ {x}]
        <5>1. g[s \ {a}] = w[x] + g[(s \ {a}) \ {x}]
          BY <4>2, <4>4, <4>6
        <5>2. g[s \ {x}] = w[a] + g[(s \ {x}) \ {a}]
          BY <4>2, <4>4, <4>6
        <5>3. (s \ {a}) \ {x} = (s \ {x}) \ {a} /\ (s \ {a}) \ {x} \in SUBSET S
          OBVIOUS
        <5>4. g[(s \ {a}) \ {x}] \in Nat
          <6>1. Cardinality((s \ {a}) \ {x}) <= k
            <7>1. s \ {a} \in SUBSET S /\ x \in s \ {a}
              BY <4>6
            <7>2. Cardinality(s \ {a}) = Cardinality(s) - 1 /\ Cardinality(s) \in Nat
              BY <4>2, Smaller
            <7>3. Cardinality((s \ {a}) \ {x}) = Cardinality(s \ {a}) - 1
              BY <7>1, Smaller
            <7> QED BY <2>1, <7>2, <7>3
          <6> QED BY <1>3, <5>3, <6>1
        <5>5. w[x] \in Nat /\ w[a] \in Nat
          BY <4>2 DEF Whole
        <5>6. PICK y : y = g[(s \ {a}) \ {x}] /\ y \in Nat
          BY <5>4
        <5>7. g[s \ {a}] = w[x] + y /\ g[s \ {x}] = w[a] + y
          BY <5>1, <5>2, <5>3, <5>6
        <5>8. g[s] = w[a] + (w[x] + y)
          BY <4>3, <5>7
        <5> QED BY ONLY <5>5, <5>6, <5>7, <5>8
      <4> QED BY <4>3, <4>5, <4>6
    <3> QED BY <3>1, <3>2
  <2> HIDE DEF P
  <2> QED BY <2>1
<1> HIDE DEF P
<1>4. n \in T
  <2> HIDE DEF T, n
  <2> QED BY ONLY <1>0, <1>2, <1>3, Induction
<1>5. \A s \in SUBSET S : P(s)
  BY <1>4, Smaller
<1> QED BY <1>1, <1>5 DEF P, Adds

\* The same on two sets, for the subsets of both.
LEMMA SumsAgree ==
  ASSUME NEW S, NEW R, NEW w, NEW g, NEW h, IsFiniteSet(S), R \subseteq S,
         SumUnfolds(g, SUBSET S, w), SumUnfolds(h, SUBSET R, w)
  PROVE  g[R] = h[R]
<1> DEFINE T == {k \in Nat : \A s \in SUBSET R : Cardinality(s) <= k => g[s] = h[s]}
           n == Cardinality(R)
<1>0. IsFiniteSet(R) /\ n \in Nat
  BY FS_Subset, FS_CardinalityType
<1>1. 0 \in T
  <2>1. \A s \in SUBSET R : Cardinality(s) <= 0 => s = {}
    BY <1>0, Smaller
  <2>2. g[{}] = 0 /\ h[{}] = 0
    BY DEF SumUnfolds
  <2> QED BY <2>1, <2>2
<1>2. ASSUME NEW k \in 0..(n - 1), k \in T PROVE k + 1 \in T
  <2>1. ASSUME NEW s \in SUBSET R, Cardinality(s) <= k + 1 PROVE g[s] = h[s]
    <3>1. CASE s = {}
      BY <3>1 DEF SumUnfolds
    <3>2. CASE s # {}
      <4>1. s \ {First(s)} \in SUBSET R /\ Cardinality(s \ {First(s)}) <= k
        BY <1>0, <2>1, <3>2, Smaller
      <4>2. g[s \ {First(s)}] = h[s \ {First(s)}]
        BY <1>2, <4>1
      <4> QED BY <3>2, <4>2 DEF SumUnfolds
    <3> QED BY <3>1, <3>2
  <2> QED BY <2>1
<1>3. n \in T
  <2> HIDE DEF T, n
  <2> QED BY <1>0, <1>1, <1>2, Induction
<1> QED BY <1>0, <1>3

\* TotalBytes, over the subsets of a set of units.
LEMMA TotalBytesSums ==
  ASSUME NEW U, IsFiniteSet(U), \A u \in U : u.bytes \in Nat
  PROVE  /\ TotalBytes({}) = 0
         /\ \A s \in SUBSET U : TotalBytes(s) \in Nat
         /\ \A s \in SUBSET U : \A u \in U \ s :
              TotalBytes(s \cup {u}) = TotalBytes(s) + u.bytes
<1>0. PICK w : w = [u \in U |-> u.bytes]
  OBVIOUS
<1>1. PICK g : SumUnfolds(g, SUBSET U, w)
  BY SumExists
<1>2. \A u \in U : w[u] = u.bytes /\ w[u] \in Nat
  BY <1>0
<1>3. ASSUME NEW s \in SUBSET U PROVE TotalBytes(s) = g[s]
  <2> DEFINE P(h) == h = [t \in SUBSET s |-> IF t = {} THEN 0
                            ELSE First(t).bytes + h[t \ {First(t)}]]
  <2>1. \A t \in SUBSET s : t # {} => w[First(t)] = First(t).bytes
    BY <1>2, Smaller
  <2>2. \A h : P(h) <=> SumUnfolds(h, SUBSET s, w)
    BY <2>1 DEF SumUnfolds
  <2>3. TotalBytes(s) = (CHOOSE h : P(h))[s]
    BY DEF TotalBytes, MapThenSumSet, MapThenFoldSet, First
  <2>4. \E h : SumUnfolds(h, SUBSET s, w)
    BY SumExists, FS_Subset
  <2> HIDE DEF P
  <2>5. P(CHOOSE h : P(h))
    BY <2>2, <2>4
  <2>6. SumUnfolds(CHOOSE h : P(h), SUBSET s, w)
    BY <2>2, <2>5
  <2>7. PICK h : h = (CHOOSE f : P(f))
    OBVIOUS
  <2>8. SumUnfolds(h, SUBSET s, w) /\ TotalBytes(s) = h[s]
    BY <2>3, <2>6, <2>7
  <2>9. g[s] = h[s]
    BY <1>1, <2>8, SumsAgree
  <2> QED BY <2>8, <2>9
<1>4. /\ g[{}] = 0
      /\ \A s \in SUBSET U : g[s] \in Nat /\ \A x \in s : g[s] = w[x] + g[s \ {x}]
  <2>1. Whole(w, U)
    BY <1>2 DEF Whole
  <2>2. Adds(g, U, w)
    BY <1>1, <2>1, SumSteps
  <2> QED BY <2>2 DEF Adds
<1>5. ASSUME NEW s \in SUBSET U, NEW u \in U \ s
      PROVE  TotalBytes(s \cup {u}) = TotalBytes(s) + u.bytes
  <2>1. s \cup {u} \in SUBSET U /\ u \in s \cup {u} /\ (s \cup {u}) \ {u} = s
    OBVIOUS
  <2>2. g[s \cup {u}] = w[u] + g[s] /\ g[s] \in Nat
    BY <1>4, <2>1
  <2> QED BY <1>2, <1>3, <2>1, <2>2
<1> QED BY <1>3, <1>4, <1>5

----------------------------------------------------------------------------
(* What the loops add to the decisions and to the running sums.             *)

Sized(U) == \A u \in U : u.bytes \in Nat
Policy(q) == q.used \in Int /\ q.free \in Int

\* The units the decisions of S name.
Given(p, S) == {p[k].unit : k \in S}
All(p) == Given(p, DOMAIN p)
Forced(p) == {k \in DOMAIN p : p[k].reason # "retention"}
Retained(p) == DOMAIN p \ Forced(p)
Before(p, k) == Given(p, {j \in DOMAIN p : j < k} \cup Retained(p))

\* No unit is taken twice.
Once(p) == \A j, k \in DOMAIN p : p[j].unit = p[k].unit => j = k

\* The sums are those of the decisions taken.
Sound(s, U, q) ==
  /\ DOMAIN s = Fields /\ s.stop \in BOOLEAN
  /\ s.plan \in Seq(Decisions(U)) /\ Once(s.plan)
  /\ s.used = q.used - TotalBytes(All(s.plan))
  /\ s.free = Gain(q.free, TotalBytes(All(s.plan)))

LEMMA AppendGiven ==
  ASSUME NEW V, NEW p \in Seq(Decisions(V)), NEW d \in Decisions(V)
  PROVE  /\ Append(p, d) \in Seq(Decisions(V))
         /\ All(Append(p, d)) = All(p) \cup {d.unit}
         /\ Once(p) /\ d.unit \notin All(p) => Once(Append(p, d))
         /\ d.reason = "retention" /\ Forced(p) = {} => Forced(Append(p, d)) = {}
         /\ d.reason # "retention" =>
              /\ Given(Append(p, d), Forced(Append(p, d))) = Given(p, Forced(p)) \cup {d.unit}
              /\ Given(Append(p, d), Retained(Append(p, d))) = Given(p, Retained(p))
              /\ Forced(Append(p, d)) = Forced(p) \cup {Len(p) + 1}
              /\ \A k \in Forced(p) : Before(Append(p, d), k) = Before(p, k)
              /\ Before(Append(p, d), Len(p) + 1) = All(p)
<1>1. PICK r \in Seq(Decisions(V)), n \in Nat :
        /\ r = Append(p, d) /\ n = Len(p)
        /\ DOMAIN p = 1..n /\ DOMAIN r = 1..(n + 1)
        /\ \A k \in 1..n : r[k] = p[k]
        /\ r[n + 1] = d
  <2>1. Append(p, d) \in Seq(Decisions(V)) /\ Len(p) \in Nat
    BY AppendProperties
  <2>2. DOMAIN p = 1..Len(p) /\ DOMAIN Append(p, d) = 1..(Len(p) + 1)
    BY AppendProperties
  <2>3. \A k \in 1..Len(p) : Append(p, d)[k] = p[k]
    BY AppendProperties
  <2>4. Append(p, d)[Len(p) + 1] = d
    BY AppendProperties
  <2> QED BY <2>1, <2>2, <2>3, <2>4
<1>2. \A k \in 1..(n + 1) : k \in 1..n \/ k = n + 1
  OBVIOUS
<1>3. All(r) = All(p) \cup {d.unit}
  BY <1>1, <1>2 DEF All, Given
<1>a. ASSUME Once(p), d.unit \notin All(p) PROVE Once(r)
  <2>1. \A k \in 1..n : p[k].unit # d.unit
    BY <1>1, <1>a DEF All, Given
  <2> QED BY <1>1, <1>2, <1>a, <2>1 DEF Once
<1>4. ASSUME d.reason = "retention", Forced(p) = {} PROVE Forced(r) = {}
  BY <1>1, <1>2, <1>4 DEF Forced
<1>5. ASSUME d.reason # "retention"
      PROVE  /\ Given(r, Forced(r)) = Given(p, Forced(p)) \cup {d.unit}
             /\ Given(r, Retained(r)) = Given(p, Retained(p))
             /\ Forced(r) = Forced(p) \cup {n + 1}
             /\ \A k \in Forced(p) : Before(r, k) = Before(p, k)
             /\ Before(r, n + 1) = All(p)
  <2>1. Forced(r) = Forced(p) \cup {n + 1}
    BY <1>1, <1>2, <1>5 DEF Forced
  <2>2. Forced(p) \subseteq 1..n
    BY <1>1 DEF Forced
  <2>3. Retained(r) = Retained(p) /\ Retained(p) \subseteq 1..n
    BY <1>1, <1>2, <2>1, <2>2 DEF Retained
  <2>4. \A S \in SUBSET (1..n) : Given(r, S) = Given(p, S)
    BY <1>1 DEF Given
  <2>5. Given(r, Forced(r)) = Given(p, Forced(p)) \cup {d.unit}
    BY <1>1, <2>1, <2>2 DEF Given
  <2>6. ASSUME NEW k \in 1..n PROVE Before(r, k) = Before(p, k)
    <3>1. {j \in DOMAIN r : j < k} = {j \in DOMAIN p : j < k}
      BY <1>1
    <3>2. {j \in DOMAIN p : j < k} \cup Retained(p) \in SUBSET (1..n)
      BY <1>1, <2>3
    <3> QED BY <2>3, <2>4, <3>1, <3>2 DEF Before
  <2>7. Before(r, n + 1) = All(p)
    <3>1. {j \in DOMAIN r : j < n + 1} \cup Retained(r) = DOMAIN p
      BY <1>1, <2>3
    <3>2. DOMAIN p \in SUBSET (1..n)
      BY <1>1
    <3> QED BY <2>4, <3>1, <3>2 DEF Before, All
  <2>8. Given(r, Retained(r)) = Given(p, Retained(p))
    BY <2>3, <2>4
  <2> QED BY <2>1, <2>2, <2>5, <2>6, <2>7, <2>8
<1> QED BY <1>1, <1>3, <1>a, <1>4, <1>5

LEMMA GivenUnits ==
  ASSUME NEW V, NEW p \in Seq(Decisions(V)), NEW S, S \subseteq DOMAIN p
  PROVE  Given(p, S) \in SUBSET V
<1>1. \A k \in DOMAIN p : p[k] \in Decisions(V)
  OBVIOUS
<1>2. \A d \in Decisions(V) : d.unit \in V
  BY DEF Decisions
<1> QED BY <1>1, <1>2 DEF Given

Reasons == {"retention", "budget", "reserve"}

\* t is s with one decision more.
OneTaken(t, s, d, U, q) ==
  Sound(t, U, q) /\ t.stop = FALSE /\ t.plan = Append(s.plan, d)

LEMMA TakeSums ==
  ASSUME NEW U, NEW q, NEW s, NEW u, NEW reason,
         IsFiniteSet(U), Sized(U), Policy(q), Sound(s, U, q),
         u \in U, u \notin All(s.plan), reason \in Reasons
  PROVE  OneTaken(Take(s, u, reason), s, [unit |-> u, reason |-> reason], U, q)
<1> DEFINE d == [unit |-> u, reason |-> reason]
           t == Take(s, u, reason)
<1>1. d \in Decisions(U) /\ d.unit = u
  BY DEF Decisions, Reasons
<1>2. /\ t.plan = Append(s.plan, d) /\ t.used = s.used - u.bytes
      /\ t.free = Gain(s.free, u.bytes) /\ t.stop = FALSE /\ DOMAIN t = Fields
  BY DEF Take, Fields
<1> HIDE DEF d, t
<1>3. t.plan \in Seq(Decisions(U)) /\ All(t.plan) = All(s.plan) \cup {u} /\ Once(t.plan)
  BY <1>1, <1>2, AppendGiven DEF Sound
<1>4. All(s.plan) \in SUBSET U
  BY GivenUnits DEF Sound, All
<1>5. PICK b \in Nat : b = TotalBytes(All(s.plan))
  BY <1>4, TotalBytesSums DEF Sized
<1>6. TotalBytes(All(t.plan)) = b + u.bytes /\ u.bytes \in Nat
  BY <1>3, <1>4, <1>5, TotalBytesSums DEF Sized
<1>7. t.used = q.used - (b + u.bytes)
  <2>1. t.used = (q.used - b) - u.bytes
    BY <1>2, <1>5 DEF Sound
  <2> QED BY <1>6, <2>1 DEF Policy
<1>8. t.free = Gain(q.free, b + u.bytes)
  <2>1. t.free = Gain(Gain(q.free, b), u.bytes)
    BY <1>2, <1>5 DEF Sound
  <2> QED BY <1>6, <2>1 DEF Policy, Gain
<1>9. Sound(t, U, q)
  BY <1>2, <1>3, <1>6, <1>7, <1>8 DEF Sound
<1>10. OneTaken(t, s, d, U, q)
  BY <1>2, <1>9 DEF OneTaken
<1> QED BY <1>10 DEF t, d

----------------------------------------------------------------------------
(* The two loops, turn by turn.                                            *)

Firsts(o, i) == {o[j] : j \in 1..i}

\* The units in an order of their last use, as sort.Slice leaves them.
Planning(U, o, q) ==
  /\ IsFiniteSet(U) /\ Sized(U) /\ Policy(q)
  /\ o \in [1..Len(o) -> U] /\ Len(o) \in Nat
  /\ Firsts(o, Len(o)) = U
  /\ \A i, j \in 1..Len(o) : o[i] = o[j] => i = j
  /\ \A i, j \in 1..Len(o) : i < j => o[i].last <= o[j].last

LEMMA OneMore ==
  ASSUME NEW U, NEW o, NEW q, NEW i, Planning(U, o, q), i \in 0..(Len(o) - 1)
  PROVE  /\ o[i + 1] \in U /\ i + 1 \in 1..Len(o)
         /\ Firsts(o, i + 1) = Firsts(o, i) \cup {o[i + 1]}
         /\ o[i + 1] \notin Firsts(o, i)
<1>1. i + 1 \in 1..Len(o) /\ 1..(i + 1) = (1..i) \cup {i + 1} /\ 1..i \subseteq 1..Len(o)
  BY DEF Planning
<1>2. Firsts(o, i + 1) = Firsts(o, i) \cup {o[i + 1]}
  BY <1>1 DEF Firsts
<1>3. o[i + 1] \notin Firsts(o, i)
  <2>1. \A j \in 1..i : j # i + 1 /\ j \in 1..Len(o)
    BY <1>1
  <2> QED BY <1>1, <2>1 DEF Firsts, Planning
<1> QED BY <1>1, <1>2, <1>3 DEF Planning

\* After i turns of the first loop.
AfterRetention(s, i, U, o, q) ==
  /\ Sound(s, U, q) /\ s.stop = FALSE
  /\ Forced(s.plan) = {}
  /\ All(s.plan) = {u \in Firsts(o, i) : Expired(u, q)}

LEMMA RetentionTurn ==
  ASSUME NEW U, NEW o, NEW q, NEW i, NEW s,
         Planning(U, o, q), i \in 0..(Len(o) - 1), AfterRetention(s, i, U, o, q)
  PROVE  AfterRetention(RetentionStep(s, o[i + 1], q), i + 1, U, o, q)
<1>0. PICK u : u = o[i + 1]
  OBVIOUS
<1>1. /\ u \in U /\ u = o[i + 1] /\ u \notin Firsts(o, i)
      /\ Firsts(o, i + 1) = Firsts(o, i) \cup {u}
  BY <1>0, OneMore
<1>2. CASE ~Expired(u, q)
  <2>1. RetentionStep(s, u, q) = s
    BY <1>2 DEF RetentionStep
  <2>2. {v \in Firsts(o, i + 1) : Expired(v, q)} = {v \in Firsts(o, i) : Expired(v, q)}
    BY <1>1, <1>2
  <2> QED BY <1>1, <2>1, <2>2 DEF AfterRetention
<1>3. CASE Expired(u, q)
  <2>1. PICK t : t = Take(s, u, "retention")
    OBVIOUS
  <2>2. RetentionStep(s, u, q) = t
    BY <1>3, <2>1 DEF RetentionStep
  <2>3. u \notin All(s.plan)
    BY <1>1 DEF AfterRetention
  <2>a. Sound(s, U, q) /\ IsFiniteSet(U) /\ Sized(U) /\ Policy(q)
    BY DEF AfterRetention, Planning
  <2>b. "retention" \in Reasons
    BY DEF Reasons
  <2> DEFINE d == [unit |-> u, reason |-> "retention"]
  <2>c. OneTaken(Take(s, u, "retention"), s, d, U, q)
    BY <1>1, <2>a, <2>b, <2>3, TakeSums
  <2>4. Sound(t, U, q) /\ t.stop = FALSE /\ t.plan = Append(s.plan, d)
    BY <2>1, <2>c DEF OneTaken
  <2>5. d \in Decisions(U) /\ d.unit = u /\ d.reason = "retention"
    BY <1>1 DEF Decisions
  <2>6. s.plan \in Seq(Decisions(U)) /\ Forced(s.plan) = {}
    BY DEF AfterRetention, Sound
  <2> HIDE DEF d
  <2>7. All(t.plan) = All(s.plan) \cup {u} /\ Forced(t.plan) = {}
    BY <2>4, <2>5, <2>6, AppendGiven
  <2>8. {v \in Firsts(o, i + 1) : Expired(v, q)} =
          {v \in Firsts(o, i) : Expired(v, q)} \cup {u}
    BY <1>1, <1>3
  <2> QED BY <1>1, <2>2, <2>4, <2>7, <2>8 DEF AfterRetention
<1> QED BY <1>2, <1>3

RetentionLoop(o, q) == LoopResult(Loop("retention", o, q, Start(q)))

LEMMA RetentionDone ==
  ASSUME NEW U, NEW o, NEW q, Planning(U, o, q)
  PROVE  AfterRetention(RetentionLoop(o, q), Len(o), U, o, q)
<1>0. PICK c : c = Loop("retention", o, q, Start(q))
  OBVIOUS
<1>1. /\ c = Loop("retention", o, q, Start(q)) /\ c.loop = "retention" /\ c.o = o
      /\ c.q = q /\ c.base = Start(q)
  BY <1>0 DEF Loop
<1>2. PICK n \in Nat : n = Len(o) /\ DOMAIN o = 1..n
  BY DEF Planning
<1>3. PICK r : /\ r[0] = c.base
               /\ \A i \in 1..n : r[i] = Turn(c.loop, r[i - 1], c.o[i], c.q)
               /\ LoopResult(c) = r[n]
  BY <1>1, <1>2, LoopSteps
<1> DEFINE T == {k \in Nat : AfterRetention(r[k], k, U, o, q)}
<1>4. 0 \in T
  <2>0. PICK s : s = Start(q)
    OBVIOUS
  <2>1. /\ s = Start(q) /\ s.plan = <<>> /\ s.used = q.used /\ s.free = q.free
        /\ s.stop = FALSE /\ DOMAIN s = Fields
    BY <2>0 DEF Start, Fields
  <2>2. All(<<>>) = {} /\ Forced(<<>>) = {} /\ <<>> \in Seq(Decisions(U)) /\ Once(<<>>)
    BY DEF All, Forced, Given, Once
  <2>3. TotalBytes({}) = 0
    BY TotalBytesSums DEF Planning, Sized
  <2>4. Gain(q.free, 0) = q.free /\ q.used - 0 = q.used
    BY DEF Planning, Policy, Gain
  <2>5. Sound(s, U, q)
    BY <2>1, <2>2, <2>3, <2>4 DEF Sound
  <2>6. Firsts(o, 0) = {}
    BY DEF Firsts
  <2>7. AfterRetention(s, 0, U, o, q)
    BY <2>1, <2>2, <2>5, <2>6 DEF AfterRetention
  <2> QED BY <1>1, <1>3, <2>1, <2>7
<1>5. ASSUME NEW k \in 0..(n - 1), k \in T PROVE k + 1 \in T
  <2>1. r[k + 1] = RetentionStep(r[k], o[k + 1], q)
    BY <1>1, <1>3 DEF Turn
  <2>2. AfterRetention(r[k + 1], k + 1, U, o, q)
    BY <1>2, <1>5, <2>1, RetentionTurn
  <2> QED BY <2>2
<1>6. n \in T
  <2> HIDE DEF T
  <2> QED BY <1>4, <1>5, Induction
<1> QED BY <1>1, <1>2, <1>3, <1>6 DEF RetentionLoop

\* The units that are neither protected nor expired.
Free(U, q) == {u \in U : ~Protected(u, q) /\ ~Expired(u, q)}

\* Every unit taken under pressure was, with the pressure there was.
Justified(p, q) ==
  \A k \in Forced(p) :
    /\ Pressed(Before(p, k), q)
    /\ (p[k].reason = "budget") <=> OverBudget(q.used - TotalBytes(Before(p, k)), q)

\* After i turns of the second loop, which looked at c units before its break.
AfterPressure(s, i, U, o, q) ==
  /\ Sound(s, U, q)
  /\ Given(s.plan, Retained(s.plan)) = {u \in U : Expired(u, q)}
  /\ \E c \in 0..i : /\ Given(s.plan, Forced(s.plan)) = Firsts(o, c) \cap Free(U, q)
                     /\ s.stop \/ c = i
  /\ s.stop => ~Pressed(All(s.plan), q)
  /\ Justified(s.plan, q)

LEMMA PressureTurn ==
  ASSUME NEW U, NEW o, NEW q, NEW i, NEW s,
         Planning(U, o, q), i \in 0..(Len(o) - 1), AfterPressure(s, i, U, o, q)
  PROVE  AfterPressure(PressureStep(s, o[i + 1], q), i + 1, U, o, q)
<1>0. PICK u : u = o[i + 1]
  OBVIOUS
<1>1. /\ u \in U /\ u = o[i + 1] /\ u \notin Firsts(o, i)
      /\ Firsts(o, i + 1) = Firsts(o, i) \cup {u}
  BY <1>0, OneMore
<1>2. PICK c \in 0..i : /\ Given(s.plan, Forced(s.plan)) = Firsts(o, c) \cap Free(U, q)
                        /\ s.stop \/ c = i
  BY DEF AfterPressure
<1>3. i \in Nat /\ c \in 0..(i + 1)
  BY <1>2 DEF Planning
<1>4. CASE s.stop
  <2>1. PressureStep(s, u, q) = s
    BY <1>4 DEF PressureStep
  <2> QED BY <1>1, <1>2, <1>3, <1>4, <2>1 DEF AfterPressure
<1>5. CASE ~s.stop /\ u \notin Free(U, q)
  <2>1. PressureStep(s, u, q) = s
    BY <1>1, <1>5 DEF PressureStep, Free
  <2>2. Given(s.plan, Forced(s.plan)) = Firsts(o, i + 1) \cap Free(U, q)
    BY <1>1, <1>2, <1>5
  <2>3. i + 1 \in 0..(i + 1)
    BY <1>3
  <2> QED BY <1>1, <2>1, <2>2, <2>3 DEF AfterPressure
<1>6. CASE ~s.stop /\ u \in Free(U, q)
  <2>0. ~Protected(u, q) /\ ~Expired(u, q)
    BY <1>6 DEF Free
  <2>1. Sound(s, U, q) /\ IsFiniteSet(U) /\ Sized(U) /\ Policy(q)
    BY DEF AfterPressure, Planning
  <2>2. s.plan \in Seq(Decisions(U))
    BY <2>1 DEF Sound
  <2>3. Pressed(All(s.plan), q) <=> OverBudget(s.used, q) \/ UnderReserve(s.free, q)
    BY <2>1 DEF Sound, Pressed
  <2>4. CASE ~(OverBudget(s.used, q) \/ UnderReserve(s.free, q))
    <3>1. PICK t : t = [s EXCEPT !.stop = TRUE]
      OBVIOUS
    <3>2. PressureStep(s, u, q) = t
      BY <1>6, <2>0, <2>4, <3>1 DEF PressureStep
    <3>3. /\ t.plan = s.plan /\ t.used = s.used /\ t.free = s.free /\ t.stop = TRUE
          /\ DOMAIN t = Fields
      BY <2>1, <3>1 DEF Sound, Fields
    <3>4. Sound(t, U, q)
      BY <2>1, <3>3 DEF Sound
    <3> QED BY <1>1, <1>2, <1>3, <2>3, <2>4, <3>2, <3>3, <3>4 DEF AfterPressure
  <2>5. CASE OverBudget(s.used, q) \/ UnderReserve(s.free, q)
    <3>1. PICK reason \in {"budget", "reserve"} : reason = "budget" <=> OverBudget(s.used, q)
      OBVIOUS
    <3>2. PICK t : t = Take(s, u, reason)
      OBVIOUS
    <3>3. PressureStep(s, u, q) = t
      BY <1>6, <2>0, <2>5, <3>1, <3>2 DEF PressureStep
    <3>4. u \notin All(s.plan)
      <4>1. All(s.plan) = Given(s.plan, Retained(s.plan)) \cup Given(s.plan, Forced(s.plan))
        BY DEF All, Given, Retained, Forced
      <4> QED BY <1>1, <1>2, <1>6, <2>0, <4>1 DEF AfterPressure
    <3> DEFINE d == [unit |-> u, reason |-> reason]
    <3>5. Sound(t, U, q) /\ t.stop = FALSE /\ t.plan = Append(s.plan, d)
      <4>1. reason \in Reasons
        BY <3>1 DEF Reasons
      <4>2. OneTaken(Take(s, u, reason), s, d, U, q)
        BY <1>1, <2>1, <3>4, <4>1, TakeSums
      <4> QED BY <3>2, <4>2 DEF OneTaken
    <3>6. d \in Decisions(U) /\ d.unit = u /\ d.reason = reason /\ reason # "retention"
      BY <1>1, <3>1 DEF Decisions
    <3> HIDE DEF d
    <3>7. PICK p \in Seq(Decisions(U)) : p = s.plan
      BY <2>2
    <3>8. /\ Given(t.plan, Forced(t.plan)) = Given(p, Forced(p)) \cup {u}
          /\ Given(t.plan, Retained(t.plan)) = Given(p, Retained(p))
          /\ Forced(t.plan) = Forced(p) \cup {Len(p) + 1}
          /\ \A k \in Forced(p) : Before(t.plan, k) = Before(p, k)
          /\ Before(t.plan, Len(p) + 1) = All(p)
      BY <3>5, <3>6, <3>7, AppendGiven
    <3>9. /\ \A k \in Forced(p) : t.plan[k] = p[k]
          /\ t.plan[Len(p) + 1] = d
      <4>1. \A k \in Forced(p) : k \in 1..Len(p)
        BY <3>7 DEF Forced
      <4> QED BY <3>5, <3>6, <3>7, <4>1, AppendProperties
    <3>10. Justified(t.plan, q)
      <4>1. ASSUME NEW k \in Forced(p)
            PROVE  /\ Pressed(Before(t.plan, k), q)
                   /\ (t.plan[k].reason = "budget") <=>
                        OverBudget(q.used - TotalBytes(Before(t.plan, k)), q)
        BY <3>7, <3>8, <3>9 DEF AfterPressure, Justified
      <4>2. /\ Pressed(All(p), q)
            /\ d.reason = "budget" <=> OverBudget(q.used - TotalBytes(All(p)), q)
        BY <2>1, <2>3, <2>5, <3>1, <3>6, <3>7 DEF Sound
      <4> QED BY <3>8, <3>9, <4>1, <4>2 DEF Justified
    <3>11. Given(t.plan, Forced(t.plan)) = Firsts(o, i + 1) \cap Free(U, q)
      BY <1>1, <1>2, <1>6, <3>7, <3>8
    <3>12. Given(t.plan, Retained(t.plan)) = {v \in U : Expired(v, q)}
      BY <3>7, <3>8 DEF AfterPressure
    <3>13. i + 1 \in 0..(i + 1)
      BY <1>3
    <3> QED BY <1>1, <3>3, <3>5, <3>10, <3>11, <3>12, <3>13 DEF AfterPressure
  <2> QED BY <2>4, <2>5
<1> QED BY <1>4, <1>5, <1>6

LEMMA PressureDone ==
  ASSUME NEW U, NEW o, NEW q, NEW b,
         Planning(U, o, q), AfterRetention(b, Len(o), U, o, q)
  PROVE  AfterPressure(LoopResult(Loop("pressure", o, q, b)), Len(o), U, o, q)
<1>0. PICK c : c = Loop("pressure", o, q, b)
  OBVIOUS
<1>1. /\ c = Loop("pressure", o, q, b) /\ c.loop = "pressure" /\ c.o = o
      /\ c.q = q /\ c.base = b
  BY <1>0 DEF Loop
<1>2. PICK n \in Nat : n = Len(o) /\ DOMAIN o = 1..n
  BY DEF Planning
<1>3. PICK r : /\ r[0] = c.base
               /\ \A i \in 1..n : r[i] = Turn(c.loop, r[i - 1], c.o[i], c.q)
               /\ LoopResult(c) = r[n]
  BY <1>1, <1>2, LoopSteps
<1> DEFINE T == {k \in Nat : AfterPressure(r[k], k, U, o, q)}
<1>4. 0 \in T
  <2>1. Sound(b, U, q) /\ b.stop = FALSE /\ Forced(b.plan) = {}
    BY DEF AfterRetention
  <2>2. All(b.plan) = {u \in U : Expired(u, q)}
    BY DEF AfterRetention, Planning
  <2>3. Retained(b.plan) = DOMAIN b.plan
    BY <2>1 DEF Retained
  <2>4. Given(b.plan, Retained(b.plan)) = {u \in U : Expired(u, q)}
    BY <2>2, <2>3 DEF All
  <2>5. Given(b.plan, Forced(b.plan)) = {} /\ Firsts(o, 0) = {} /\ 0 \in 0..0
    BY <2>1 DEF Given, Firsts
  <2>6. Justified(b.plan, q)
    BY <2>1 DEF Justified
  <2>7. AfterPressure(b, 0, U, o, q)
    BY <2>1, <2>4, <2>5, <2>6 DEF AfterPressure
  <2> QED BY <1>1, <1>3, <2>7
<1>5. ASSUME NEW k \in 0..(n - 1), k \in T PROVE k + 1 \in T
  <2>1. r[k + 1] = PressureStep(r[k], o[k + 1], q)
    BY <1>1, <1>3 DEF Turn
  <2>2. AfterPressure(r[k + 1], k + 1, U, o, q)
    BY <1>2, <1>5, <2>1, PressureTurn
  <2> QED BY <2>2
<1>6. n \in T
  <2>1. n \in Nat
    OBVIOUS
  <2> HIDE DEF T
  <2> QED BY ONLY <1>4, <1>5, <2>1, Induction
<1> QED BY <1>1, <1>2, <1>3, <1>6

\* planCache, on the units in an order of their last use, meets the policy.
LEMMA PlanPolicy ==
  ASSUME NEW U, NEW o, NEW q, Planning(U, o, q)
  PROVE  MeetsPolicy(PlanCache(o, q), U, q) /\ Once(PlanCache(o, q))
<1>1. PICK b : b = RetentionLoop(o, q)
  OBVIOUS
<1>2. AfterRetention(b, Len(o), U, o, q)
  BY <1>1, RetentionDone
<1>3. PICK s : s = LoopResult(Loop("pressure", o, q, b))
  OBVIOUS
<1>4. AfterPressure(s, Len(o), U, o, q)
  BY <1>2, <1>3, PressureDone
<1>5. PICK p : p = s.plan
  OBVIOUS
<1>6. PlanCache(o, q) = p
  BY <1>1, <1>3, <1>5, PlanIsLoops DEF RetentionLoop
<1>7. PICK c \in 0..Len(o) : /\ Given(p, Forced(p)) = Firsts(o, c) \cap Free(U, q)
                             /\ s.stop \/ c = Len(o)
  BY <1>4, <1>5 DEF AfterPressure
<1>8. Given(p, Retained(p)) = {u \in U : Expired(u, q)}
  BY <1>4, <1>5 DEF AfterPressure
<1>9. All(p) = Given(p, Retained(p)) \cup Given(p, Forced(p))
  BY DEF All, Given, Retained, Forced
<1>10. All(p) \cap Free(U, q) = Firsts(o, c) \cap Free(U, q)
  BY <1>7, <1>8, <1>9 DEF Free
<1>11. Given(p, Forced(p)) \subseteq Free(U, q)
  BY <1>7
<1>12. ASSUME NEW u \in All(p) \cap Free(U, q), NEW v \in Free(U, q) \ All(p)
       PROVE  u.last <= v.last
  <2>1. PICK i \in 1..c : u = o[i]
    BY <1>10, <1>12 DEF Firsts
  <2>2. PICK j \in 1..Len(o) : v = o[j]
    BY <1>12 DEF Planning, Firsts, Free
  <2>3. ~(j \in 1..c)
    BY <1>10, <1>12, <2>2 DEF Firsts
  <2>4. Len(o) \in Nat
    BY DEF Planning
  <2>5. i \in 1..Len(o) /\ i < j
    BY <1>7, <2>1, <2>2, <2>3, <2>4
  <2> QED BY <2>1, <2>2, <2>5 DEF Planning
<1>13. Pressed(All(p), q) => Free(U, q) \subseteq All(p)
  <2>1. SUFFICES ASSUME Pressed(All(p), q) PROVE Free(U, q) \subseteq All(p)
    OBVIOUS
  <2>2. c = Len(o)
    BY <1>4, <1>5, <1>7, <2>1 DEF AfterPressure
  <2>3. Free(U, q) \subseteq Firsts(o, c)
    BY <2>2 DEF Planning, Free
  <2> QED BY <1>10, <2>3
<1>14. Justified(p, q)
  BY <1>4, <1>5 DEF AfterPressure
<1>15. MeetsPolicy(p, U, q)
  BY <1>8, <1>11, <1>12, <1>13, <1>14
     DEF MeetsPolicy, Given, All, Free, Forced, Retained, Before, Justified
<1>16. Once(p)
  BY <1>4, <1>5 DEF AfterPressure, Sound
<1> QED BY <1>6, <1>15, <1>16

\* The orders the sort may leave are such.
LEMMA OrdersPlan ==
  ASSUME NEW U, NEW o, NEW q, IsFiniteSet(U), Sized(U), Policy(q), o \in Orders(U)
  PROVE  Planning(U, o, q)
<1>1. PICK n \in Nat : n = Cardinality(U)
  BY FS_CardinalityType
<1>2. /\ o \in [1..n -> U]
      /\ \A i, j \in 1..n : i # j => o[i] # o[j]
      /\ \A i, j \in DOMAIN o : i < j => o[i].last <= o[j].last
  BY <1>1 DEF Orders, SetToSeqs
<1>3. Len(o) = n /\ DOMAIN o = 1..n
  BY <1>2
<1>4. o \in Injection(1..n, U)
  BY <1>2 DEF Injection, IsInjective
<1>5. Cardinality(1..n) = n
  BY FS_Interval
<1>6. o \in Surjection(1..n, U)
  BY <1>1, <1>4, <1>5, FS_Injection
<1>7. Firsts(o, n) = U
  BY <1>2, <1>6 DEF Surjection, Firsts
<1> QED BY <1>1, <1>2, <1>3, <1>7 DEF Planning
=============================================================================
