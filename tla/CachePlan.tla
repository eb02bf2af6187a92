------------------------------ MODULE CachePlan ------------------------------
(***************************************************************************)
(* planCache of cache.go: which entries of the cache go, and why.  Pure.   *)
(*                                                                         *)
(* A unit is [name, bytes, last, readers, loaded]; a policy q is           *)
(* [used, free, now, budget, reserve, grace, retain], free being -1 when   *)
(* the probe failed.  Times and sizes are small integers.                  *)
(***************************************************************************)
EXTENDS Integers, Sequences, SequencesExt, FiniteSetsExt

\* Mutant of Protected: an open reader does not protect.
ProtectedByGraceAlone(u, q) == q.now - u.last < q.grace

\* A live reader, or a use inside the grace window. A negative grace is none:
\* no use lies in the future of the sweep by more than it.
Protected(u, q) ==
  u.readers > 0 \/ q.now - u.last < (IF q.grace < 0 THEN 0 ELSE q.grace)

\* Untouched for longer than retention allows.
Expired(u, q) == q.retain > 0 /\ ~Protected(u, q) /\ q.now - u.last > q.retain

OverBudget(used, q) == q.budget > 0 /\ used > q.budget
UnderReserve(free, q) == q.reserve > 0 /\ free >= 0 /\ free < q.reserve
Gain(free, bytes) == IF free >= 0 THEN free + bytes ELSE free

\* The orders sort.Slice may leave the units in: by last use, ties anyhow.
Orders(units) ==
  {o \in SetToSeqs(units) : \A i, j \in DOMAIN o : i < j => o[i].last <= o[j].last}

TotalBytes(units) == MapThenSumSet(LAMBDA u : u.bytes, units)

\* One entry more is taken.
Take(s, u, reason) ==
  [plan |-> Append(s.plan, [unit |-> u, reason |-> reason]),
   used |-> s.used - u.bytes, free |-> Gain(s.free, u.bytes), stop |-> FALSE]

\* One turn of the first loop.
RetentionStep(s, u, q) == IF Expired(u, q) THEN Take(s, u, "retention") ELSE s

\* Mutant of PressureStep: the pressure is not looked at again after the
\* first entry taken.
PressureStepOnce(s, u, q) ==
  IF s.stop \/ Expired(u, q) \/ Protected(u, q) THEN s
  ELSE IF OverBudget(q.used, q) \/ UnderReserve(q.free, q)
       THEN [s EXCEPT !.plan = Append(@, [unit |-> u, reason |-> "budget"])]
       ELSE [s EXCEPT !.stop = TRUE]

\* One turn of the second loop; stop stands for its break.
PressureStep(s, u, q) ==
  IF s.stop \/ Expired(u, q) \/ Protected(u, q) THEN s
  ELSE IF OverBudget(s.used, q) \/ UnderReserve(s.free, q)
       THEN Take(s, u, IF OverBudget(s.used, q) THEN "budget" ELSE "reserve")
       ELSE [s EXCEPT !.stop = TRUE]

\* The decisions, in the order they are carried out: the two loops. What the
\* first one frees counts when it is over; nothing looks at it before.
PlanCache(ordered, q) ==
  LET start   == [plan |-> <<>>, used |-> q.used, free |-> q.free, stop |-> FALSE]
      expired == FoldLeft(LAMBDA s, u : RetentionStep(s, u, q), start, ordered)
  IN  FoldLeft(LAMBDA s, u : PressureStep(s, u, q), expired, ordered).plan

----------------------------------------------------------------------------
(* What the policy promises, said without its loops.                       *)

\* There is pressure once the units of gone are.
Pressed(gone, q) ==
  OverBudget(q.used - TotalBytes(gone), q) \/ UnderReserve(Gain(q.free, TotalBytes(gone)), q)

\* plan takes all that expired, nothing protected, and of the rest the least
\* recently used, as long as there is pressure and no longer, each for the
\* pressure that was left when its turn came.
MeetsPolicy(plan, units, q) ==
  LET Taken(S)  == {plan[k].unit : k \in S}
      all       == Taken(DOMAIN plan)
      forced    == {k \in DOMAIN plan : plan[k].reason # "retention"}
      free      == {u \in units : ~Protected(u, q) /\ ~Expired(u, q)}
      Before(k) == Taken({j \in DOMAIN plan : j < k} \cup (DOMAIN plan \ forced))
  IN  /\ Taken(DOMAIN plan \ forced) = {u \in units : Expired(u, q)}
      /\ Taken(forced) \subseteq free
      /\ \A k \in forced : /\ Pressed(Before(k), q)
                           /\ (plan[k].reason = "budget") <=>
                                OverBudget(q.used - TotalBytes(Before(k)), q)
      /\ \A u \in all \cap free, v \in free \ all : u.last <= v.last
      /\ Pressed(all, q) => free \subseteq all
=============================================================================
