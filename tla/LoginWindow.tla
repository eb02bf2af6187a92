----------------------------- MODULE LoginWindow -----------------------------
(***************************************************************************)
(* failWindow of admin.go: recent failures per address.  A value h maps    *)
(* addresses to the sequence of the times they failed at; each operator is *)
(* one critical section of f.mu.                                           *)
(***************************************************************************)
EXTENDS Integers, Sequences, FiniteSets, SequencesExt

CONSTANTS
  Limit,   \* ten failures
  Window,  \* ten minutes
  MapCap   \* ten thousand addresses

ASSUME WindowAssumption == Limit \in Nat \ {0} /\ Window \in Nat /\ MapCap \in Nat

Hits(h, a) == IF a \in DOMAIN h THEN h[a] ELSE <<>>

\* The failures inside the window: one turn of blocked()'s loop, and the loop.
Keep(kept, t, now)  == IF t > now - Window THEN Append(kept, t) ELSE kept
InWindow(times, now) == FoldLeft(LAMBDA kept, t : Keep(kept, t, now), <<>>, times)
Recent(h, a, now)   == InWindow(Hits(h, a), now)

\* blocked(): old failures go, and the address with them when none is left.
Pruned(h, a, now) ==
  IF Recent(h, a, now) = <<>> THEN Restrict(h, DOMAIN h \ {a})
                              ELSE [h EXCEPT ![a] = Recent(h, a, now)]

Blocked(h, a, now) == Len(Recent(h, a, now)) >= Limit

\* A map over its cap loses the addresses whose last failure is old, and all of
\* them if that was not enough.
Bounded(h, now) ==
  LET live == {a \in DOMAIN h : h[a] # <<>> /\ h[a][Len(h[a])] >= now - Window} IN
  IF Cardinality(DOMAIN h) <= MapCap THEN h
  ELSE IF Cardinality(live) <= MapCap THEN Restrict(h, live)
  ELSE Restrict(h, {})

Failed(h, a, now) ==
  LET b == Bounded(h, now) IN
  [x \in DOMAIN b \cup {a} |-> IF x = a THEN Append(Hits(b, a), now) ELSE b[x]]

Reset(h, a) == Restrict(h, DOMAIN h \ {a})
=============================================================================
