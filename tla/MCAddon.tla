------------------------------- MODULE MCAddon -------------------------------
(* An instance of Addon for TLC: a search of two indexers, one of which    *)
(* takes one query only, beside a second request.                          *)
EXTENDS Addon, TLC

CONSTANTS a, b, c, t1, t2, t3, t4, t5, r1, r2

MCKinds == {"yts", "knaben"}
MCEpisodes ==
  t1 :> <<<<1, 1>>, <<1, 2>>, <<2, 1>>>> @@ t2 :> <<>> @@ t3 :> <<<<2, 1>>, <<2, 2>>, <<3, 1>>>>
  \* One with a gap, one that names an episode twice.
  @@ t4 :> <<<<1, 1>>, <<1, 3>>, <<2, 1>>>> @@ t5 :> <<<<1, 2>>, <<1, 2>>, <<1, 3>>, <<2, 1>>>>
MCAsked == r1 :> {<<0, 0>>, <<1, 3>>} @@ r2 :> {<<1, 4>>, <<2, 2>>}

R(ih, n, score, sig) == [ih |-> ih, seeders |-> n, score |-> score, sig |-> sig]
World(x, y, z) ==
  <<"yts", 1>> :> x @@ <<"knaben", 1>> :> y @@ <<"knaben", 2>> :> z

MCWorlds ==
  {\* One release reported three times, and a pack.
   World(<<R(a, 1, 6, 1)>>, <<R(a, 2, 7, 1), R(b, 1, 5, 0)>>, <<R(a, 2, 4, -1)>>),
   \* Dead beside living, an equal score, no infohash.
   World(<<R(a, 0, 9, 1), R(NoHash, 3, 9, 1)>>, <<R(b, 1, 5, 1)>>, <<R(c, 4, 5, 1)>>),
   \* All dead, more than the list holds.
   World(<<R(a, 0, 3, 0)>>, <<R(b, 0, 4, 1), R(c, 0, 5, -1)>>, <<R(c, 0, 6, 1)>>)}
=============================================================================
