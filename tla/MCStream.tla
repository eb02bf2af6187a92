------------------------------- MODULE MCStream -------------------------------
(* An instance of Stream for TLC.                                          *)
EXTENDS Stream, TLC

File(v, s, st, n, w, z) ==
  [video |-> v, sample |-> s, states |-> st, num |-> n, words |-> w, size |-> z]

MCTorrents ==
  LET ep1   == File(TRUE, FALSE, 1, 0, {"x"}, 2)
      ep2   == File(TRUE, FALSE, 2, 0, {"x"}, 1)
      bare2 == File(TRUE, FALSE, 0, 2, {"x", "m"}, 3)
      plain == File(TRUE, FALSE, 0, 0, {"x"}, 3)
      taste == File(TRUE, TRUE, 0, 0, {"x", "m"}, 1)
      page  == File(FALSE, FALSE, 1, 0, {}, 3)
      none  == File(TRUE, FALSE, 0, 0, {}, 0)
  IN {<<ep1, ep2>>, <<page, bare2>>, <<plain, taste>>, <<plain, ep1, bare2>>,
      <<page>>, <<none>>, <<plain, plain, plain, taste>>, <<>>}

MCAsks == {[want |-> 0, ep |-> 0, hint |-> {}],
           [want |-> 2, ep |-> 1, hint |-> {}],
           [want |-> 0, ep |-> 1, hint |-> {}],
           [want |-> 0, ep |-> 2, hint |-> {"m"}],
           [want |-> 2, ep |-> 0, hint |-> {"x", "m"}]}
=============================================================================
