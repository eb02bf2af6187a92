------------------------------ MODULE MCConsole ------------------------------
(* An instance of Console for TLC: two requests from one address, the      *)
(* others from another.                                                    *)
EXTENDS Console, TLC

CONSTANTS r1, r2, r3, x, y

MCAddressOf == r1 :> x @@ r2 :> x @@ r3 :> y
Symmetry == Permutations({r1, r2})
=============================================================================
