---------------------------- MODULE MCCacheSweep ----------------------------
(* An instance of CacheSweep for TLC.                                      *)
EXTENDS CacheSweep, TLC

\* Both pressures, which end at different entries; with retention and no grace.
MCConfigs == {
  [budget |-> 2, reserve |-> 3, grace |-> 1,  retain |-> 0],
  [budget |-> 3, reserve |-> 2, grace |-> -1, retain |-> 1] }

\* Foreign names differ in nothing but their entries.
MCSymmetry == Permutations(Foreign)
=============================================================================
