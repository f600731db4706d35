--------------------------- MODULE MCPluginCores ----------------------------
(* Values of the constants of PluginCores for its runs. *)
EXTENDS PluginCores, TLC

CONSTANTS c1, c2, d1, d2

TwoCallers == {c1, c2}
TwoThreads == {d1, d2}
Alike == Permutations(TwoCallers) \cup Permutations(TwoThreads)
=============================================================================
