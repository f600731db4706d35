---------------------------- MODULE MCDesignStore ----------------------------
(* Small instances of DesignStore for TLC.                                      *)
EXTENDS DesignStore, TLC

Workers == Permutations(Calls) \cup Permutations(Dependents) \cup Permutations(Rows)

Apart == { {"write-node", "transition"}, {"write-node", "write-edge"}, {"decision"}, {"ingest-run"} }

=============================================================================
