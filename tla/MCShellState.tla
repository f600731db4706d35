---------------------------- MODULE MCShellState ----------------------------
(* Values of the constants of ShellState for its runs. *)
EXTENDS ShellState

HomeOnly == {"home"}
HomeAndFiles == {"home", "files"}

(* How many surfaces of each kind a run may mint. *)
One == [k \in Kind |-> 1]
TwoFiles == [k \in Kind |-> IF k = "files" THEN 2 ELSE 1]
TwoTerms == [k \in Kind |-> IF k = "term" THEN 2 ELSE 1]
=============================================================================
