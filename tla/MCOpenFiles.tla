---------------------------- MODULE MCOpenFiles -----------------------------
(* Small instances of OpenFiles for TLC.                                       *)
EXTENDS OpenFiles, TLC

Alike == Permutations(Paths)

Saving   == [kinds |-> {"open", "save", "close", "undo"}, left |-> 4]
Noticing == [kinds |-> {"open", "focus", "save", "answer"}, left |-> 4]
Moving   == [kinds |-> {"open", "save", "rename", "lose"}, left |-> 3]
Deleting == [kinds |-> {"open", "peek", "look", "close", "delete"}, left |-> 3]
Apart == {Saving, Noticing, Moving, Deleting}
Longer == {[Moving EXCEPT !.left = 4]}

=============================================================================
