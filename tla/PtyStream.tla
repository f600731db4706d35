----------------------------- MODULE PtyStream ------------------------------
(***************************************************************************)
(* What the output of a terminal session promises whoever watches it: the  *)
(* session says one thing after another, and each view shows an unbroken   *)
(* run of what was said, in order and nothing twice.  A run need not start *)
(* at the beginning: a view that comes late has missed what is no longer   *)
(* kept.                                                                   *)
(***************************************************************************)
EXTENDS Integers, Sequences

CONSTANT Views

VARIABLES said,    \* how many chunks the session has said; they are 0, 1, ...
          shown    \* shown[v]: the chunks view v has shown, in order

vars == <<said, shown>>

Run(first, last) == [i \in 1..(last - first + 1) |-> first + i - 1]

Init == said = 0 /\ shown = [v \in Views |-> <<>>]

Say == said' = said + 1 /\ UNCHANGED shown

(* A view shows the chunks that follow its last one, or, if it has shown   *)
(* nothing yet, any of those said so far.                                  *)
Show(v) ==
  \E first, last \in 0..(said - 1) :
    /\ first <= last
    /\ shown[v] # <<>> => first = shown[v][Len(shown[v])] + 1
    /\ shown' = [shown EXCEPT ![v] = @ \o Run(first, last)]
    /\ UNCHANGED said

Next == Say \/ \E v \in Views : Show(v)

Spec == Init /\ [][Next]_vars
=============================================================================
