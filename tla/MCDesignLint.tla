---------------------------- MODULE MCDesignLint ----------------------------
(* Two services, a module that refers to a screen, and a contract method   *)
(* that the first service exports; the second service is nested in it.     *)
(* The module has a field left from when it was a service, and it alone   *)
(* may depend on itself.                                                   *)
EXTENDS DesignLint

CONSTANTS s1, l1, f1, d1, d2

Four == 1..4
Kinds == <<"service", "module", "contract-method", "service">>
Contained == <<0, 1, 2, 1>>
Slugs == <<4, 3, 2, 1>>
NamesNothing ==
  [superseded_by |-> {}, decisions |-> {}, exports |-> {}, allowed_libraries |-> {},
   registry_ref |-> {}, anchor |-> {}, members |-> {}]
Fields ==
  <<[NamesNothing EXCEPT !.exports = {3}],
    [NamesNothing EXCEPT !.allowed_libraries = {l1}, !.exports = {4}],
    [NamesNothing EXCEPT !.superseded_by = {4}],
    [NamesNothing EXCEPT !.decisions = {d1}]>>
Backing == [s \in {s1} |-> {2}]
Path == [f \in {f1} |-> {s1}]
Succession ==
  [d \in {d1, d2} |-> IF d = d1 THEN [supersedes |-> {d2}, superseded_by |-> {}]
                     ELSE [supersedes |-> {}, superseded_by |-> {d1}]]
Lives == <<"draft", "accepted", "deprecated", "accepted">>
Link(kind, from, to) == [kind |-> kind, from |-> from, to |-> to]
EdgesOf ==
  {Link("depends_on", e[1], e[2]) : e \in {f \in Four \X Four : f[1] # f[2] \/ f[1] = 2}}
    \cup {Link("references_ui", 2, s1)}
Merged == {Link("contains", 3, 2), Link("references_ui", 2, s1)}
=============================================================================
