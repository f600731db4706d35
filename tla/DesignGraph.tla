---------------------------- MODULE DesignGraph -----------------------------
(***************************************************************************)
(* The design graph of a Schematify project and the walks over it          *)
(* (crates/schematify-core/src/graph.rs).  A graph is a record:            *)
(*   nodes      the identifiers some node file holds                       *)
(*   parent     the containment parent each node file names                *)
(*   edges      the edge files: [kind, from, to, live]                     *)
(*   refs       the screens each node caches in `ui_refs`                  *)
(*   screens    the screens, and `libraries` the registry                  *)
(* Identifiers are numbers, in the order of their UUIDs.  A hand edit or a *)
(* merge can leave a reference to a node that has no file, and parents or  *)
(* dependencies that close on themselves; every walk has to return.        *)
(***************************************************************************)
EXTENDS Integers, FiniteSets, Sequences, SequencesExt

CONSTANTS
  Ids,          \* the identifiers of nodes
  Kind          \* Kind[n]: the kind of node n

None == 0       \* no node

ASSUME GraphAssumption ==
  Ids \subseteq Nat \ {None} /\ IsFiniteSet(Ids) /\ DOMAIN Kind = Ids

-----------------------------------------------------------------------------
(* The indexes *)

ParentOf(g, n) == IF n \in g.nodes THEN g.parent[n] ELSE None

(* A child is filed under the parent it names, whether that node exists. *)
Children(g, p) == {n \in g.nodes : g.parent[n] = p}

Live(g, kind) == {e \in g.edges : e.live /\ e.kind = kind}

(* Endpoints are not checked: a source without a node is an entry too. *)
Dependencies(g, n) == {e.to : e \in {d \in Live(g, "depends_on") : d.from = n}}
Dependents(g, n) == {e.from : e \in {d \in Live(g, "depends_on") : d.to = n}}

Least(S) == CHOOSE n \in S : \A m \in S : n <= m

-----------------------------------------------------------------------------
(* Loops *)

(* A loop with the body `step`: it runs until a round changes nothing.      *)
Loop(step) ==
  LET run[s \in DOMAIN step] == IF step[s] = s THEN s ELSE run[step[s]] IN run

(* A walk along `next` that enters no node twice. *)
Walks == [queue : SUBSET Ids, seen : SUBSET Ids]
Visit(next, w) ==
  LET at == CHOOSE n \in w.queue : TRUE
      new == next[at] \ w.seen
  IN [queue |-> (w.queue \ {at}) \cup new, seen |-> w.seen \cup new]
Gather(next, queue, seen) ==
  LET step == [w \in Walks |-> IF w.queue = {} THEN w ELSE Visit(next, w)]
  IN Loop(step)[[queue |-> queue, seen |-> seen]].seen

(* A walk with one way on, until there is none, a node that was on the way, *)
(* or one of `settled`.                                                     *)
Climbs == [at : Ids \cup {None}, chain : Seq(Ids)]
Halts(settled, c) == c.at = None \/ c.at \in settled \cup ToSet(c.chain)
Climb(up, from, settled) ==
  LET step == [c \in Climbs |->
        IF Halts(settled, c) THEN c
        ELSE [at |-> up[c.at], chain |-> Append(c.chain, c.at)]]
  IN Loop(step)[[at |-> from, chain |-> <<>>]]

(* From each of `roots`, depth first, in the order of identifiers: `path`   *)
(* goes down to the node that the walk is at, `left` is what each node has  *)
(* yet to enter, the roots those of None, and `order` is the nodes in the   *)
(* order in which they finish.  One that `stops` does so when it meets a    *)
(* node on its path.                                                        *)
DepthFirsts ==
  [path : Seq(Ids), left : [Ids \cup {None} -> SUBSET Ids], order : Seq(Ids),
   met : Ids \cup {None}]
At(path) == IF path = <<>> THEN None ELSE Last(path)
Enter(w, n, stops) ==
  IF n \in ToSet(w.order) THEN w
  ELSE IF n \notin ToSet(w.path) THEN [w EXCEPT !.path = Append(@, n)]
  ELSE IF stops THEN [w EXCEPT !.met = n] ELSE w
Advance(w, stops) ==
  LET at == At(w.path)
      n == Least(w.left[at])
  IN Enter([w EXCEPT !.left[at] = @ \ {n}], n, stops)
Leave(w) ==
  [w EXCEPT !.path = Front(@), !.order = Append(@, Last(w.path))]
DepthFirst(dep, roots, stops) ==
  LET step == [w \in DepthFirsts |->
        IF w.met # None THEN w
        ELSE IF w.left[At(w.path)] # {} THEN Advance(w, stops)
        ELSE IF w.path # <<>> THEN Leave(w) ELSE w]
  IN Loop(step)[[path |-> <<>>, order |-> <<>>, met |-> None,
       left |-> [n \in Ids \cup {None} |-> IF n = None THEN roots ELSE dep[n]]]]

-----------------------------------------------------------------------------
(* Containment *)

(* The start is seen before the walk, so that no node is below itself. *)
Descendants(g, n) ==
  Gather([m \in Ids |-> Children(g, m)], {n}, {n}) \ {n}

(* Nearest first.  On a cycle of parents it comes back to the start. *)
Up(g) == [n \in Ids |-> ParentOf(g, n)]
Ancestors(g, n) == Climb(Up(g), ParentOf(g, n), {}).chain

FirstIn(chain, S) ==
  IF ToSet(chain) \cap S = {} THEN None
  ELSE chain[CHOOSE i \in DOMAIN chain :
               chain[i] \in S /\ \A j \in 1..(i - 1) : chain[j] \notin S]

NodesOfKind(g, kind) == {n \in g.nodes : Kind[n] = kind}
NearestOf(g, n, kind) ==
  IF n \notin g.nodes THEN None
  ELSE FirstIn(<<n>> \o Ancestors(g, n), NodesOfKind(g, kind))

ModuleRoot(g, n) == NearestOf(g, n, "module")

(* A Service Schematic draws its modules, but not those of a service that  *)
(* is nested in it.                                                        *)
Enters_Nested(kind) == TRUE
Enters(kind) == kind # "service"
ModulesOfService(g, s) ==
  LET inside == [m \in Ids |-> {c \in Children(g, m) : Enters(Kind[c])}]
  IN (Gather(inside, {s}, {s}) \ {s}) \cap NodesOfKind(g, "module")

-----------------------------------------------------------------------------
(* Shared nodes *)

Chain(g, n) == <<n>> \o Ancestors(g, n)

(* The chain of the first, filtered by the others'; no candidate is one of *)
(* the nodes themselves.                                                   *)
Deepest_Last(chain, S) == FirstIn(Reverse(chain), S)
Deepest(chain, S) == FirstIn(chain, S)
LowestCommonAncestor(g, S) ==
  Deepest(Chain(g, Least(S)),
          {c \in Ids : \A n \in S : c \in ToSet(Chain(g, n))} \ S)

IsShared(g, n) == Cardinality(Dependents(g, n)) >= 2
SharedNodeParent(g, n) == LowestCommonAncestor(g, Dependents(g, n))

-----------------------------------------------------------------------------
(* Dependency cycles *)

(* The part of the path that starts at the node on it.                      *)
From(path, n) == SubSeq(path, CHOOSE i \in DOMAIN path : path[i] = n, Len(path))

NoCycle == <<>>

Depends(g) == [n \in Ids |-> Dependencies(g, n)]

(* `walk_for_cycle` settles the nodes that the walk has finished. *)
DependencyCycle(g) ==
  LET walk == DepthFirst(Depends(g), g.nodes, TRUE)
  IN IF walk.met = None THEN NoCycle ELSE From(walk.path, walk.met)
=============================================================================
