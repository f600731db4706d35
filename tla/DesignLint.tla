----------------------------- MODULE DesignLint -----------------------------
(***************************************************************************)
(* The thirteen rules of the linter (crates/schematify-core/src/lint.rs)   *)
(* and the loader's quarantine and slug claims (load.rs, slug.rs), over a  *)
(* `.kaava` tree that the app's calls and hand edits change.  A finding is *)
(* its rule, its subject and its evidence; what a row draws is left out.   *)
(***************************************************************************)
EXTENDS DesignGraph

CONSTANTS
  Tree,                 \* Tree[n]: the parent of node n at first
  Screens, Libraries, Decisions,   \* what the tree holds at first
  Flows,                \* and its flows, of which none is lost
  SlugRank,     \* SlugRank[n]: the place of the slug of node n among slugs
  Names,        \* Names[n]: what each field of the file of n names
  BackedBy,     \* BackedBy[s]: the nodes screen s names
  Steps,        \* Steps[f]: the screens flow f goes through
  Links,        \* Links[d]: what decision d supersedes and is superseded by
  Unprobed,     \* the budgets without a probe
  Exported,     \* the contract methods that are exported
  Life,         \* Life[n]: its lifecycle unless it is stale
  EdgeFiles,    \* the edges the app may write: [kind, from, to]
  HandWritten,  \* those only a hand edit writes
  MaxChanges    \* bound on what differs from the first tree

EdgeKinds == {"contains", "depends_on", "implements", "references_ui", "covers",
              "satisfies", "documents"}

(* An edge leads from a node, to a node or to a screen. *)
Fits(e) == /\ e.kind \in EdgeKinds /\ e.from \in Ids
           /\ e.to \in IF e.kind = "references_ui" THEN Screens ELSE Ids

(* A node keeps the fields it was written with, whatever its kind. *)
FieldNames ==
  [superseded_by : SUBSET Ids, decisions : SUBSET Decisions, exports : SUBSET Ids,
   allowed_libraries : SUBSET Libraries, registry_ref : SUBSET Libraries,
   anchor : SUBSET Ids, members : SUBSET Ids]

ASSUME LintAssumption ==
  /\ Tree \in [Ids -> Ids \cup {None}] /\ SlugRank \in [Ids -> Nat]
  /\ Names \in [Ids -> FieldNames]
  /\ \A e \in EdgeFiles \cup HandWritten : Fits(e)

VARIABLE g      \* the tree, as `load_project` reads it

EdgeType == [kind : EdgeKinds, from : Ids, to : Ids \cup Screens, live : BOOLEAN]
Trees ==
  [nodes : SUBSET Ids, parent : [Ids -> Ids \cup {None}],
   edges : SUBSET {e \in EdgeType : Fits(e)},
   refs : [Ids -> SUBSET Screens], stale : [Ids -> Ids \cup {None}],
   screens : SUBSET Screens, libraries : SUBSET Libraries,
   decisions : SUBSET Decisions]

TypeOK == g \in Trees

(* A superseded edge counts twice. *)
Changes(x) == Cardinality(x.edges) + Cardinality({e \in x.edges : ~e.live})
  + Cardinality(Ids \ x.nodes)
  + Cardinality({n \in x.nodes : x.parent[n] # Tree[n]})
  + Cardinality({n \in Ids : x.stale[n] # None})
  + Cardinality(Screens \ x.screens) + Cardinality(Libraries \ x.libraries)
  + Cardinality(Decisions \ x.decisions)

-----------------------------------------------------------------------------
(* L01: containment is a tree *)

Finding(rule, subject, about) == [rule |-> rule, subject |-> subject, about |-> about]

ContainsSources(x, n) == {e.from : e \in {d \in Live(x, "contains") : d.to = n}}
TwoParents(x) ==
  LET parents(n) == ({x.parent[n]} \ {None}) \cup ContainsSources(x, n)
  IN {Finding("L01", n, SetToSortSeq(parents(n), <)) :
        n \in {m \in x.nodes : Cardinality(parents(m)) >= 2}}

(* A node without a file is called by its UUID, which sorts before a slug. *)
Slug(x, n) == IF n \in x.nodes THEN Cardinality(Ids) + SlugRank[n] ELSE n

RotateToLowestSlug(x, cycle) ==
  LET lead == CHOOSE i \in DOMAIN cycle : \A j \in DOMAIN cycle :
                \/ Slug(x, cycle[i]) < Slug(x, cycle[j])
                \/ Slug(x, cycle[i]) = Slug(x, cycle[j]) /\ i <= j
  IN SubSeq(cycle, lead, Len(cycle)) \o SubSeq(cycle, 1, lead - 1)

(* Up the parents from each node, until a settled node or one on the path. *)
Chases == [todo : SUBSET Ids, settled : SUBSET Ids, cycles : SUBSET Seq(Ids)]
Reported(x, cycles, end) ==
  LET cycle == RotateToLowestSlug(x, From(end.chain, end.at))
  IN IF end.at \notin ToSet(end.chain) \/ \E c \in cycles : c[1] = cycle[1]
     THEN cycles ELSE cycles \cup {cycle}
Chase(x, w) ==
  LET n == Least(w.todo)
      end == Climb(Up(x), n, w.settled)
  IN [todo |-> w.todo \ {n}, settled |-> w.settled \cup ToSet(end.chain),
      cycles |-> Reported(x, w.cycles, end)]
ContainmentCycles(x) ==
  LET step == [w \in Chases |-> IF w.todo = {} THEN w ELSE Chase(x, w)]
  IN Loop(step)[[todo |-> x.nodes, settled |-> {}, cycles |-> {}]].cycles

ContainmentIsATree(x) ==
  TwoParents(x) \cup {Finding("L01", c[1], c) : c \in ContainmentCycles(x)}

-----------------------------------------------------------------------------
(* L02: dependency is acyclic *)

(* Kosaraju's first pass. *)
Finished(x) == DepthFirst(Depends(x), x.nodes, FALSE).order

(* A component holds a cycle if it is of several, or depends on itself. *)
HoldsCycle_Several(dep, component, n) == Cardinality(component) > 1
HoldsCycle(dep, component, n) == Cardinality(component) > 1 \/ n \in dep[n]

(* The second pass, from the end of the order and against the edges.  It    *)
(* takes in a source without a node.                                        *)
Takes(order) ==
  [k : 0..Len(order), assigned : SUBSET Ids, found : SUBSET SUBSET Ids]
Sources(dep) == [n \in Ids |-> {m \in Ids : n \in dep[m]}]
Taken_Forward(order, k) == order[Len(order) + 1 - k]
Taken(order, k) == order[k]
Take(dep, w, n) ==
  LET component == Gather(Sources(dep), {n}, w.assigned \cup {n}) \ w.assigned
  IN IF n \in w.assigned THEN [w EXCEPT !.k = @ - 1]
     ELSE [k |-> w.k - 1, assigned |-> w.assigned \cup component,
           found |-> IF HoldsCycle(dep, component, n)
                     THEN w.found \cup {component} ELSE w.found]
StronglyConnected(x) ==
  LET order == Finished(x)
      step == [w \in Takes(order) |->
        IF w.k = 0 THEN w ELSE Take(Depends(x), w, Taken(order, w.k))]
  IN Loop(step)[[k |-> Len(order), assigned |-> {}, found |-> {}]].found

(* Breadth first from `start`: `left` are the neighbours of `at` to look at, *)
(* `previous` where each node was met, `closing` the way back to the start.  *)
Searches ==
  [at : Ids, left : SUBSET Ids, queue : Seq(Ids),
   previous : [Ids -> Ids \cup {None}], closing : Ids \cup {None}]

(* `previous.insert` replaces the entry of a node that has one already. *)
Note(previous, next, at) == [previous EXCEPT ![next] = at]

Look(start, s) ==
  LET next == Least(s.left)
      rest == [s EXCEPT !.left = @ \ {next}]
  IN IF next = start THEN [rest EXCEPT !.closing = s.at]
     ELSE [rest EXCEPT !.previous = Note(@, next, s.at),
             !.queue = IF s.previous[next] = None THEN Append(@, next) ELSE @]

Search(dep, start) ==
  LET step == [s \in Searches |->
        IF s.closing # None THEN s
        ELSE IF s.left # {} THEN Look(start, s)
        ELSE IF s.queue = <<>> THEN s
        ELSE [s EXCEPT !.at = Head(s.queue), !.queue = Tail(@),
                       !.left = dep[Head(s.queue)]]]
  IN Loop(step)[[at |-> start, left |-> dep[start], queue |-> <<>>,
                 previous |-> [n \in Ids |-> None], closing |-> None]]

(* The path back to the start, which never ends if it meets itself. *)
Within(x, component) == [n \in Ids |-> Dependencies(x, n) \cap component]
ShortestCycle(x, component, start) ==
  LET search == Search(Within(x, component), start)
      back == Climb([search.previous EXCEPT ![start] = None], search.closing, {})
  IN IF start \in Dependencies(x, start) THEN [path |-> <<start>>, ends |-> TRUE]
     ELSE [path |-> Reverse(back.chain), ends |-> back.at = None]

Before(x, n, m) == Slug(x, n) < Slug(x, m) \/ (Slug(x, n) = Slug(x, m) /\ n <= m)
Lead(x, component) == CHOOSE n \in component : \A m \in component : Before(x, n, m)
Evidence(x) ==
  {ShortestCycle(x, c, Lead(x, c)) : c \in StronglyConnected(x)}

DependencyIsAcyclic(x) ==
  {Finding("L02", e.path[1], e.path) : e \in {f \in Evidence(x) : f.path # <<>>}}

(* The linter returns only if each of those searches does. *)
Returns(x) == \A e \in Evidence(x) : e.ends

-----------------------------------------------------------------------------
(* L03 to L09: the other errors *)

BudgetWithoutAProbe(x) ==
  {Finding("L03", n, None) : n \in NodesOfKind(x, "budget") \cap Unprobed}

(* What a field names and its store does not hold. *)
Missing(field, named, held) == {<<field, m>> : m \in named \ held}

LibraryAbsentFromRegistry(x) ==
  UNION {{Finding("L04", n, m) :
            m \in Missing("allowed_libraries", Names[n].allowed_libraries, x.libraries)} :
           n \in NodesOfKind(x, "module")}

LiveEdges(x) == {e \in x.edges : e.live}
AnnotationCarryingASemanticEdge(x) ==
  UNION {{Finding("L05", n, e) : n \in {e.from, e.to} \cap
               (NodesOfKind(x, "comment") \cup NodesOfKind(x, "group"))} :
           e \in LiveEdges(x)}

(* The references of the envelope, then those of the fields of the kind. *)
DanglingInEnvelope(x, n) ==
  Missing("parent", {x.parent[n]} \ {None}, x.nodes)
    \cup Missing("superseded_by", Names[n].superseded_by, x.nodes)
    \cup Missing("stale.source", {x.stale[n]} \ {None}, x.nodes)
    \cup Missing("decisions", Names[n].decisions, x.decisions)

DanglingInFields(x, n) ==
  CASE Kind[n] = "service" -> Missing("exports", Names[n].exports, x.nodes)
    [] Kind[n] = "module" -> Missing("ui_refs", x.refs[n], x.screens)
    [] Kind[n] = "external-dep" -> Missing("registry_ref", Names[n].registry_ref, x.libraries)
    [] Kind[n] = "comment" -> Missing("anchor", Names[n].anchor, x.nodes)
    [] Kind[n] = "group" -> Missing("members", Names[n].members, x.nodes)
    [] OTHER -> {}

DanglingInNodes(x) ==
  UNION {{Finding("L06", n, m) : m \in DanglingInEnvelope(x, n) \cup DanglingInFields(x, n)} :
           n \in x.nodes}

DanglingEnd(x, e) ==
  Missing("source", {e.from}, x.nodes)
    \cup Missing("target", {e.to}, IF e.kind = "references_ui" THEN x.screens ELSE x.nodes)
DanglingEnds(x) ==
  UNION {{Finding("L06", e.from, m) : m \in DanglingEnd(x, e)} : e \in LiveEdges(x)}

DanglingInScreens(x) ==
  UNION {{Finding("L06", s, m) : m \in Missing("backed_by", BackedBy[s], x.nodes)} :
           s \in x.screens}
DanglingInFlows(x) ==
  UNION {{Finding("L06", f, m) : m \in Missing("steps", Steps[f], x.screens)} : f \in Flows}
DanglingInDecision(x, d) ==
  Missing("supersedes", Links[d].supersedes, x.decisions)
    \cup Missing("superseded_by", Links[d].superseded_by, x.decisions)
DanglingInDecisions(x) ==
  UNION {{Finding("L06", d, m) : m \in DanglingInDecision(x, d)} : d \in x.decisions}

DanglingReference(x) ==
  DanglingInNodes(x) \cup DanglingEnds(x) \cup DanglingInScreens(x)
    \cup DanglingInFlows(x) \cup DanglingInDecisions(x)

InterfaceEdges(x, n) == {e.to : e \in {d \in Live(x, "references_ui") : d.from = n}}
UiRefsCacheMismatch(x) ==
  {Finding("L08", n, None) :
     n \in {m \in NodesOfKind(x, "module") : x.refs[m] # InterfaceEdges(x, m)}}

OwningService(x, n) == NearestOf(x, n, "service")
CrossServiceCall(x) ==
  {Finding("L09", e.to, e) : e \in {d \in Live(x, "depends_on") \cup Live(x, "implements") :
     /\ d.to \in NodesOfKind(x, "contract-method") \ Exported
     /\ OwningService(x, d.from) # OwningService(x, d.to)}}

(* The Schematic a row opens: a facet's module, else the nearest service    *)
(* above; None is the Stack.                                               *)
Facet(n) == Kind[n] \notin {"service", "module"}
Location(x, n) ==
  IF n \notin x.nodes \/ Kind[n] = "service" THEN None
  ELSE IF Facet(n) /\ ModuleRoot(x, n) # None THEN ModuleRoot(x, n)
  ELSE OwningService(x, n)

(* L07 is about decisions alone, see DesignStore. *)
NoErrors(x) ==
  /\ ContainmentIsATree(x) = {} /\ DependencyIsAcyclic(x) = {}
  /\ BudgetWithoutAProbe(x) = {} /\ LibraryAbsentFromRegistry(x) = {}
  /\ AnnotationCarryingASemanticEdge(x) = {} /\ DanglingReference(x) = {}
  /\ UiRefsCacheMismatch(x) = {} /\ CrossServiceCall(x) = {}

-----------------------------------------------------------------------------
(* L10 to L13: the warnings *)

(* Nothing is reported when the consumers share only the project root. *)
SharedNodeAboveTheLca(x) ==
  {Finding("L10", n, SharedNodeParent(x, n)) : n \in {m \in x.nodes :
     /\ IsShared(x, m)
     /\ SharedNodeParent(x, m) \notin {None, x.parent[m]}
     /\ \/ x.parent[m] = None
        \/ x.parent[m] \in ToSet(Ancestors(x, SharedNodeParent(x, m)))}}

ContractMethodWithoutCovers(x) ==
  {Finding("L11", n, None) : n \in {m \in NodesOfKind(x, "contract-method") :
     /\ \E t \in NodesOfKind(x, "test-case") :
          x.parent[t] # None /\ x.parent[t] = ModuleRoot(x, m)
     /\ \A e \in Live(x, "covers") : e.to # m}}

LifeOf(x, n) == IF x.stale[n] = None THEN Life[n] ELSE "stale"
ReferenceToADeprecatedNode(x) ==
  {Finding("L12", e.from, e) : e \in {d \in LiveEdges(x) :
     /\ d.from \in x.nodes /\ LifeOf(x, d.from) \notin {"deprecated", "stale"}
     /\ d.kind # "references_ui" /\ d.to \in x.nodes /\ LifeOf(x, d.to) = "deprecated"}}

ScreenWithoutABackingModule(x) ==
  {Finding("L13", s, None) :
     s \in {t \in x.screens : \A e \in Live(x, "references_ui") : e.to # t}}

-----------------------------------------------------------------------------
(* The loader's report *)

(* What refers is quarantined: a node, or an edge even when superseded.    *)
(* The fields of a node are read by their names, whatever its kind.        *)
EnvelopeProblems_NoSuccessor(x, n) ==
  Missing("parent", {x.parent[n]} \ {None}, x.nodes)
    \cup Missing("decisions", Names[n].decisions, x.decisions)
EnvelopeProblems(x, n) ==
  Missing("parent", {x.parent[n]} \ {None}, x.nodes)
    \cup Missing("superseded_by", Names[n].superseded_by, x.nodes)
    \cup Missing("decisions", Names[n].decisions, x.decisions)

FieldProblems(x, n) ==
  LET named == Names[n]
  IN Missing("allowed_libraries", named.allowed_libraries, x.libraries)
       \cup Missing("ui_refs", x.refs[n], x.screens)
       \cup Missing("exports", named.exports, x.nodes)
       \cup Missing("registry_ref", named.registry_ref, x.libraries)
       \cup Missing("anchor", named.anchor, x.nodes)
       \cup Missing("members", named.members, x.nodes)

EndpointStore(x, kind, field) ==
  IF kind = "references_ui" /\ field = "target" THEN x.screens ELSE x.nodes
EdgeProblems(x, e) ==
  Missing("source", {e.from}, EndpointStore(x, e.kind, "source"))
    \cup Missing("target", {e.to}, EndpointStore(x, e.kind, "target"))

Quarantine(owner, edge, missing) == [owner |-> owner, edge |-> edge, missing |-> missing]
NodesQuarantined(x) ==
  UNION {{Quarantine(n, {}, m) : m \in EnvelopeProblems(x, n) \cup FieldProblems(x, n)} :
           n \in x.nodes}
EdgesQuarantined(x) ==
  UNION {{Quarantine(e.from, {e}, m) : m \in EdgeProblems(x, e)} : e \in x.edges}
SuccessionProblems(x, d) ==
  UNION {Missing(field, Links[d][field], x.decisions) :
           field \in {"supersedes", "superseded_by"}}
ScreensQuarantined(x) ==
  UNION {{Quarantine(s, {}, m) : m \in Missing("backed_by", BackedBy[s], x.nodes)} :
           s \in x.screens}
FlowsQuarantined(x) ==
  UNION {{Quarantine(f, {}, m) : m \in Missing("steps", Steps[f], x.screens)} : f \in Flows}
DecisionsQuarantined(x) ==
  UNION {{Quarantine(d, {}, m) : m \in SuccessionProblems(x, d)} : d \in x.decisions}
ResolveReferences(x) ==
  NodesQuarantined(x) \cup EdgesQuarantined(x) \cup ScreensQuarantined(x)
    \cup FlowsQuarantined(x) \cup DecisionsQuarantined(x)

SlugScope(x, n) ==
  LET anchor == IF Facet(n) /\ x.parent[n] # None THEN ModuleRoot(x, x.parent[n])
                ELSE x.parent[n]
  IN IF Kind[n] = "service" \/ anchor = None THEN <<"project", None>>
     ELSE <<IF Kind[n] \in {"module", "group"} THEN "parent" ELSE "module", anchor>>

(* Claimed in the order of identifiers: the first keeps the slug. *)
SlugCollisions(x) ==
  {n \in x.nodes : \E m \in x.nodes :
     m < n /\ SlugRank[m] = SlugRank[n] /\ SlugScope(x, m) = SlugScope(x, n)}

-----------------------------------------------------------------------------
(* What changes the tree *)

Init ==
  g = [nodes |-> Ids, parent |-> Tree, edges |-> {},
       refs |-> [n \in Ids |-> {}], stale |-> [n \in Ids |-> None],
       screens |-> Screens, libraries |-> Libraries, decisions |-> Decisions]

(* `write_node`, with a parent, which the app does not check. *)
WriteNode(n, p) ==
  g' = [g EXCEPT !.nodes = @ \cup {n}, !.parent[n] = p]

(* `stale_cascade` of a write that changes the contract of n: the accepted *)
(* nodes that depend on it, or for a facet on its module, are marked with  *)
(* the node whose contract it is, until each is reviewed again.            *)
OwnerOf(n) == IF Facet(n) /\ g.parent[n] # None THEN g.parent[n] ELSE n
Dropped(n) ==
  {m \in g.nodes \cap UNION {Dependents(g, o) : o \in {n, OwnerOf(n)}} :
     LifeOf(g, m) = "accepted"}
ChangeContract(n) ==
  /\ n \in NodesOfKind(g, "service") \cup NodesOfKind(g, "contract-method")
  /\ Dropped(n) # {}
  /\ g' = [g EXCEPT !.stale = [m \in Ids |-> IF m \in Dropped(n) THEN OwnerOf(n) ELSE g.stale[m]]]
Review(n) == g.stale[n] # None /\ g' = [g EXCEPT !.stale[n] = None]

(* `sync_ui_refs`: the cache of the source is written anew. *)
Synced(x, e) ==
  IF e.kind = "references_ui" /\ e.from \in NodesOfKind(x, "module")
  THEN [x EXCEPT !.refs[e.from] = InterfaceEdges(x, e.from)] ELSE x

EdgeFile(e, live) == [kind |-> e.kind, from |-> e.from, to |-> e.to, live |-> live]

WriteEdge(e) ==
  /\ EdgeFile(e, FALSE) \notin g.edges
  /\ g' = Synced([g EXCEPT !.edges = @ \cup {EdgeFile(e, TRUE)}], e)

(* The file again, naming the edge that supersedes it. *)
SupersedeEdge(e) ==
  /\ EdgeFile(e, TRUE) \in g.edges
  /\ g' = Synced([g EXCEPT !.edges = (@ \ {EdgeFile(e, TRUE)})
                                       \cup {EdgeFile(e, FALSE)}], e)

(* A hand edit or a merge brings an edge file, or takes a file away. *)
MergeEdge(e) == g' = [g EXCEPT !.edges = @ \cup {EdgeFile(e, TRUE)}]
LoseNode(n) ==
  /\ n \in g.nodes
  /\ g' = [g EXCEPT !.nodes = @ \ {n}, !.parent[n] = None, !.refs[n] = {},
                 !.stale[n] = None]
LoseScreen(s) == s \in g.screens /\ g' = [g EXCEPT !.screens = @ \ {s}]
LoseLibrary(l) == l \in g.libraries /\ g' = [g EXCEPT !.libraries = @ \ {l}]
LoseDecision(d) == d \in g.decisions /\ g' = [g EXCEPT !.decisions = @ \ {d}]

Change ==
  \/ \E n \in Ids, p \in Ids \cup {None} : WriteNode(n, p)
  \/ \E n \in Ids : ChangeContract(n)
  \/ \E n \in Ids : Review(n)
  \/ \E e \in EdgeFiles : WriteEdge(e)
  \/ \E e \in EdgeFiles : SupersedeEdge(e)
  \/ \E e \in HandWritten : MergeEdge(e)
  \/ \E n \in Ids : LoseNode(n)
  \/ \E s \in Screens : LoseScreen(s)
  \/ \E l \in Libraries : LoseLibrary(l)
  \/ \E d \in Decisions : LoseDecision(d)

Next == Change /\ Changes(g') <= MaxChanges

Spec == Init /\ [][Next]_g

-----------------------------------------------------------------------------
(* Properties *)

(* What `step` leads to from each node: the least set closed under it. *)
Closure(step) ==
  LET closed == {S \in SUBSET Ids : \A n \in S : step[n] \subseteq S}
  IN [n \in Ids |-> {m \in Ids : \A S \in closed : step[n] \subseteq S => m \in S}]
Above(x) == Closure([n \in Ids |-> {ParentOf(x, n)} \ {None}])
Reach(x) == Closure(Depends(x))

(* The walks down and the walks up agree, whatever cycles and gaps the      *)
(* parents hold: what is below a node has that node above it, and the       *)
(* modules a Service Schematic draws (`modules_of_service`) are those whose *)
(* nearest service that is (`owning_service`).  A row of the panel opens a  *)
(* Schematic that holds its subject.                                        *)
WalksAgree ==
  /\ \A a \in Ids : \A n \in g.nodes \ {a} :
       (n \in Descendants(g, a)) <=> (a \in ToSet(Ancestors(g, n)))
  /\ \A s \in NodesOfKind(g, "service"), m \in NodesOfKind(g, "module") :
       (m \in ModulesOfService(g, s)) <=> (OwningService(g, m) = s)
  /\ \A n \in g.nodes : Location(g, n) # None =>
       n \in Descendants(g, Location(g, n)) \cup NodesOfKind(g, "module")

(* `shared_node_parent` is above every consumer and nothing else that is    *)
(* above them all is below it; and whoever follows rule L10's advice, where *)
(* it can be followed, is not advised again.                                *)
SharedAtTheLca ==
  \A n \in {m \in g.nodes : IsShared(g, m)} :
    LET consumers == Dependents(g, n)
        above == {c \in Ids \ consumers :
                    \A d \in consumers : c = d \/ c \in ToSet(Ancestors(g, d))}
        advised == SharedNodeParent(g, n)
    IN /\ IF above = {} THEN advised = None
          ELSE /\ advised \in above
               /\ above \ {advised} \subseteq ToSet(Ancestors(g, advised))
       /\ (/\ Finding("L10", n, advised) \in SharedNodeAboveTheLca(g)
           /\ advised \notin Descendants(g, n) \cup {n})
          => \A f \in SharedNodeAboveTheLca([g EXCEPT !.parent[n] = advised]) :
               f.subject # n

(* Every cycle is reported once.  A containment cycle is one L01 finding    *)
(* that goes through all of it.  Each node on a dependency cycle is in      *)
(* exactly one L02 finding's component, whose evidence is a cycle of        *)
(* dependencies; and `dependency_cycle` finds one whenever a node leads to  *)
(* one.  This needs every dependency to come from a node and the search for *)
(* the evidence to end (see LintReturns).                                   *)
CyclesAreReported ==
  LET above == Above(g)
      reach == Reach(g)
      looped == {n \in Ids : n \in reach[n]}
      found == DependencyIsAcyclic(g)
      first == DependencyCycle(g)
      IsCycle(path) == /\ IsInjective(path)
                       /\ \A i \in DOMAIN path :
                            path[(i % Len(path)) + 1] \in Dependencies(g, path[i])
  IN /\ \A n \in g.nodes : n \in above[n] =>
          Cardinality({c \in ContainmentCycles(g) : n \in ToSet(c)}) = 1
     /\ \A c \in ContainmentCycles(g) : \A n \in ToSet(c) : n \in above[n]
     /\ (first # NoCycle) <=>
          (\E n \in g.nodes : \E m \in looped : n = m \/ m \in reach[n])
     /\ IsCycle(first)
     /\ (/\ Returns(g) /\ \A e \in Live(g, "depends_on") : e.from \in g.nodes)
        => /\ \A f \in found : IsCycle(f.about)
           /\ \A n \in looped :
                Cardinality({f \in found : f.subject \in reach[n] /\ n \in reach[f.subject]}) = 1

(* The loader finds a field by its name, the linter by the kind of its     *)
(* node: a field left over from another kind has a quarantine and no row.  *)
KindOf ==
  [exports |-> "service", allowed_libraries |-> "module", ui_refs |-> "module",
   registry_ref |-> "external-dep", anchor |-> "comment", members |-> "group"]
OfItsKind(q) ==
  q.missing[1] \in DOMAIN KindOf => Kind[q.owner] = KindOf[q.missing[1]]

(* What a tree without errors promises: the loader quarantines nothing that *)
(* is live and of its kind and the source of each stale mark is there,      *)
(* containment is a forest, dependency is an order, each module is drawn by *)
(* one service at most, and each cache of screens is exact.                 *)
CleanMeansSound ==
  (Returns(g) /\ NoErrors(g)) =>
    /\ \A q \in ResolveReferences(g) : OfItsKind(q) => \E e \in q.edge : ~e.live
    /\ \A n \in g.nodes : g.stale[n] \in g.nodes \cup {None}
    /\ \A n \in Ids : n \notin Above(g)[n] /\ n \notin Reach(g)[n]
    /\ \A n \in g.nodes, e \in Live(g, "contains") : e.to = n =>
         g.parent[n] \in {None, e.from}
    /\ \A m \in NodesOfKind(g, "module") :
         /\ g.refs[m] = {s \in g.screens : EdgeFile([kind |-> "references_ui",
                                        from |-> m, to |-> s], TRUE) \in g.edges}
         /\ Cardinality({s \in NodesOfKind(g, "service") :
                           m \in ModulesOfService(g, s)}) <= 1

(* The loader and the linter, which keep a list of references each, agree   *)
(* on what dangles: whatever is live, of its kind and quarantined has an    *)
(* L04 or L06 row for the same field and reference, and each row has its    *)
(* quarantine but for the source of a stale mark.                           *)
Rows(x) == {<<f.subject, f.about>> : f \in LibraryAbsentFromRegistry(x) \cup DanglingReference(x)}
Quarantined(Q) == {<<q.owner, q.missing>> : q \in Q}

QuarantineIsLinted ==
  Quarantined({q \in ResolveReferences(g) : OfItsKind(q) /\ \A e \in q.edge : e.live})
    = {r \in Rows(g) : r[2][1] # "stale.source"}

(* "Resolve every stored reference, quarantining what does not land"        *)
(* (`resolve_references`): whatever the linter sees dangle is quarantined.  *)
EveryRowQuarantined == Rows(g) \subseteq Quarantined(ResolveReferences(g))

(* The linter returns from every tree it is given: `shortest_cycle` finds   *)
(* its way back to the start of the cycle.                                  *)
LintReturns == Returns(g)
=============================================================================
