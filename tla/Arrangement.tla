----------------------------- MODULE Arrangement -----------------------------
(* One cluster of a window: its pane tree, the surfaces drawn in it, and the      *)
(* presets saved from it and laid over it (shell_state.rs, commands.rs and        *)
(* presets/mod.rs). Commands run one after another on the main thread;            *)
(* project::open lays its preset out from a worker, one mutation at a time.       *)
EXTENDS Presets, Functions

CONSTANTS
    Takeover,           \* is_takeover_app: the apps that cover a cluster
    Builtins,           \* builtins(): preset records with ids no user preset has
    ProjectOpenPreset,  \* the id of the one project::open lays out
    Starts,             \* the trees and presets.json there may be at launch, each with
                        \* the number of commands it is left
    Names,              \* what may be typed as a name: [key, slug] records
    Drags,              \* the weights a drag of a divider may report
    BareEdgeDrops,      \* whether a tab may be dropped on the edge of a pane that
                        \* holds nothing else (the drop prunes that pane first)
    MaxSaves            \* bound: how many commands are saves

Main == "main"
Worker == "worker"
Appliers == {Main, Worker}

Idle == [gaps |-> <<>>, landed |-> None, root |-> None]

VARIABLES
    tree,       \* the cluster's layout
    live,       \* the instances and terminals there are
    born,       \* the last ordinal minted for each kind
    nextPane, nextSplit,
    library,    \* presets.json
    apply,      \* for each applier: the gaps to fill, the surface opened for a
                \* gap and not yet moved to its index, and the preset it lays out
                \* (None once anyone else has touched the cluster)
    unfilled,   \* the panes whose gap was given up
    ops, saves  \* commands left, and saves made

vars == <<tree, live, born, nextPane, nextSplit, library, apply, unfilled, ops, saves>>

Kinds == AppIds \cup {"terminal"}
IsTakeover(s) == s[1] \in Takeover
TakeoversIn(n, pane) == SelectSeq(LeafOf(n, pane).tabs, IsTakeover)

Busy(w) == apply[w].gaps # <<>> \/ apply[w].landed # None

\* a command of the main thread, which waits for the one before
Command ==
    /\ ~Busy(Main)
    /\ ops > 0
    /\ ops' = ops - 1

Touched == apply' = [w \in Appliers |-> [apply[w] EXCEPT !.root = None]]
Minted(n) == nextPane' = nextPane + n /\ nextSplit' = nextSplit + n

-----------------------------------------------------------------------------
(* The one door into a pane.                                                   *)

\* dismiss_takeover: the pane without its first takeover, left standing if empty
dismissed(n, pane) ==
    IF TakeoversIn(n, pane) = <<>> THEN n ELSE remove_tab_unpruned(n, Head(TakeoversIn(n, pane)))

place_surface_Pruned(n, s, pane, index, split) ==
    LET target == IF pane # None /\ holds_pane(n, pane) THEN pane ELSE first_pane_id(n)
        out == remove_tab_unpruned(n, s)
        clear == IF IsTakeover(s) THEN out ELSE dismissed(out, target)
    IN  prune(open_into(clear, target, s, index, split))

place_surface_Unpruned(n, s, pane, index, split) ==
    LET target == IF pane # None /\ holds_pane(n, pane) THEN pane ELSE first_pane_id(n)
        out == remove_tab_unpruned(n, s)
        clear == IF IsTakeover(s) THEN out ELSE dismissed(out, target)
    IN  open_into(clear, target, s, index, split)

\* pruned only for a surface that left another pane: a preset's empty panes stay
place_surface(n, s, pane, index, split) ==
    LET target == IF pane # None /\ holds_pane(n, pane) THEN pane ELSE first_pane_id(n)
        out == remove_tab_unpruned(n, s)
        clear == IF IsTakeover(s) THEN out ELSE dismissed(out, target)
        placed == open_into(clear, target, s, index, split)
    IN  IF HolderOf(n, s) # {} THEN prune(placed) ELSE placed

\* what a takeover closed on the way takes with it
Drawn(n) == ToSet(tabs_of(n))
Swept_away(n, m) == {s \in Drawn(n) \ Drawn(m) : IsTakeover(s)}

\* open_instance, add_terminal_in_pane
Opened(kind, pane, index, split) ==
    LET s == <<kind, born[kind] + 1>>
    IN  /\ tree' = place_surface(tree, s, pane, index, split)
        /\ born' = [born EXCEPT ![kind] = @ + 1]
        /\ live' = (live \cup {s}) \ Swept_away(tree, tree')

-----------------------------------------------------------------------------
(* Commands.                                                                   *)

Open(kind, pane, dir) ==
    /\ Command
    /\ Opened(kind, pane, None,
              IF dir = None THEN None ELSE [dir |-> dir, id |-> nextSplit, fresh |-> nextPane])
    /\ Minted(IF dir = None THEN 0 ELSE 1)
    /\ Touched
    /\ UNCHANGED <<library, unfilled, saves>>

\* close_instance, close_terminal
CloseTab(s) ==
    /\ Command
    /\ s \in live
    /\ tree' = remove_tab(tree, s)
    /\ live' = live \ {s}
    /\ Touched
    /\ UNCHANGED <<born, nextPane, nextSplit, library, unfilled, saves>>

activate_instance(s) ==
    /\ Command
    /\ s \in Drawn(tree)
    /\ tree' = activate_tab(tree, s)
    /\ Touched
    /\ UNCHANGED <<live, born, nextPane, nextSplit, library, unfilled, saves>>

\* a pane that is not there leaves the tab where it was
Moved(s, pane, index) ==
    IF holds_pane(tree, pane)
    THEN /\ tree' = place_surface(tree, s, pane, index, None)
         /\ live' = live \ Swept_away(tree, tree')
    ELSE UNCHANGED <<tree, live>>

move_instance(s, pane, index) ==
    /\ Command
    /\ s \in Drawn(tree)
    /\ Moved(s, pane, index)
    /\ Touched
    /\ UNCHANGED <<born, nextPane, nextSplit, library, unfilled, saves>>

split_with_instance(s, pane, dir, before) ==
    /\ Command
    /\ s \in Drawn(tree)
    /\ holds_pane(tree, pane)
    /\ BareEdgeDrops \/ ~(ToSet(LeafOf(tree, pane).tabs) \subseteq {s})
    /\ tree' = split_pane(remove_tab(tree, s), pane, dir, nextSplit, nextPane, s, before)
    /\ Minted(1)
    /\ Touched
    /\ UNCHANGED <<live, born, library, unfilled, saves>>

set_pane_sizes(split, next) ==
    /\ Command
    /\ tree' = set_sizes(tree, split, next)
    /\ Touched
    /\ UNCHANGED <<live, born, nextPane, nextSplit, library, unfilled, saves>>

-----------------------------------------------------------------------------
(* The library.                                                                *)

Taken(lib) == {lib[i].id : i \in DOMAIN lib}

\* the slug, or the slug with the first number from 2 on that is free
mint_id(slug, taken) ==
    <<slug, CHOOSE n \in 1..(Cardinality(taken) + 1) :
                /\ <<slug, n>> \notin taken
                /\ \A m \in 1..(n - 1) : <<slug, m>> \in taken>>

Saved(lib, name, root) ==
    LET at == SelectInSeq(lib, LAMBDA p : p.name = name.key)
    IN  IF at = 0 THEN Append(lib, [id |-> mint_id(name.slug, Taken(lib)), name |-> name.key, root |-> root])
        ELSE [lib EXCEPT ![at].root = root]

\* merge: the built-ins, then what the file holds under an id and a name of its own
merge(lib) ==
    FoldLeft(LAMBDA out, p :
                IF \E i \in DOMAIN out : out[i].id = p.id \/ out[i].name = p.name THEN out
                ELSE Append(out, [p EXCEPT !.root = normalized(p.root, 0)]),
             Builtins, lib)

find(id) ==
    LET all == merge(library)
        at == SelectInSeq(all, LAMBDA p : p.id = id)
    IN  IF at = 0 THEN None ELSE all[at]

save_preset(name) ==
    /\ Command
    /\ saves < MaxSaves
    /\ saves' = saves + 1
    /\ library' = IF \E i \in DOMAIN Builtins : Builtins[i].name = name.key THEN library
                  ELSE Saved(library, name, capture(tree))
    /\ UNCHANGED <<tree, live, born, nextPane, nextSplit, apply, unfilled>>

-----------------------------------------------------------------------------
(* Laying a preset out: the tree at once, its gaps one after another.           *)

\* dismiss_crowded_takeover: no pane shows a takeover and something else
RECURSIVE uncrowded(_, _)
uncrowded(n, panes) ==
    IF panes = <<>> THEN n
    ELSE uncrowded(IF Len(LeafOf(n, Head(panes)).tabs) > 1 THEN dismissed(n, Head(panes)) ELSE n, Tail(panes))

Ids(root) ==
    [panes |-> [i \in 1..panes_in(root) |-> nextPane + i - 1],
     splits |-> [i \in 1..split_count(root) |-> nextSplit + i - 1]]

rearrange(w, root) ==
    LET p == plan(root, tabs_of(tree), Ids(root))
    IN  /\ tree' = uncrowded(p.tree, leaf_ids(p.tree))
        /\ live' = live \ Swept_away(tree, tree')
        /\ nextPane' = nextPane + panes_in(root)
        /\ nextSplit' = nextSplit + split_count(root)
        /\ apply' = [v \in Appliers |-> IF v = w THEN [gaps |-> p.gaps, landed |-> None, root |-> root]
                                        ELSE [apply[v] EXCEPT !.root = None]]

apply_preset(id) ==
    /\ Command
    /\ find(id) # None
    /\ rearrange(Main, find(id).root)
    /\ UNCHANGED <<born, library, unfilled, saves>>

apply_project_open_preset ==
    /\ ~Busy(Worker)
    /\ ops > 0
    /\ ops' = ops - 1
    /\ rearrange(Worker, find(ProjectOpenPreset).root)
    /\ UNCHANGED <<born, library, unfilled, saves>>

\* an app with an index is opened at the end and moved to it, in two mutations; a
\* terminal is opened at it
fill_preset_gaps(w) ==
    LET gap == Head(apply[w].gaps)
        again == gap.slot # "terminal" /\ gap.index # None
    IN  /\ apply[w].gaps # <<>>
        /\ apply[w].landed = None
        /\ Opened(gap.slot, gap.pane, IF again THEN None ELSE gap.index, None)
        /\ apply' = [v \in Appliers |->
                       IF v # w THEN [apply[v] EXCEPT !.root = None]
                       ELSE [apply[w] EXCEPT !.gaps = Tail(@),
                                 !.landed = IF again THEN [surface |-> <<gap.slot, born[gap.slot] + 1>>,
                                                           pane |-> gap.pane, index |-> gap.index]
                                            ELSE None]]
        /\ UNCHANGED <<nextPane, nextSplit, library, unfilled, ops, saves>>

Land(w) ==
    LET l == apply[w].landed
    IN  /\ l # None
        /\ IF l.surface \in Drawn(tree) THEN Moved(l.surface, l.pane, l.index)
           ELSE UNCHANGED <<tree, live>>
        /\ apply' = [v \in Appliers |-> IF v = w THEN [apply[w] EXCEPT !.landed = None]
                                        ELSE [apply[v] EXCEPT !.root = None]]
        /\ UNCHANGED <<born, nextPane, nextSplit, library, unfilled, ops, saves>>

\* a shell that does not start is skipped
SkipGap(w) ==
    /\ apply[w].gaps # <<>>
    /\ apply[w].landed = None
    /\ Head(apply[w].gaps).slot = "terminal"
    /\ unfilled' = unfilled \cup {Head(apply[w].gaps).pane}
    /\ apply' = [apply EXCEPT ![w].gaps = Tail(@), ![w].root = None]
    /\ UNCHANGED <<tree, live, born, nextPane, nextSplit, library, ops, saves>>

-----------------------------------------------------------------------------

Init ==
    /\ \E start \in Starts : tree = start.tree /\ library = start.library /\ ops = start.ops
    /\ live = Drawn(tree)
    /\ born = [k \in Kinds |-> Cardinality({s \in live : s[1] = k})]
    /\ nextPane = 1 + Cardinality(ToSet(leaf_ids(tree)))
    /\ nextSplit = 1 + Cardinality(Splits(tree))
    /\ apply = [w \in Appliers |-> Idle]
    /\ unfilled = {}
    /\ saves = 0

Next ==
    \/ \E kind \in Kinds, pane \in ToSet(leaf_ids(tree)) \cup {None}, dir \in SplitDir \cup {None} :
          Open(kind, pane, dir)
    \/ \E s \in live : CloseTab(s) \/ activate_instance(s)
    \/ \E s \in live, pane \in ToSet(leaf_ids(tree)), index \in {0, None} : move_instance(s, pane, index)
    \/ \E s \in live, pane \in ToSet(leaf_ids(tree)), dir \in SplitDir, before \in BOOLEAN :
          split_with_instance(s, pane, dir, before)
    \/ \E s \in Splits(tree), next \in Drags : set_pane_sizes(s.id, next)
    \/ \E name \in Names : save_preset(name)
    \/ \E p \in ToSet(merge(library)) : apply_preset(p.id)
    \/ apply_project_open_preset
    \/ \E w \in Appliers : fill_preset_gaps(w) \/ Land(w) \/ SkipGap(w)

Spec == Init /\ [][Next]_vars

-----------------------------------------------------------------------------
(* Properties.                                                                 *)

\* Every surface there is is drawn by exactly one tab, and every tab is of a
\* surface there is: nothing a drag, a dismissal or a preset does loses one or
\* draws it twice (plan: "nothing is ever closed").
EachDrawnOnce ==
    /\ IsInjective(tabs_of(tree))
    /\ ToSet(tabs_of(tree)) = live

\* A tree stays drawable: ids are unique, a pane shows a tab of its own, a split
\* has a share above the floor for each of its two or more children.
TreeStands ==
    /\ IsInjective(leaf_ids(tree))
    /\ \A l \in ToSet(Leaves(tree)) : IF l.tabs = <<>> THEN l.active = None ELSE l.active \in ToSet(l.tabs)
    /\ \A s \in Splits(tree) :
          /\ Len(s.kids) >= 2
          /\ Len(s.sizes) = Len(s.kids)
          /\ Len(s.kids) < MinParts =>
                \A i \in DOMAIN s.sizes : MinParts * s.sizes[i] >= Total(s.sizes)

\* An empty pane of a split is one a preset reserved: its gap is still to be
\* filled, or its shell did not start. No gesture leaves a hole on the screen.
EmptyPanesAwaited ==
    \A l \in ToSet(Leaves(tree)) :
        \/ l.tabs # <<>>
        \/ tree = l
        \/ l.id \in unfilled
        \/ \E w \in Appliers : \E i \in DOMAIN apply[w].gaps : apply[w].gaps[i].pane = l.id

Finished(w) == apply[w].root # None /\ ~Busy(w)
Stacked(root) == \E i \in DOMAIN PanesOf(root) : Len(PanesOf(root)[i].slots) > 1
Plain(root) == ToSet(SlotsOf(root)) \cap Takeover = {}

RECURSIVE SameShape(_, _)
SameShape(n, p) ==
    IF IsPane(p) THEN IsLeaf(n)
    ELSE /\ ~IsLeaf(n)
         /\ n.dir = p.dir /\ n.sizes = p.sizes /\ Len(n.kids) = Len(p.kids)
         /\ \A i \in DOMAIN p.kids : SameShape(n.kids[i], p.kids[i])

KindsIn(tabs) == [i \in DOMAIN tabs |-> tabs[i][1]]
Count(seq, x) == Cardinality({i \in DOMAIN seq : seq[i] = x})

Realised(root) ==
    /\ SameShape(tree, root)
    /\ \A i \in DOMAIN PanesOf(root) :
          LET want == PanesOf(root)[i].slots
              have == KindsIn(Leaves(tree)[i].tabs)
          IN  IF i < panes_in(root) THEN have = want
              ELSE \A k \in ToSet(want) : Count(have, k) >= Count(want, k)

\* A preset of one surface a pane, laid out with nothing else happening, is what
\* the cluster shows when its last gap is filled: its shape, each pane with what
\* its slot asked for, and what it did not mention in the last pane only.
PresetRealised ==
    \A w \in Appliers :
        Finished(w) /\ Plain(apply[w].root) /\ ~Stacked(apply[w].root) => Realised(apply[w].root)

\* The same of every preset, those that stack surfaces in a pane included: each
\* gap's surface lands in the pane the apply reserved for it (Gap::pane_id).
GapsLandWhereReserved ==
    \A w \in Appliers : Finished(w) /\ Plain(apply[w].root) => Realised(apply[w].root)

\* The arrangement on the screen, saved and laid out at once, moves nothing and
\* asks for nothing: every pane that showed something shows it again.
RestoredAsSaved ==
    LET p == plan(capture(tree), tabs_of(tree), Ids(capture(tree)))
        shown(n) == SelectSeq([i \in DOMAIN Leaves(n) |-> Leaves(n)[i].tabs], LAMBDA t : t # <<>>)
    IN  p.gaps = <<>> /\ shown(p.tree) = shown(tree)

\* Every preset saved under a name is listed under it, and applying it by its id
\* finds that one: no two saved names share an id.
SavedIsListed ==
    \A i \in DOMAIN library :
        library[i].name \in {name.key : name \in Names} \ {Builtins[j].name : j \in DOMAIN Builtins} =>
            find(library[i].id) # None /\ find(library[i].id).name = library[i].name

\* The part of the cluster a pane has, as a fraction.
RECURSIVE Area(_, _)
Area(n, pane) ==
    IF IsLeaf(n) THEN <<1, 1>>
    ELSE LET i == CHOOSE j \in DOMAIN n.kids : Contains(leaf_ids(n.kids[j]), pane)
             rest == Area(n.kids[i], pane)
         IN  <<n.sizes[i] * rest[1], Total(n.sizes) * rest[2]>>

\* the panes of the smallest split that holds the pane
Beside(n, pane) ==
    LET around == {s \in Splits(n) : Contains(leaf_ids(s), pane)}
    IN  ToSet(leaf_ids(CHOOSE s \in around : \A t \in around : Len(leaf_ids(s)) <= Len(leaf_ids(t))))

AboveFloor(n) ==
    \A s \in Splits(n) : \A i \in DOMAIN s.sizes :
        MinParts * s.sizes[i] > Total(s.sizes)

\* A pane that goes gives its room to the panes it shared a split with, in
\* proportion, and no other pane changes size (unless one is held at the floor).
NeighboursGrow ==
    [][LET stay == ToSet(leaf_ids(tree'))
           gone == ToSet(leaf_ids(tree)) \ stay
       IN  stay \subseteq ToSet(leaf_ids(tree)) /\ Cardinality(gone) = 1 /\ AboveFloor(tree') =>
             \A z \in gone :
                /\ \A p \in stay \ Beside(tree, z) :
                     Area(tree', p)[1] * Area(tree, p)[2] = Area(tree, p)[1] * Area(tree', p)[2]
                /\ \A p, q \in stay \cap Beside(tree, z) :
                     LET a == Area(tree, p) b == Area(tree, q) c == Area(tree', p) d == Area(tree', q)
                     IN  a[1] * b[2] * c[2] * d[1] = a[2] * b[1] * c[1] * d[2]]_tree

=============================================================================
