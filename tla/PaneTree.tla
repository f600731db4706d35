------------------------------ MODULE PaneTree ------------------------------
(* The pane tree of one cluster (layout.rs): splits in a row or a column over    *)
(* leaves that hold an ordered list of tabs. A share of a split is an integer     *)
(* weight in the lowest terms, so that shares are exact where the code's f32 is   *)
(* near enough.                                                                   *)
EXTENDS Integers, Sequences, FiniteSets, SequencesExt

CONSTANTS
    None,           \* no pane, tab, index or direction
    MaxAutoPanes,   \* MAX_AUTO_PANES
    MinParts        \* MIN_SIZE is one MinParts-th

ASSUME PartsArePositive == MaxAutoPanes \in Nat \ {0} /\ MinParts \in Nat \ {0}

SplitDir == {"row", "column"}

Leaf(id, tabs, active) == [is |-> "leaf", id |-> id, tabs |-> tabs, active |-> active]
Split(id, dir, sizes, kids) == [is |-> "split", id |-> id, dir |-> dir, sizes |-> sizes, kids |-> kids]

IsLeaf(n) == n.is = "leaf"
is_empty_leaf(n) == IsLeaf(n) /\ n.tabs = <<>>

RECURSIVE Leaves(_)
Leaves(n) == IF IsLeaf(n) THEN <<n>> ELSE FlattenSeq([i \in DOMAIN n.kids |-> Leaves(n.kids[i])])

RECURSIVE Splits(_)
Splits(n) == IF IsLeaf(n) THEN {} ELSE {n} \cup UNION {Splits(n.kids[i]) : i \in DOMAIN n.kids}

leaf_ids(n) == LET ls == Leaves(n) IN [i \in DOMAIN ls |-> ls[i].id]
tabs_of(n) == LET ls == Leaves(n) IN FlattenSeq([i \in DOMAIN ls |-> ls[i].tabs])
holds_pane(n, pane) == Contains(leaf_ids(n), pane)
first_pane_id(n) == Head(leaf_ids(n))
last_pane_id(n) == Last(leaf_ids(n))
pane_count(n) == Len(Leaves(n))
LeafOf(n, pane) == CHOOSE l \in ToSet(Leaves(n)) : l.id = pane
HolderOf(n, tab) == {l \in ToSet(Leaves(n)) : Contains(l.tabs, tab)}
pane_is_empty(n, pane) == holds_pane(n, pane) /\ LeafOf(n, pane).tabs = <<>>

\* find_leaf_mut: the tree with another node where the leaf was
RECURSIVE At(_, _, _)
At(n, pane, new) ==
    IF IsLeaf(n) THEN IF n.id = pane THEN new ELSE n
    ELSE [n EXCEPT !.kids = [i \in DOMAIN n.kids |-> At(n.kids[i], pane, new)]]

-----------------------------------------------------------------------------
(* Shares.                                                                    *)

RECURSIVE Gcd(_, _)
Gcd(a, b) == IF b = 0 THEN a ELSE Gcd(b, a % b)

RECURSIVE Total(_)
Total(w) == IF w = <<>> THEN 0 ELSE Head(w) + Total(Tail(w))

Lowest(w) == LET g == FoldLeft(Gcd, 0, w) IN IF g = 0 THEN w ELSE [i \in DOMAIN w |-> w[i] \div g]
Even(n) == [i \in 1..n |-> 1]
Positive(x) == IF x > 0 THEN x ELSE 0

\* a weight below 0 stands for every share that is negative or not a number
normalize(sizes) ==
    LET w == [i \in DOMAIN sizes |-> Positive(sizes[i])]
        all == Total(w)
        over == [i \in DOMAIN w |-> MinParts * w[i] - all]
        deficit == Total([i \in DOMAIN w |-> Positive(-over[i])])
        slack == Total([i \in DOMAIN w |-> Positive(over[i])])
    IN  IF Len(sizes) >= MinParts \/ all = 0 THEN Even(Len(sizes))
        ELSE IF deficit = 0 THEN Lowest(w)
        ELSE Lowest([i \in DOMAIN w |-> IF over[i] < 0 THEN all * slack
                                        ELSE MinParts * w[i] * slack - deficit * over[i]])

-----------------------------------------------------------------------------
(* Operations.                                                                *)

Clamp(index, tabs) == IF index = None \/ index > Len(tabs) THEN Len(tabs) ELSE index

insert_tab(n, pane, tab, index) ==
    LET l == LeafOf(n, pane)
        kept == Remove(l.tabs, tab)
    IN  At(n, pane, Leaf(pane, InsertAt(kept, Clamp(index, kept) + 1, tab), tab))

\* the neighbour that slides into place is shown, else the last
remove_tab_unpruned(n, tab) ==
    LET l == CHOOSE l \in HolderOf(n, tab) : TRUE
        i == CHOOSE j \in DOMAIN l.tabs : l.tabs[j] = tab
        kept == RemoveAt(l.tabs, i)
        shown == IF l.active # tab THEN l.active
                 ELSE IF kept = <<>> THEN None
                 ELSE kept[IF i <= Len(kept) THEN i ELSE Len(kept)]
    IN  IF HolderOf(n, tab) = {} THEN n ELSE At(n, l.id, Leaf(l.id, kept, shown))

activate_tab(n, tab) ==
    LET l == CHOOSE l \in HolderOf(n, tab) : TRUE
    IN  IF HolderOf(n, tab) = {} THEN n ELSE At(n, l.id, [l EXCEPT !.active = tab])

split_pane(n, pane, dir, split, fresh, tab, before) ==
    IF ~holds_pane(n, pane) THEN n
    ELSE LET there == LeafOf(n, pane)
             beside == Leaf(fresh, <<tab>>, tab)
         IN  At(n, pane, Split(split, dir, Even(2), IF before THEN <<beside, there>> ELSE <<there, beside>>))

RECURSIVE set_sizes(_, _, _)
set_sizes(n, split, next) ==
    IF IsLeaf(n) THEN n
    ELSE IF n.id = split
         THEN IF Len(next) = Len(n.kids) THEN [n EXCEPT !.sizes = normalize(next)] ELSE n
         ELSE [n EXCEPT !.kids = [i \in DOMAIN n.kids |-> set_sizes(n.kids[i], split, next)]]

Flat_Own(size, inner, scale) == [j \in DOMAIN inner |-> inner[j] * scale]

\* a grandchild's share: its share of its parent, times its parent's of this split
Flat(size, inner, scale) == [j \in DOMAIN inner |-> size * inner[j] * (scale \div Total(inner))]

\* empty leaves go, a split of the same direction is taken into its parent, and a
\* split with one child is that child, with none an empty leaf under its own id
RECURSIVE prune(_)
prune(n) ==
    IF IsLeaf(n) THEN n
    ELSE LET kids == [i \in DOMAIN n.kids |-> prune(n.kids[i])]
             same(i) == ~IsLeaf(kids[i]) /\ kids[i].dir = n.dir
             kept == SelectSeq([i \in DOMAIN kids |-> i], LAMBDA i : ~is_empty_leaf(kids[i]))
             inner(i) == IF same(i) THEN kids[i].sizes ELSE <<1>>
             scale == FoldLeft(LAMBDA a, i : a * Total(inner(i)), 1, kept)
             next == FlattenSeq([k \in DOMAIN kept |->
                                   IF same(kept[k]) THEN kids[kept[k]].kids ELSE <<kids[kept[k]]>>])
             sizes == FlattenSeq([k \in DOMAIN kept |-> Flat(n.sizes[kept[k]], inner(kept[k]), scale)])
         IN  CASE Len(next) = 0 -> Leaf(n.id, <<>>, None)
               [] Len(next) = 1 -> next[1]
               [] OTHER -> [n EXCEPT !.kids = next, !.sizes = normalize(sizes)]

remove_tab(n, tab) == IF HolderOf(n, tab) = {} THEN n ELSE prune(remove_tab_unpruned(n, tab))

\* split is None, or the direction and the two ids an automatic split would use
open_into(n, pane, tab, index, split) ==
    IF split # None /\ pane_count(n) < MaxAutoPanes /\ ~pane_is_empty(n, pane)
    THEN split_pane(n, pane, split.dir, split.id, split.fresh, tab, FALSE)
    ELSE insert_tab(n, pane, tab, index)

=============================================================================
