------------------------------- MODULE Presets -------------------------------
(* Layout presets (presets/mod.rs): a shape with slots in its panes, taken from  *)
(* a cluster's tree and laid over another.                                       *)
EXTENDS PaneTree

CONSTANTS
    AppIds,         \* the apps this build has; a slot is one of them or "terminal"
    MaxDepth        \* MAX_DEPTH

Pane(slots) == [is |-> "pane", slots |-> slots]
Parts(dir, sizes, kids) == [is |-> "parts", dir |-> dir, sizes |-> sizes, kids |-> kids]
IsPane(p) == p.is = "pane"
is_empty_pane(p) == IsPane(p) /\ p.slots = <<>>

Slots == AppIds \cup {"terminal"}

\* slots of no app of this build go, and panes and splits they leave empty
RECURSIVE normalized(_, _)
normalized(p, depth) ==
    IF IsPane(p) THEN Pane(SelectSeq(p.slots, LAMBDA s : s \in Slots))
    ELSE IF depth >= MaxDepth
         THEN IF p.kids = <<>> THEN Pane(<<>>) ELSE normalized(p.kids[1], depth)
         ELSE LET kids == [i \in DOMAIN p.kids |-> normalized(p.kids[i], depth + 1)]
                  kept == SelectSeq([i \in DOMAIN kids |-> i], LAMBDA i : ~is_empty_pane(kids[i]))
              IN  CASE Len(kept) = 0 -> Pane(<<>>)
                    [] Len(kept) = 1 -> kids[kept[1]]
                    [] OTHER -> Parts(p.dir, normalize([k \in DOMAIN kept |-> p.sizes[kept[k]]]),
                                      [k \in DOMAIN kept |-> kids[kept[k]]])

RECURSIVE PanesOf(_)
PanesOf(p) == IF IsPane(p) THEN <<p>> ELSE FlattenSeq([i \in DOMAIN p.kids |-> PanesOf(p.kids[i])])

RECURSIVE split_count(_)
split_count(p) == IF IsPane(p) THEN 0 ELSE 1 + Total([i \in DOMAIN p.kids |-> split_count(p.kids[i])])

panes_in(p) == Len(PanesOf(p))
SlotsOf(p) == FlattenSeq([i \in DOMAIN PanesOf(p) |-> PanesOf(p)[i].slots])

\* what a surface is: <<kind, n>> fills a slot of its kind
SlotOf(s) == s[1]

RECURSIVE build_preset(_)
build_preset(n) ==
    IF IsLeaf(n) THEN Pane([i \in DOMAIN n.tabs |-> SlotOf(n.tabs[i])])
    ELSE Parts(n.dir, n.sizes, [i \in DOMAIN n.kids |-> build_preset(n.kids[i])])

capture(n) == normalized(build_preset(n), 0)

-----------------------------------------------------------------------------
(* plan: existing surfaces claim slots in order, each at most one; a slot left  *)
(* over is a gap, a surface left over goes into the last pane.                  *)

claim_Any(slots, i, existing) ==
    LET fit == SelectSeq(existing, LAMBDA s : SlotOf(s) = slots[i])
    IN  IF fit = <<>> THEN None ELSE fit[1]

\* the surface the i-th slot claims: the first of its kind no earlier slot took
claim(slots, i, existing) ==
    LET fit == SelectSeq(existing, LAMBDA s : SlotOf(s) = slots[i])
        taken == Cardinality({j \in 1..(i - 1) : slots[j] = slots[i]})
    IN  IF taken < Len(fit) THEN fit[taken + 1] ELSE None

\* pane by pane, what each slot claims
Planned(root, existing) ==
    LET panes == PanesOf(root)
        slots == SlotsOf(root)
        before(k) == Total([j \in 1..(k - 1) |-> Len(panes[j].slots)])
    IN  [k \in DOMAIN panes |-> [j \in DOMAIN panes[k].slots |-> claim(slots, before(k) + j, existing)]]

PlannedLeaf(pane, claims) ==
    LET tabs == SelectSeq(claims, LAMBDA s : s # None)
    IN  Leaf(pane, tabs, IF tabs = <<>> THEN None ELSE tabs[1])

\* panes are numbered in reading order, splits before what is in them
RECURSIVE build_tree(_, _, _, _, _)
build_tree(p, k, m, ids, planned) ==
    IF IsPane(p) THEN PlannedLeaf(ids.panes[k], planned[k])
    ELSE Split(ids.splits[m], p.dir, p.sizes,
               [i \in DOMAIN p.kids |->
                  build_tree(p.kids[i],
                             k + Total([j \in 1..(i - 1) |-> panes_in(p.kids[j])]),
                             m + 1 + Total([j \in 1..(i - 1) |-> split_count(p.kids[j])]), ids, planned)])

Gaps(root, ids, planned) ==
    LET panes == PanesOf(root)
        open(k) == SelectSeq([j \in DOMAIN planned[k] |-> j], LAMBDA j : planned[k][j] = None)
        gap(k, j) == [pane |-> ids.panes[k], slot |-> panes[k].slots[j],
                      index |-> IF Len(planned[k]) > 1 THEN j - 1 ELSE None]
    IN  FlattenSeq([k \in DOMAIN panes |-> [o \in DOMAIN open(k) |-> gap(k, open(k)[o])]])

Leftovers(planned, existing) ==
    LET claimed == UNION {ToSet(planned[k]) : k \in DOMAIN planned}
    IN  SelectSeq(existing, LAMBDA s : s \notin claimed)

Swept(n, more) ==
    LET l == LeafOf(n, last_pane_id(n))
    IN  IF more = <<>> THEN n
        ELSE At(n, l.id, Leaf(l.id, l.tabs \o more, IF l.active = None THEN more[1] ELSE l.active))

plan(root, existing, ids) ==
    LET planned == Planned(root, existing)
    IN  [tree |-> Swept(build_tree(root, 1, 1, ids, planned), Leftovers(planned, existing)),
         gaps |-> Gaps(root, ids, planned)]

=============================================================================
