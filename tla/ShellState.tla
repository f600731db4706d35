----------------------------- MODULE ShellState -----------------------------
(***************************************************************************)
(* The shared state every window of the shell draws                        *)
(* (src-tauri/src/shell_state.rs): windows hold clusters, a cluster holds  *)
(* a tree of panes and a band of terminals, a pane holds tabs.  One action *)
(* per mutator, each ending in the repair `mutate` runs after all of them. *)
(*                                                                         *)
(* A cluster's tree is here the set of its panes; which way it is split,   *)
(* in what proportions and in which order its tabs stand is PaneTree's     *)
(* subject.  Where the code takes "the first" pane, cluster or tab of a    *)
(* list, this module takes any of them.                                    *)
(***************************************************************************)
EXTENDS Integers, FiniteSets

CONSTANTS
  Apps,            \* the apps a surface can show
  Takeover,        \* those that cover a cluster instead of taking a pane
  Home,            \* the app a new cluster opens on
  MaxWindow, MaxCluster, MaxPane,  \* bounds on the ids the counters mint
  MaxOrdinal,      \* MaxOrdinal[k]: bound on the ordinals of surfaces of kind k
  MaxAutoPanes,    \* `layout::MAX_AUTO_PANES`
  StaleDrops,      \* a drop may name a surface closed since it was picked up
  OwnEdgeDrops,    \* a tab may be dropped on the edge of the pane it fills
  ForeignCloses,   \* a cluster may close while another draws its terminals
  WorkerSpawns,    \* a worker thread may be opening a terminal meanwhile
  Restarts         \* the application may quit and come back

TermKind == "term"

ASSUME ConstantsAssumption ==
  /\ Takeover \subseteq Apps /\ Home \in Takeover /\ TermKind \notin Apps
  /\ MaxWindow \in Nat /\ MaxCluster \in Nat \ {0} /\ MaxPane \in Nat \ {0}
  /\ MaxOrdinal \in [Apps \cup {TermKind} -> Nat] /\ MaxAutoPanes \in Nat \ {0}
  /\ {StaleDrops, OwnEdgeDrops, ForeignCloses, WorkerSpawns, Restarts} \subseteq BOOLEAN

None == 0                                  \* no cluster, no pane, no direction
Main == 0                                  \* the label "main"; n > 0 is "win-n"
Label == 0..MaxWindow
ClusterId == 1..MaxCluster
PaneId == 1..MaxPane
Kind == Apps \cup {TermKind}
Of(k) == {k} \X (1..MaxOrdinal[k])         \* the id "files-2" is <<"files", 2>>
Surface == UNION {Of(k) : k \in Kind}
Terminal == Of(TermKind)
NoSurface == <<"none", 0>>

VARIABLES
  windows,         \* labels of the windows in the layout
  clusters,        \* clusters[w]: the clusters window w holds
  activeCluster,   \* activeCluster[w]: the cluster it shows, or None
  panes,           \* panes[c]: the leaves of the cluster's tree
  tabs,            \* tabs[p]: the surfaces in pane p
  instances,       \* the live app surfaces
  terminals,       \* the live terminal sessions
  clusterOf,       \* clusterOf[t]: the cluster whose band claims terminal t
  groupOf,         \* groupOf[t]: the terminal its split group is named for
  activeTerminal,  \* activeTerminal[c]: the terminal its band shows
  counters,        \* the highest id minted of each sort
  spawning         \* terminals a worker has spawned and not yet recorded

vars == <<windows, clusters, activeCluster, panes, tabs, instances, terminals,
          clusterOf, groupOf, activeTerminal, counters, spawning>>

-----------------------------------------------------------------------------
(* Reading the layout *)

LiveClusters == UNION {clusters[w] : w \in windows}
LivePanes == UNION {panes[c] : c \in LiveClusters}
Placed == UNION {tabs[p] : p \in LivePanes}
TabsOf(c) == UNION {tabs[p] : p \in panes[c]}
Live == instances \cup terminals

(* Everything drawn in a tree of a window that holds c. *)
DrawnBeside(c) == UNION {TabsOf(d) : d \in UNION {clusters[w] : w \in {v \in windows : c \in clusters[v]}}}

(* `terminals_of_cluster`, and those of them the band of c draws. *)
TerminalsOfCluster_Ungrouped(c) == {t \in terminals : clusterOf[t] = c /\ groupOf[t] = NoSurface}
TerminalsOfCluster(c) == {t \in terminals : clusterOf[t] = c}
Band(c) == TerminalsOfCluster(c) \ DrawnBeside(c)

(* What the panel of window w draws: the band of the cluster it shows.     *)
DrawnInBand(w) == UNION {Band(c) : c \in clusters[w] \cap {activeCluster[w]}}

(* The first of a band: a cluster lists its terminals in the order they    *)
(* were minted, but for those a worker records late.                       *)
FirstTerminal(S) == CHOOSE t \in S : \A u \in S : t[2] <= u[2]

(* `reseat_active_terminals`, run by `mutate` after every change: keep a   *)
(* selection the band draws, else take the band's first terminal.          *)
Reseat(wanted) ==
  activeTerminal' = [c \in ClusterId |->
     IF c \in LiveClusters' /\ Band(c)' # {}
     THEN IF wanted[c] \in Band(c)' THEN wanted[c] ELSE FirstTerminal(Band(c)')
     ELSE NoSurface]

-----------------------------------------------------------------------------
(* Trees.  T stands for `tabs`, P for `panes`, C for a set of clusters.    *)

Holders(T, Q, s) == {p \in Q : s \in T[p]}

(* `remove_tab_inner`: take s out of the first pane that holds it, in each *)
(* of the trees C.                                                         *)
TakenOut(T, P, C, s) ==
  [p \in PaneId |->
     IF \E c \in C : Holders(T, P[c], s) # {} /\ p = (CHOOSE q \in Holders(T, P[c], s) : TRUE)
     THEN T[p] \ {s} ELSE T[p]]

(* `prune`: drop the empty leaves; a tree of nothing else is left as one   *)
(* empty leaf (a leaf that is the root already is left alone).  The code   *)
(* gives that leaf the id of the split it replaces; here it keeps the id   *)
(* of one of the leaves.                                                   *)
Pruned(T, Q) ==
  IF \E p \in Q : T[p] # {} THEN {p \in Q : T[p] # {}} ELSE {CHOOSE p \in Q : TRUE}

(* `remove_tab` in each of the trees C, T being the tabs it leaves: only a *)
(* tree that lost something is pruned.                                     *)
PrunedWhere(T, P, C, s) ==
  [c \in ClusterId |-> IF c \in C /\ Holders(tabs, P[c], s) # {} THEN Pruned(T, P[c]) ELSE P[c]]

(* `dismiss_takeover`: the first live takeover surface among the tabs of a *)
(* pane, if there is one.                                                  *)
InTheWay_Alone(here, I) ==
  IF \E u \in here : here = {u} /\ u \in I /\ u[1] \in Takeover THEN here ELSE {NoSurface}
InTheWay(here, I) ==
  LET covering == {u \in here \cap I : u[1] \in Takeover}
  IN IF covering = {} THEN {NoSurface} ELSE covering

(* `place_surface` into cluster c: pick the pane asked for or the first,   *)
(* lift s from wherever the tree has it, dismiss a takeover surface in the *)
(* way, and open s there -- splitting the pane when a direction was given  *)
(* (`new` is the pane minted for it), the tree has room and the pane is    *)
(* not empty.  I are the live instances, `opened` those this call adds.    *)
PlaceSurface(T, P, I, opened, c, s, asked, new, evict) ==
  \E target \in IF asked \in P[c] THEN {asked} ELSE P[c] :
    LET moved == Holders(T, P[c], s) # {}
        lifted == TakenOut(T, P, {c}, s)
    IN \E gone \in IF evict THEN InTheWay(lifted[target], I) ELSE {NoSurface} :
         LET cleared == [lifted EXCEPT ![target] = @ \ {gone}]
             splits == new # None /\ Cardinality(P[c]) < MaxAutoPanes /\ cleared[target] # {}
             at == IF splits THEN new ELSE target
             landed == [cleared EXCEPT ![at] = @ \cup {s}]
             held == P[c] \cup {at}
         IN /\ tabs' = landed
            /\ panes' = [P EXCEPT ![c] = IF moved THEN Pruned(landed, held) ELSE held]
            /\ instances' = (I \ {gone}) \cup opened

-----------------------------------------------------------------------------
(* Initially: `seed_window` for "main". *)
Init ==
  /\ windows = {Main}
  /\ clusters = [w \in Label |-> IF w = Main THEN {1} ELSE {}]
  /\ activeCluster = [w \in Label |-> IF w = Main THEN 1 ELSE None]
  /\ panes = [c \in ClusterId |-> IF c = 1 THEN {1} ELSE {}]
  /\ tabs = [p \in PaneId |-> {}]
  /\ instances = {}
  /\ terminals = {}
  /\ clusterOf = [t \in Terminal |-> None]
  /\ groupOf = [t \in Terminal |-> NoSurface]
  /\ activeTerminal = [c \in ClusterId |-> NoSurface]
  /\ counters = [windows |-> 0, clusters |-> 1, panes |-> 1, ord |-> [k \in Kind |-> 0]]
  /\ spawning = {}

-----------------------------------------------------------------------------
(* Clusters and windows *)

(* `add_cluster` and the Home its command opens in the empty pane. *)
AddCluster(w) ==
  LET c == counters.clusters + 1
      p == counters.panes + 1
      h == <<Home, counters.ord[Home] + 1>>
  IN /\ w \in windows
     /\ c <= MaxCluster /\ p <= MaxPane /\ h[2] <= MaxOrdinal[Home]
     /\ counters' = [counters EXCEPT !.clusters = c, !.panes = p, !.ord[Home] = h[2]]
     /\ clusters' = [clusters EXCEPT ![w] = @ \cup {c}]
     /\ activeCluster' = [activeCluster EXCEPT ![w] = c]
     /\ panes' = [panes EXCEPT ![c] = {p}]
     /\ tabs' = [tabs EXCEPT ![p] = {h}]
     /\ instances' = instances \cup {h}
     /\ UNCHANGED <<windows, terminals, clusterOf, groupOf, spawning>>
     /\ Reseat(activeTerminal)

(* The `new_window` command: claim a label, `add_window` with the cluster  *)
(* `seed_window` makes, and open Home there.                               *)
NewWindow ==
  LET w == counters.windows + 1
      c == counters.clusters + 1
      p == counters.panes + 1
      h == <<Home, counters.ord[Home] + 1>>
  IN /\ w <= MaxWindow /\ c <= MaxCluster /\ p <= MaxPane /\ h[2] <= MaxOrdinal[Home]
     /\ counters' = [counters EXCEPT !.windows = w, !.clusters = c, !.panes = p,
                                     !.ord[Home] = h[2]]
     /\ windows' = windows \cup {w}
     /\ clusters' = [clusters EXCEPT ![w] = {c}]
     /\ activeCluster' = [activeCluster EXCEPT ![w] = c]
     /\ panes' = [panes EXCEPT ![c] = {p}]
     /\ tabs' = [tabs EXCEPT ![p] = {h}]
     /\ instances' = instances \cup {h}
     /\ UNCHANGED <<terminals, clusterOf, groupOf, spawning>>
     /\ Reseat(activeTerminal)

(* `set_active_cluster`: a cluster the window does not hold is refused. *)
SetActiveCluster(w, c) ==
  /\ w \in windows
  /\ c = None \/ c \in clusters[w]
  /\ activeCluster' = [activeCluster EXCEPT ![w] = c]
  /\ UNCHANGED <<windows, clusters, panes, tabs, instances, terminals, clusterOf,
                 groupOf, counters, spawning>>
  /\ Reseat(activeTerminal)

(* `take_cluster`: what window w shows once c has left it. *)
AfterTaking(w, c) ==
  IF activeCluster[w] # c THEN {activeCluster[w]}
  ELSE IF clusters[w] = {c} THEN {None} ELSE clusters[w] \ {c}

(* `close_cluster`: everything in its tree goes, and every terminal that   *)
(* names it, wherever that terminal is drawn.                              *)
CloseCluster(w, c) ==
  LET held == TabsOf(c)
      band == TerminalsOfCluster(c)
      gone == (held \cap terminals) \cup band
  IN /\ w \in windows /\ c \in clusters[w]
     /\ ForeignCloses \/ band \cap Placed \subseteq held
     /\ \E next \in AfterTaking(w, c) :
          activeCluster' = [activeCluster EXCEPT ![w] = next]
     /\ clusters' = [clusters EXCEPT ![w] = @ \ {c}]
     /\ panes' = [panes EXCEPT ![c] = {}]
     /\ tabs' = [p \in PaneId |-> IF p \in panes[c] THEN {} ELSE tabs[p]]
     /\ instances' = instances \ (held \ terminals)
     /\ terminals' = terminals \ gone
     /\ clusterOf' = [t \in Terminal |-> IF t \in gone THEN None ELSE clusterOf[t]]
     /\ groupOf' = [t \in Terminal |-> IF t \in gone THEN NoSurface ELSE groupOf[t]]
     /\ UNCHANGED <<windows, counters, spawning>>
     /\ Reseat(activeTerminal)

(* `move_cluster_pure` into window `to`, and the `detach_cluster` command  *)
(* that claims a label first when no window to move into is named.  Moving *)
(* a cluster to the window that holds it changes nothing.                  *)
MoveCluster(w, c, to) ==
  /\ w \in windows /\ c \in clusters[w]
  /\ \/ to \in windows \ {w} /\ UNCHANGED counters
     \/ to = counters.windows + 1 /\ to <= MaxWindow
        /\ counters' = [counters EXCEPT !.windows = to]
  /\ windows' = windows \cup {to}
  /\ clusters' = [clusters EXCEPT ![w] = @ \ {c}, ![to] = @ \cup {c}]
  /\ \E next \in AfterTaking(w, c) :
       activeCluster' = [activeCluster EXCEPT ![w] = next, ![to] = c]
  /\ UNCHANGED <<panes, tabs, instances, terminals, clusterOf, groupOf, spawning>>
  /\ Reseat(activeTerminal)

(* `request_close` of a secondary window: `reclaim_window` hands its       *)
(* clusters to main.                                                       *)
HandedOver_Shown(w) == clusters[w] \cap {activeCluster[w]}
HandedOver(w) == clusters[w]
CloseWindow(w) ==
  /\ w \in windows \ {Main}
  /\ windows' = windows \ {w}
  /\ clusters' = [clusters EXCEPT ![Main] = @ \cup HandedOver(w), ![w] = {}]
  /\ \E next \in IF activeCluster[Main] # None THEN {activeCluster[Main]}
                 ELSE IF clusters[w] = {} THEN {None} ELSE clusters[w] :
       activeCluster' = [activeCluster EXCEPT ![Main] = next, ![w] = None]
  /\ UNCHANGED <<panes, tabs, instances, terminals, clusterOf, groupOf, counters, spawning>>
  /\ Reseat(activeTerminal)

-----------------------------------------------------------------------------
(* Surfaces in panes *)

(* `open_instance` in window w: in the cluster of w that holds the pane    *)
(* asked for, else in the one w shows.  The ids are minted first, so a     *)
(* window that is gone or shows nothing costs them all the same.  A second *)
(* Home or tutorial is never asked for in a cluster that has one: the      *)
(* frontend shows the one it has.                                          *)
OpenInstance(app, w, asked, split) ==
  LET s == <<app, counters.ord[app] + 1>>
      new == IF split THEN counters.panes + 1 ELSE None
      owner == {c \in clusters[w] : asked \in panes[c]}
      into == IF owner # {} THEN owner ELSE {activeCluster[w]} \cap ClusterId
  IN /\ s[2] <= MaxOrdinal[app] /\ new <= MaxPane
     /\ counters' = [counters EXCEPT !.ord[app] = s[2],
                                     !.panes = IF split THEN new ELSE @]
     /\ \/ /\ into = {}
           /\ UNCHANGED <<panes, tabs, instances>>
        \/ \E c \in into :
             /\ app \in Takeover => \A u \in TabsOf(c) : u[1] # app
             /\ PlaceSurface(tabs, panes, instances, {s}, c, s, asked, new, app \notin Takeover)
     /\ UNCHANGED <<windows, clusters, activeCluster, terminals, clusterOf, groupOf, spawning>>
     /\ Reseat(activeTerminal)

(* `close_instance`: the entry goes only if some tree held the tab. *)
Forgotten_Nothing(s) == {}
Forgotten(s) == {s}

CloseInstance(s) ==
  LET lifted == TakenOut(tabs, panes, LiveClusters, s)
  IN /\ s \in Placed
     /\ tabs' = lifted
     /\ panes' = PrunedWhere(lifted, panes, LiveClusters, s)
     /\ instances' = instances \ Forgotten(s)
     /\ UNCHANGED <<windows, clusters, activeCluster, terminals, clusterOf, groupOf,
                    counters, spawning>>
     /\ Reseat(activeTerminal)

(* `activate_instance`: show the cluster that draws it. *)
ActivateInstance(w, c) ==
  /\ w \in windows /\ c \in clusters[w] /\ TabsOf(c) # {}
  /\ activeCluster' = [activeCluster EXCEPT ![w] = c]
  /\ UNCHANGED <<windows, clusters, panes, tabs, instances, terminals, clusterOf,
                 groupOf, counters, spawning>>
  /\ Reseat(activeTerminal)

(* What a drag can be holding when it is released: something live, or --   *)
(* since the press read the screen and the release calls the backend --    *)
(* something that has closed in between.                                   *)
Minted == {s \in Surface : s[2] <= counters.ord[s[1]]} \ {x[1] : x \in spawning}
Dragged == IF StaleDrops THEN Minted ELSE Live

(* The trees swept before a drop into cluster c of window w. *)
Elsewhere(w, c) == LiveClusters \ {c}

(* `move_instance` into pane p of cluster c, which must hold it. *)
MoveInstance(s, w, c, p) ==
  LET others == Elsewhere(w, c)
      lifted == TakenOut(tabs, panes, others, s)
      left == PrunedWhere(lifted, panes, others, s)
      evict == ~(s \in instances /\ s[1] \in Takeover)
  IN /\ s \in Dragged
     /\ w \in windows /\ c \in clusters[w] /\ p \in panes[c]
     /\ PlaceSurface(lifted, left, instances, {}, c, s, p, None, evict)
     /\ activeCluster' = [activeCluster EXCEPT ![w] = c]
     /\ UNCHANGED <<windows, clusters, terminals, clusterOf, groupOf, counters, spawning>>
     /\ Reseat(activeTerminal)

(* `split_with_instance`: s leaves every tree, and then the pane p it was  *)
(* dropped on the edge of is split -- if the removal left p standing.      *)
SplitWithInstance(s, w, c, p) ==
  LET new == counters.panes + 1
      lifted == TakenOut(tabs, panes, LiveClusters, s)
      left == PrunedWhere(lifted, panes, LiveClusters, s)
  IN /\ s \in Dragged
     /\ w \in windows /\ c \in clusters[w] /\ p \in panes[c] /\ new <= MaxPane
     /\ OwnEdgeDrops \/ p \in left[c]
     /\ counters' = [counters EXCEPT !.panes = new]
     /\ \/ /\ p \in left[c]
           /\ tabs' = [lifted EXCEPT ![new] = {s}]
           /\ panes' = [left EXCEPT ![c] = @ \cup {new}]
           /\ activeCluster' = [activeCluster EXCEPT ![w] = c]
        \/ /\ p \notin left[c]
           /\ tabs' = lifted
           /\ panes' = left
           /\ UNCHANGED activeCluster
     /\ UNCHANGED <<windows, clusters, instances, terminals, clusterOf, groupOf, spawning>>
     /\ Reseat(activeTerminal)

(* `windows::detach`: claim a label, then `detach_instance` puts s alone   *)
(* in a new cluster of that window.  A surface that has closed is refused  *)
(* once its label, cluster and pane are minted.                            *)
DetachInstance(s) ==
  LET w == counters.windows + 1
      c == counters.clusters + 1
      p == counters.panes + 1
      lifted == TakenOut(tabs, panes, LiveClusters, s)
      left == PrunedWhere(lifted, panes, LiveClusters, s)
  IN /\ s \in Dragged
     /\ w <= MaxWindow /\ c <= MaxCluster /\ p <= MaxPane
     /\ counters' = [counters EXCEPT !.windows = w, !.clusters = c, !.panes = p]
     /\ \/ /\ s \notin Live
           /\ UNCHANGED <<windows, clusters, activeCluster, panes, tabs, clusterOf>>
        \/ /\ s \in Live
           /\ windows' = windows \cup {w}
           /\ clusters' = [clusters EXCEPT ![w] = {c}]
           /\ activeCluster' = [activeCluster EXCEPT ![w] = c]
           /\ panes' = [left EXCEPT ![c] = {p}]
           /\ tabs' = [lifted EXCEPT ![p] = {s}]
           /\ clusterOf' = [t \in Terminal |-> IF t = s /\ t \in terminals THEN c ELSE clusterOf[t]]
     /\ UNCHANGED <<instances, terminals, groupOf, spawning>>
     /\ Reseat(activeTerminal)

-----------------------------------------------------------------------------
(* Terminals *)

NextTerminal == <<TermKind, counters.ord[TermKind] + 1>>
CanMintTerminal == counters.ord[TermKind] < MaxOrdinal[TermKind]

(* `create_terminal` in the band of cluster c, on the main thread: claim   *)
(* the id, spawn, `add_terminal`.  With a sibling, `split_terminal`, which *)
(* then puts both in one group (`group_with_pure`).                        *)
AddTerminal(c, sibling) ==
  LET t == NextTerminal
      gid == IF groupOf[sibling] = NoSurface THEN sibling ELSE groupOf[sibling]
  IN /\ CanMintTerminal /\ c \in LiveClusters
     /\ counters' = [counters EXCEPT !.ord[TermKind] = @ + 1]
     /\ terminals' = terminals \cup {t}
     /\ clusterOf' = [clusterOf EXCEPT ![t] = c]
     /\ groupOf' = IF sibling = t THEN groupOf
                   ELSE [groupOf EXCEPT ![sibling] = gid, ![t] = gid]
     /\ UNCHANGED <<windows, clusters, activeCluster, panes, tabs, instances, spawning>>
     /\ Reseat([activeTerminal EXCEPT ![c] = t])

CreateTerminal(w) ==
  /\ w \in windows /\ activeCluster[w] # None
  /\ AddTerminal(activeCluster[w], NextTerminal)

SplitTerminal(t) ==
  /\ t \in terminals
  /\ AddTerminal(clusterOf[t], t)

(* `add_terminal_in_pane` for a terminal already spawned: record it and    *)
(* place it in the tree of its cluster, if that cluster is still there.    *)
AddTerminalInPane(t, c, asked, new) ==
  /\ terminals' = terminals \cup {t}
  /\ clusterOf' = [clusterOf EXCEPT ![t] = c]
  /\ \/ /\ c \in LiveClusters
        /\ PlaceSurface(tabs, panes, instances, {}, c, t, asked, new, TRUE)
     \/ /\ c \notin LiveClusters
        /\ UNCHANGED <<panes, tabs, instances>>
  /\ UNCHANGED <<windows, clusters, activeCluster, groupOf>>
  /\ Reseat(activeTerminal)

(* The `open_terminal_in_pane` command, whole, on the main thread. *)
OpenTerminalInPane(w, asked, split) ==
  LET c == activeCluster[w]
      new == IF split THEN counters.panes + 1 ELSE None
  IN /\ w \in windows /\ c # None
     /\ CanMintTerminal /\ new <= MaxPane
     /\ asked \in panes[c]
     /\ counters' = [counters EXCEPT !.ord[TermKind] = @ + 1,
                                     !.panes = IF split THEN new ELSE @]
     /\ AddTerminalInPane(NextTerminal, c, asked, new)
     /\ UNCHANGED spawning

(* The same on a worker (`fill_preset_gaps` behind an `app_call`): the     *)
(* cluster is checked and the shell spawned, and what the main thread does *)
(* next comes before the terminal is recorded.                             *)
WorkerSpawn(c, asked) ==
  /\ WorkerSpawns /\ CanMintTerminal
  /\ c \in LiveClusters /\ asked \in panes[c]
  /\ counters' = [counters EXCEPT !.ord[TermKind] = @ + 1]
  /\ spawning' = spawning \cup {<<NextTerminal, c, asked>>}
  /\ UNCHANGED <<windows, clusters, activeCluster, panes, tabs, instances, terminals,
                 clusterOf, groupOf, activeTerminal>>

WorkerAdd(x) ==
  /\ x \in spawning
  /\ spawning' = spawning \ {x}
  /\ UNCHANGED counters
  /\ AddTerminalInPane(x[1], x[2], x[3], None)

(* `close_terminal_pure`: t leaves its group, and a group of one is none.  *)
Ungrouped(t) ==
  LET mates == {u \in terminals \ {t} : groupOf[u] = groupOf[t]}
  IN [u \in Terminal |->
        IF u = t \/ (groupOf[t] # NoSurface /\ mates = {u}) THEN NoSurface ELSE groupOf[u]]

(* `close_terminal` sweeps every tree for t. *)
Swept_Band(t) == LiveClusters \cap {clusterOf[t]}
Swept(t) == LiveClusters

CloseTerminal(t) ==
  LET lifted == TakenOut(tabs, panes, Swept(t), t)
  IN /\ t \in terminals
     /\ terminals' = terminals \ {t}
     /\ clusterOf' = [clusterOf EXCEPT ![t] = None]
     /\ groupOf' = Ungrouped(t)
     /\ tabs' = lifted
     /\ panes' = PrunedWhere(lifted, panes, Swept(t), t)
     /\ UNCHANGED <<windows, clusters, activeCluster, instances, counters, spawning>>
     /\ Reseat(activeTerminal)

(* `move_terminal` into the band of the cluster window w shows. *)
MoveTerminal(t, w) ==
  LET c == activeCluster[w]
      lifted == TakenOut(tabs, panes, LiveClusters, t)
  IN /\ w \in windows /\ c # None
     /\ t \in Dragged \cap Terminal
     /\ tabs' = lifted
     /\ panes' = PrunedWhere(lifted, panes, LiveClusters, t)
     /\ clusterOf' = [u \in Terminal |-> IF u = t /\ t \in terminals THEN c ELSE clusterOf[u]]
     /\ UNCHANGED <<windows, clusters, activeCluster, instances, terminals, groupOf,
                    counters, spawning>>
     /\ Reseat([activeTerminal EXCEPT ![c] = t])

(* `set_active_terminal`: whatever is asked for, then the repair. *)
SetActiveTerminal(c, t) ==
  /\ c \in LiveClusters
  /\ UNCHANGED <<windows, clusters, activeCluster, panes, tabs, instances, terminals,
                 clusterOf, groupOf, counters, spawning>>
  /\ Reseat([activeTerminal EXCEPT ![c] = t])

-----------------------------------------------------------------------------
(* Quitting and coming back *)

Highest(S) == IF S = {} THEN 0 ELSE CHOOSE n \in S : \A m \in S : m <= n

(* `prune_unreachable`: an instance no tree holds is dropped, and so is a  *)
(* terminal that neither a live cluster's band nor a tree holds.           *)
KeptInstances == instances \cap Placed
KeptTerminals == {t \in terminals : clusterOf[t] \in LiveClusters \/ t \in Placed}

(* `counters_for`: every counter starts again at the highest id in use. *)
CountersFor_Shown ==
  LET shown == {activeCluster[w] : w \in windows} \cap ClusterId
  IN [windows |-> Highest(windows), clusters |-> Highest(shown),
      panes |-> Highest(UNION {panes[c] : c \in shown}),
      ord |-> [k \in Kind |-> Highest({s[2] : s \in {u \in Placed : u[1] = k}})]]
CountersFor ==
  [windows |-> Highest(windows), clusters |-> Highest(LiveClusters \cup {0}),
   panes |-> Highest(LivePanes),
   ord |-> [k \in Kind |-> Highest({s[2] : s \in {u \in KeptInstances \cup KeptTerminals : u[1] = k}})]]

(* The layout file is the state at the last mutation (StoreFile and        *)
(* LayoutPersist say when that is so); `restore` prunes it, rebuilds the   *)
(* counters and gives a terminal whose cluster is gone another one         *)
(* (`adopt_orphan_terminals`).                                             *)
Restart ==
  /\ Restarts
  /\ instances' = KeptInstances
  /\ terminals' = IF LiveClusters = {} THEN {} ELSE KeptTerminals
  /\ \E fallback \in LiveClusters \cup {None} :
       /\ (fallback = None) = (LiveClusters = {})
       /\ clusterOf' = [t \in Terminal |->
            IF t \notin KeptTerminals THEN None
            ELSE IF clusterOf[t] \in LiveClusters THEN clusterOf[t] ELSE fallback]
  /\ groupOf' = [t \in Terminal |-> IF t \in KeptTerminals THEN groupOf[t] ELSE NoSurface]
  /\ counters' = CountersFor
  /\ spawning' = {}
  /\ UNCHANGED <<windows, clusters, activeCluster, panes, tabs>>
  /\ Reseat(activeTerminal)

-----------------------------------------------------------------------------

Next ==
  \/ \E w \in Label : AddCluster(w)
  \/ NewWindow
  \/ \E w \in Label, c \in ClusterId \cup {None} : SetActiveCluster(w, c)
  \/ \E w \in Label, c \in ClusterId : CloseCluster(w, c)
  \/ \E w, to \in Label, c \in ClusterId : MoveCluster(w, c, to)
  \/ \E w \in Label : CloseWindow(w)
  \/ \E app \in Apps, w \in Label, p \in PaneId \cup {None}, split \in BOOLEAN :
       OpenInstance(app, w, p, split)
  \/ \E s \in Surface : CloseInstance(s)
  \/ \E w \in Label, c \in ClusterId : ActivateInstance(w, c)
  \/ \E s \in Surface, w \in Label, c \in ClusterId, p \in PaneId : MoveInstance(s, w, c, p)
  \/ \E s \in Surface, w \in Label, c \in ClusterId, p \in PaneId : SplitWithInstance(s, w, c, p)
  \/ \E s \in Surface : DetachInstance(s)
  \/ \E w \in Label : CreateTerminal(w)
  \/ \E t \in Terminal : SplitTerminal(t)
  \/ \E w \in Label, p \in PaneId, split \in BOOLEAN : OpenTerminalInPane(w, p, split)
  \/ \E c \in ClusterId, p \in PaneId : WorkerSpawn(c, p)
  \/ \E x \in spawning : WorkerAdd(x)
  \/ \E t \in Terminal : CloseTerminal(t)
  \/ \E t \in Terminal, w \in Label : MoveTerminal(t, w)
  \/ \E c \in ClusterId, t \in Terminal \cup {NoSurface} : SetActiveTerminal(c, t)
  \/ Restart

Spec == Init /\ [][Next]_vars

-----------------------------------------------------------------------------
(* What makes the shared state right *)

WindowsType ==
  /\ windows \in SUBSET Label
  /\ clusters \in [Label -> SUBSET ClusterId]
  /\ activeCluster \in [Label -> ClusterId \cup {None}]
TreesType ==
  /\ panes \in [ClusterId -> SUBSET PaneId]
  /\ tabs \in [PaneId -> SUBSET Surface]
  /\ instances \in SUBSET Surface
TerminalsType ==
  /\ terminals \in SUBSET Terminal
  /\ clusterOf \in [Terminal -> ClusterId \cup {None}]
  /\ groupOf \in [Terminal -> Terminal \cup {NoSurface}]
  /\ spawning \in SUBSET (Terminal \X ClusterId \X PaneId)
BandsType == activeTerminal \in [ClusterId -> Terminal \cup {NoSurface}]
CountersType ==
  /\ counters \in [windows : Label, clusters : 0..MaxCluster, panes : 0..MaxPane,
                   ord : [Kind -> Nat]]
  /\ \A k \in Kind : counters.ord[k] <= MaxOrdinal[k]

(* Every variable holds what its declaration says. *)
TypeOK == WindowsType /\ TreesType /\ TerminalsType /\ BandsType /\ CountersType

(* An id names one thing: no cluster is in two windows, no pane in two     *)
(* trees, through any sequence of moves, detaches, closes and restarts.    *)
(* Every lookup in the code takes the first match and stops there.         *)
IdsUnique ==
  /\ \A v, w \in windows : v # w => clusters[v] \cap clusters[w] = {}
  /\ \A c, d \in LiveClusters : c # d => panes[c] \cap panes[d] = {}

(* A window shows a cluster it holds, or none: `active_cluster_mut` and    *)
(* every open that names no pane depend on it.                             *)
ShowsItsOwn == \A w \in windows : activeCluster[w] \in clusters[w] \cup {None}

(* Every live cluster has a pane, so a surface always has somewhere to go. *)
TreesStand == \A c \in LiveClusters : panes[c] # {}

(* "An instance is in whichever cluster's tree contains its id, and        *)
(* nowhere else" (`Cluster::tree`): no surface is drawn in two panes.      *)
DrawnOnce == \A p, q \in LivePanes : p # q => tabs[p] \cap tabs[q] = {}

(* Every tab resolves to a live instance or terminal: "not a state         *)
(* anything should be able to produce" is the opposite (`resolve_slot`).   *)
TabsResolve == Placed \subseteq Live

(* Every live instance is drawn somewhere: one that is not can be neither  *)
(* reached nor closed, and the next start drops it (`prune_unreachable`).  *)
InstancesPlaced == instances \subseteq Placed

(* Every terminal names a cluster that exists: one that does not, and is   *)
(* in no tree, runs on where nobody can see it.                            *)
TerminalsReachable == \A t \in terminals : clusterOf[t] \in LiveClusters

(* A terminal is in its cluster's band unless its id appears in a tree,    *)
(* "any cluster's tree, in any window", so it "can never draw in two       *)
(* places at once" (`Cluster::tree`).  The band looks at the trees of its  *)
(* own window only.                                                        *)
BandOrTree == \A w \in windows : DrawnInBand(w) \cap Placed = {}

(* No id that is about to be minted is in use: not by a surface, not by a  *)
(* tab, not by a terminal still being spawned, not by a pane or a cluster. *)
SurfacesCounted ==
  \A s \in Live \cup Placed \cup {x[1] : x \in spawning} : s[2] <= counters.ord[s[1]]
LayoutCounted ==
  /\ \A w \in windows : w <= counters.windows
  /\ \A c \in LiveClusters : c <= counters.clusters
  /\ \A p \in LivePanes : p <= counters.panes
NothingReminted == SurfacesCounted /\ LayoutCounted

(* What is gone holds nothing that could come back with a reused id: no    *)
(* clusters of a window, no panes of a cluster, no tabs of a pane.         *)
ClosedIsEmpty ==
  /\ \A w \in Label \ windows : clusters[w] = {} /\ activeCluster[w] = None
  /\ \A c \in ClusterId \ LiveClusters : panes[c] = {}
PrunedIsEmpty == \A p \in PaneId \ LivePanes : tabs[p] = {}

(* A window that showed a cluster and still holds one shows one, unless    *)
(* the user asked for none: losing the cluster on screen to a close, a     *)
(* move or a detach brings up a neighbour.                                 *)
NeighbourShown ==
  [][\A w \in windows \cap windows' :
       activeCluster[w] # None /\ clusters[w]' # {} /\ clusters[w]' # clusters[w]
         => activeCluster[w]' \in clusters[w]']_vars

(* Opening, closing and merging windows loses nothing: every surface is    *)
(* where it was or was just minted.                                        *)
WindowsLoseNothing ==
  [][windows # windows' =>
       /\ Live \subseteq Live'
       /\ Placed \subseteq Placed']_vars

(* A surface that comes to a pane takes a takeover surface covering that   *)
(* pane away.                                                              *)
Covering(p) == {u \in tabs[p] \cap instances : u[1] \in Takeover}

ArrivalDismisses ==
  [][\A p \in LivePanes \cap LivePanes' :
       (\E s \in tabs[p]' \ tabs[p] : s[1] \notin Takeover) /\ Covering(p) # {}
         => Covering(p)' # Covering(p)]_vars

=============================================================================
