-------------------------- MODULE ShellState_proofs --------------------------
(***************************************************************************)
(* Proofs about ShellState, for every number of windows, clusters, panes   *)
(* and surfaces, every set of apps and every setting of the switches.      *)
(***************************************************************************)
EXTENDS ShellState, WellFoundedInduction, NaturalsInduction, TLAPS

USE DEF None, Main, TermKind

-----------------------------------------------------------------------------
(* The smallest and the greatest of a set of numbers *)

(* A set of natural numbers that is not empty has a least element, < being *)
(* well-founded.                                                           *)
LEMMA MinimalExists ==
  ASSUME NEW R, NEW S, IsWellFoundedOn(R, Nat), S \subseteq Nat, S # {}
  PROVE  \E n \in S : \A m \in S : ~(<<m, n>> \in R)
BY WFMin

(* The same, stated for a relation that is < on the naturals. *)
LEMMA LeastByRelation ==
  ASSUME NEW R, NEW S, IsWellFoundedOn(R, Nat), S \subseteq Nat, S # {},
         \A m, n \in Nat : <<m, n>> \in R <=> m < n
  PROVE  \E n \in S : \A m \in S : n <= m
<1>1. PICK n \in S : \A m \in S : ~(<<m, n>> \in R)
  BY MinimalExists
<1>2. \A m \in S : n <= m
  <2> TAKE m \in S
  <2>1. m \in Nat /\ n \in Nat
    OBVIOUS
  <2>2. ~(m < n)
    BY <1>1, <2>1
  <2> QED BY <2>1, <2>2
<1> QED BY <1>2

(* So every nonempty set of natural numbers has a least element. *)
LEMMA LeastExists ==
  ASSUME NEW S, S \subseteq Nat, S # {}
  PROVE  \E n \in S : \A m \in S : n <= m
<1>1. \A m, n \in Nat : <<m, n>> \in OpToRel(<, Nat) <=> m < n
  BY DEF OpToRel
<1> QED BY <1>1, NatLessThanWellFounded, LeastByRelation

(* And every nonempty set of naturals with a bound has a greatest one. *)
LEMMA GreatestExists ==
  ASSUME NEW N \in Nat, NEW S \in SUBSET (0..N), S # {}
  PROVE  \E n \in S : \A m \in S : m <= n
<1> DEFINE D == {N - m : m \in S}
<1>1. D \subseteq Nat /\ D # {}
  <2>1. \A m \in S : N - m \in Nat
    OBVIOUS
  <2> QED BY <2>1
<1>2. PICK d \in D : \A e \in D : d <= e
  BY <1>1, LeastExists
<1>3. PICK n \in S : d = N - n
  BY <1>2
<1>4. \A m \in S : m <= n
  <2> TAKE m \in S
  <2>1. N - m \in D
    OBVIOUS
  <2>2. N - n <= N - m
    BY <1>2, <1>3, <2>1
  <2> QED BY <2>2
<1> QED BY <1>4

(* `Highest` is the greatest of a bounded set of numbers, and 0 for none. *)
LEMMA HighestIsGreatest ==
  ASSUME NEW N \in Nat, NEW S \in SUBSET (0..N)
  PROVE  /\ Highest(S) \in 0..N
         /\ \A m \in S : m <= Highest(S)
<1>1. CASE S = {}
  BY <1>1 DEF Highest
<1>2. CASE S # {}
  <2>1. PICK n \in S : \A m \in S : m <= n
    BY <1>2, GreatestExists
  <2> QED BY <1>2, <2>1 DEF Highest
<1> QED BY <1>1, <1>2

(* `FirstTerminal` returns a member of the set it is given. *)
LEMMA FirstTerminalIsMember ==
  ASSUME NEW S \in SUBSET Terminal, S # {}
  PROVE  FirstTerminal(S) \in S
<1> DEFINE D == {t[2] : t \in S}
<1>1. D \subseteq Nat /\ D # {}
  BY ConstantsAssumption DEF Terminal, Of
<1>2. PICK d \in D : \A e \in D : d <= e
  BY <1>1, LeastExists
<1>3. PICK t \in S : t[2] = d
  BY <1>2
<1>4. \A u \in S : t[2] <= u[2]
  BY <1>2, <1>3
<1> QED BY <1>4 DEF FirstTerminal

-----------------------------------------------------------------------------
(* What the tree operators return *)

Tabs == [PaneId -> SUBSET Surface]
Trees == [ClusterId -> SUBSET PaneId]

(* Taking a tab out of trees leaves sets of surfaces. *)
LEMMA TakenOutType ==
  ASSUME NEW T \in Tabs, NEW P, NEW C, NEW s
  PROVE  TakenOut(T, P, C, s) \in Tabs
BY DEF Tabs, TakenOut

(* Pruning keeps some of the panes, and never none. *)
LEMMA PrunedKeepsSome ==
  ASSUME NEW T, NEW Q, Q # {}
  PROVE  Pruned(T, Q) \subseteq Q /\ Pruned(T, Q) # {}
BY DEF Pruned

(* Pruning the trees a surface is taken from empties none of them. *)
LEMMA PrunedWhereKeepsSome ==
  ASSUME NEW T, NEW P \in Trees, NEW C, NEW s
  PROVE  /\ PrunedWhere(T, P, C, s) \in Trees
         /\ \A c \in ClusterId : /\ PrunedWhere(T, P, C, s)[c] \subseteq P[c]
                                 /\ P[c] # {} => PrunedWhere(T, P, C, s)[c] # {}
<1>1. \A c \in ClusterId : Holders(tabs, P[c], s) # {} =>
        Pruned(T, P[c]) \subseteq P[c] /\ Pruned(T, P[c]) # {}
  BY PrunedKeepsSome DEF Holders
<1> QED BY <1>1 DEF PrunedWhere, Trees

(* A surface dismissed is one of the live instances. *)
LEMMA InTheWayIsLive ==
  ASSUME NEW here, NEW I, NEW gone \in InTheWay(here, I)
  PROVE  gone = NoSurface \/ (gone \in here /\ gone \in I)
BY DEF InTheWay

(* The next trees are those of P, but for c's, which may have lost panes   *)
(* and gained the pane `new`, and is not left without one.                 *)
OnlyGains(P, c, new) ==
  /\ panes' \in Trees
  /\ panes'[c] \subseteq P[c] \cup ({new} \ {None}) /\ panes'[c] # {}
  /\ \A d \in ClusterId \ {c} : panes'[d] = P[d]

(* `place_surface` disturbs the tree of its own cluster only, which gains  *)
(* at most the pane minted for it, and adds the instances it opened.       *)
LEMMA PlaceSurfaceType ==
  ASSUME NEW T \in Tabs, NEW P \in Trees, NEW I \in SUBSET Surface,
         NEW opened \in SUBSET Surface, NEW c \in ClusterId, NEW s \in Surface,
         NEW asked, NEW new \in PaneId \cup {None}, NEW evict \in BOOLEAN,
         PlaceSurface(T, P, I, opened, c, s, asked, new, evict)
  PROVE  /\ tabs' \in Tabs
         /\ panes' \in Trees
         /\ instances' \in SUBSET Surface
         /\ OnlyGains(P, c, new)
<1>1. PICK target \in IF asked \in P[c] THEN {asked} ELSE P[c] :
        LET lifted == TakenOut(T, P, {c}, s)
        IN \E gone \in IF evict THEN InTheWay(lifted[target], I) ELSE {NoSurface} :
             LET moved == Holders(T, P[c], s) # {}
                 cleared == [lifted EXCEPT ![target] = @ \ {gone}]
                 splits == new # None /\ Cardinality(P[c]) < MaxAutoPanes /\ cleared[target] # {}
                 at == IF splits THEN new ELSE target
                 landed == [cleared EXCEPT ![at] = @ \cup {s}]
                 held == P[c] \cup {at}
             IN /\ tabs' = landed
                /\ panes' = [P EXCEPT ![c] = IF moved THEN Pruned(landed, held) ELSE held]
                /\ instances' = (I \ {gone}) \cup opened
  BY DEF PlaceSurface
<1> DEFINE lifted == TakenOut(T, P, {c}, s)
           moved == Holders(T, P[c], s) # {}
<1>2. PICK gone \in IF evict THEN InTheWay(lifted[target], I) ELSE {NoSurface} :
             LET cleared == [lifted EXCEPT ![target] = @ \ {gone}]
                 splits == new # None /\ Cardinality(P[c]) < MaxAutoPanes /\ cleared[target] # {}
                 at == IF splits THEN new ELSE target
                 landed == [cleared EXCEPT ![at] = @ \cup {s}]
                 held == P[c] \cup {at}
             IN /\ tabs' = landed
                /\ panes' = [P EXCEPT ![c] = IF moved THEN Pruned(landed, held) ELSE held]
                /\ instances' = (I \ {gone}) \cup opened
  BY <1>1
<1> DEFINE cleared == [lifted EXCEPT ![target] = @ \ {gone}]
           splits == new # None /\ Cardinality(P[c]) < MaxAutoPanes /\ cleared[target] # {}
           at == IF splits THEN new ELSE target
           landed == [cleared EXCEPT ![at] = @ \cup {s}]
           held == P[c] \cup {at}
<1>3. target \in P[c] /\ target \in PaneId
  BY DEF Trees
<1>4. lifted \in Tabs
  BY TakenOutType
<1>5. cleared \in Tabs
  BY <1>3, <1>4 DEF Tabs
<1>6. at \in PaneId /\ at \in P[c] \cup ({new} \ {None})
  BY <1>3
<1>7. landed \in Tabs
  BY <1>5, <1>6 DEF Tabs
<1>8. held # {} /\ held \subseteq P[c] \cup ({new} \ {None}) /\ held \subseteq PaneId
  BY <1>3, <1>6 DEF Trees
<1>9. Pruned(landed, held) \subseteq held /\ Pruned(landed, held) # {}
  BY <1>8, PrunedKeepsSome
<1>10. /\ tabs' = landed
       /\ panes' = [P EXCEPT ![c] = IF moved THEN Pruned(landed, held) ELSE held]
       /\ instances' = (I \ {gone}) \cup opened
  BY <1>2
<1> HIDE DEF landed, held, moved
<1>11. panes' \in Trees /\ panes'[c] \subseteq held /\ panes'[c] # {}
       /\ \A d \in ClusterId \ {c} : panes'[d] = P[d]
  BY <1>8, <1>9, <1>10 DEF Trees
<1>12. OnlyGains(P, c, new)
  BY <1>8, <1>11 DEF OnlyGains
<1> QED BY <1>7, <1>10, <1>11, <1>12

(* The repair gives every cluster a terminal or none. *)
LEMMA ReseatType ==
  ASSUME NEW wanted \in [ClusterId -> Terminal \cup {NoSurface}],
         Reseat(wanted), terminals' \in SUBSET Terminal
  PROVE  activeTerminal' \in [ClusterId -> Terminal \cup {NoSurface}]
<1>1. \A c \in ClusterId : Band(c)' \subseteq Terminal
  BY DEF Band, TerminalsOfCluster
<1>2. \A c \in ClusterId : Band(c)' # {} => FirstTerminal(Band(c)') \in Terminal
  BY <1>1, FirstTerminalIsMember
<1> QED BY <1>2 DEF Reseat

-----------------------------------------------------------------------------
(* Type correctness *)

LEMMA TypeInit == Init => TypeOK
BY ConstantsAssumption
   DEF Init, TypeOK, WindowsType, TreesType, TerminalsType, BandsType, CountersType,
       Label, ClusterId, PaneId, Surface, Terminal, Of, Kind, NoSurface

(* Taking a surface out of a set of trees, and pruning what it leaves. *)
LEMMA LiftedTypes ==
  ASSUME TreesType, NEW C, NEW s
  PROVE  /\ TakenOut(tabs, panes, C, s) \in Tabs
         /\ PrunedWhere(TakenOut(tabs, panes, C, s), panes, C, s) \in Trees
BY TakenOutType, PrunedWhereKeepsSome DEF TreesType, Tabs, Trees

(* Minting ids keeps the counters within their bounds. *)
LEMMA CountersMint ==
  ASSUME CountersType,
         NEW w \in Label, NEW c \in 0..MaxCluster, NEW p \in 0..MaxPane,
         NEW k \in Kind, NEW n \in Nat, n <= MaxOrdinal[k],
         counters' = [counters EXCEPT !.windows = w, !.clusters = c, !.panes = p, !.ord[k] = n]
  PROVE  CountersType'
<1>1. counters' \in [windows : Label, clusters : 0..MaxCluster, panes : 0..MaxPane, ord : [Kind -> Nat]]
  BY DEF CountersType
<1>2. counters'.ord = [counters.ord EXCEPT ![k] = n]
  BY DEF CountersType
<1> QED BY <1>1, <1>2 DEF CountersType

(* The next id of each sort, while the bound allows one. *)
LEMMA NextIds ==
  ASSUME CountersType
  PROVE  /\ counters.windows + 1 <= MaxWindow => counters.windows + 1 \in Label
         /\ counters.clusters + 1 <= MaxCluster => counters.clusters + 1 \in ClusterId
         /\ counters.panes + 1 <= MaxPane => counters.panes + 1 \in PaneId
         /\ \A k \in Kind : /\ counters.ord[k] \in Nat
                            /\ counters.ord[k] + 1 <= MaxOrdinal[k] =>
                                 <<k, counters.ord[k] + 1>> \in Of(k)
BY ConstantsAssumption DEF CountersType, Label, ClusterId, PaneId, Of, Kind

(* Home and the terminals are kinds, and the surfaces of a kind are        *)
(* surfaces.                                                               *)
LEMMA KindsAndSurfaces ==
  /\ Home \in Kind /\ TermKind \in Kind /\ Apps \subseteq Kind
  /\ Terminal \subseteq Surface
  /\ \A k \in Kind : Of(k) \subseteq Surface
BY ConstantsAssumption DEF Kind, Terminal, Surface

(* AddCluster keeps every type. *)
LEMMA AddClusterType ==
  ASSUME TypeOK, NEW w \in Label, AddCluster(w)
  PROVE  TypeOK'
<1> DEFINE c == counters.clusters + 1
           p == counters.panes + 1
           h == <<Home, counters.ord[Home] + 1>>
<1>1. c \in ClusterId /\ p \in PaneId /\ h \in Surface
  BY NextIds, KindsAndSurfaces DEF AddCluster, TypeOK
<1>2. WindowsType'
  BY <1>1 DEF AddCluster, TypeOK, WindowsType
<1>3. TreesType'
  BY <1>1 DEF AddCluster, TypeOK, TreesType
<1>4. TerminalsType'
  BY DEF AddCluster, TypeOK, TerminalsType
<1>5. BandsType'
  BY <1>4, ReseatType DEF AddCluster, TypeOK, TerminalsType, BandsType
<1>6. CountersType'
  <2>1. counters' = [counters EXCEPT !.windows = counters.windows, !.clusters = c, !.panes = p,
                                     !.ord[Home] = h[2]]
    BY DEF AddCluster, TypeOK, CountersType
  <2>2. /\ counters.windows \in Label /\ c \in 0..MaxCluster /\ p \in 0..MaxPane
        /\ h[2] \in Nat /\ h[2] <= MaxOrdinal[Home]
    BY <1>1, KindsAndSurfaces DEF AddCluster, TypeOK, ClusterId, PaneId, CountersType
  <2> QED BY <2>1, <2>2, CountersMint, KindsAndSurfaces DEF TypeOK
<1> QED BY <1>2, <1>3, <1>4, <1>5, <1>6 DEF TypeOK

(* NewWindow keeps every type. *)
LEMMA NewWindowType ==
  ASSUME TypeOK, NewWindow
  PROVE  TypeOK'
<1> DEFINE w == counters.windows + 1
           c == counters.clusters + 1
           p == counters.panes + 1
           h == <<Home, counters.ord[Home] + 1>>
<1>1. w \in Label /\ c \in ClusterId /\ p \in PaneId /\ h \in Surface
  BY NextIds, KindsAndSurfaces DEF NewWindow, TypeOK
<1>2. WindowsType'
  BY <1>1 DEF NewWindow, TypeOK, WindowsType
<1>3. TreesType'
  BY <1>1 DEF NewWindow, TypeOK, TreesType
<1>4. TerminalsType'
  BY DEF NewWindow, TypeOK, TerminalsType
<1>5. BandsType'
  BY <1>4, ReseatType DEF NewWindow, TypeOK, TerminalsType, BandsType
<1>6. CountersType'
  <2>1. counters' = [counters EXCEPT !.windows = w, !.clusters = c, !.panes = p, !.ord[Home] = h[2]]
    BY DEF NewWindow
  <2>2. c \in 0..MaxCluster /\ p \in 0..MaxPane /\ h[2] \in Nat /\ h[2] <= MaxOrdinal[Home]
    BY <1>1, KindsAndSurfaces DEF NewWindow, TypeOK, ClusterId, PaneId, CountersType
  <2> QED BY <1>1, <2>1, <2>2, CountersMint, KindsAndSurfaces DEF TypeOK
<1> QED BY <1>2, <1>3, <1>4, <1>5, <1>6 DEF TypeOK

(* SetActiveCluster keeps every type. *)
LEMMA SetActiveClusterType ==
  ASSUME TypeOK, NEW w \in Label, NEW c \in ClusterId \cup {None}, SetActiveCluster(w, c)
  PROVE  TypeOK'
<1>1. WindowsType'
  BY DEF SetActiveCluster, TypeOK, WindowsType
<1>2. TreesType' /\ TerminalsType' /\ CountersType'
  BY DEF SetActiveCluster, TypeOK, TreesType, TerminalsType, CountersType
<1>3. BandsType'
  BY <1>2, ReseatType DEF SetActiveCluster, TypeOK, TerminalsType, BandsType
<1> QED BY <1>1, <1>2, <1>3 DEF TypeOK

(* What a window shows after one of its clusters goes is a cluster or      *)
(* nothing.                                                                *)
LEMMA AfterTakingIsCluster ==
  ASSUME WindowsType, NEW w \in Label, NEW c, NEW next \in AfterTaking(w, c)
  PROVE  next \in ClusterId \cup {None}
BY DEF WindowsType, AfterTaking

(* CloseCluster keeps every type. *)
LEMMA CloseClusterType ==
  ASSUME TypeOK, NEW w \in Label, NEW c \in ClusterId, CloseCluster(w, c)
  PROVE  TypeOK'
<1>1. WindowsType'
  BY AfterTakingIsCluster DEF CloseCluster, TypeOK, WindowsType
<1>2. TreesType'
  BY DEF CloseCluster, TypeOK, TreesType
<1>3. TerminalsType'
  BY DEF CloseCluster, TypeOK, TerminalsType
<1>4. CountersType'
  BY DEF CloseCluster, TypeOK, CountersType
<1>5. BandsType'
  BY <1>3, ReseatType DEF CloseCluster, TypeOK, TerminalsType, BandsType
<1> QED BY <1>1, <1>2, <1>3, <1>4, <1>5 DEF TypeOK

(* MoveCluster keeps every type. *)
LEMMA MoveClusterType ==
  ASSUME TypeOK, NEW w \in Label, NEW c \in ClusterId, NEW to \in Label, MoveCluster(w, c, to)
  PROVE  TypeOK'
<1>1. WindowsType'
  BY AfterTakingIsCluster DEF MoveCluster, TypeOK, WindowsType
<1>2. TreesType' /\ TerminalsType'
  BY DEF MoveCluster, TypeOK, TreesType, TerminalsType
<1>3. CountersType'
  BY DEF MoveCluster, TypeOK, CountersType
<1>4. BandsType'
  BY <1>2, ReseatType DEF MoveCluster, TypeOK, TerminalsType, BandsType
<1> QED BY <1>1, <1>2, <1>3, <1>4 DEF TypeOK

(* CloseWindow keeps every type. *)
LEMMA CloseWindowType ==
  ASSUME TypeOK, NEW w \in Label, CloseWindow(w)
  PROVE  TypeOK'
<1>1. WindowsType'
  BY ConstantsAssumption DEF CloseWindow, HandedOver, TypeOK, WindowsType, Label
<1>2. TreesType' /\ TerminalsType' /\ CountersType'
  BY DEF CloseWindow, TypeOK, TreesType, TerminalsType, CountersType
<1>3. BandsType'
  BY <1>2, ReseatType DEF CloseWindow, TypeOK, TerminalsType, BandsType
<1> QED BY <1>1, <1>2, <1>3 DEF TypeOK

(* OpenInstance keeps every type. *)
LEMMA OpenInstanceType ==
  ASSUME TypeOK, NEW app \in Apps, NEW w \in Label, NEW asked \in PaneId \cup {None},
         NEW split \in BOOLEAN, OpenInstance(app, w, asked, split)
  PROVE  TypeOK'
<1> DEFINE s == <<app, counters.ord[app] + 1>>
           new == IF split THEN counters.panes + 1 ELSE None
           owner == {c \in clusters[w] : asked \in panes[c]}
           into == IF owner # {} THEN owner ELSE {activeCluster[w]} \cap ClusterId
<1>1. s \in Surface /\ {s} \in SUBSET Surface /\ new \in PaneId \cup {None}
  BY NextIds, KindsAndSurfaces DEF OpenInstance, TypeOK
<1>2. into \subseteq ClusterId
  BY DEF TypeOK, WindowsType
<1>3. WindowsType' /\ TerminalsType'
  BY DEF OpenInstance, TypeOK, WindowsType, TerminalsType
<1>4. TreesType'
  <2>1. CASE UNCHANGED <<panes, tabs, instances>>
    BY <2>1 DEF TypeOK, TreesType
  <2>2. CASE \E c \in into :
               PlaceSurface(tabs, panes, instances, {s}, c, s, asked, new, app \notin Takeover)
    <3>1. PICK c \in into :
               PlaceSurface(tabs, panes, instances, {s}, c, s, asked, new, app \notin Takeover)
      BY <2>2
    <3>2. c \in ClusterId
      BY <1>2
    <3> QED BY <1>1, <3>1, <3>2, PlaceSurfaceType DEF TypeOK, TreesType, Tabs, Trees
  <2> QED BY <2>1, <2>2 DEF OpenInstance
<1>5. CountersType'
  <2> DEFINE p == IF split THEN new ELSE counters.panes
  <2>1. counters' = [counters EXCEPT !.windows = counters.windows, !.clusters = counters.clusters,
                                     !.panes = p, !.ord[app] = s[2]]
    BY DEF OpenInstance, TypeOK, CountersType
  <2>2. /\ counters.windows \in Label /\ counters.clusters \in 0..MaxCluster /\ p \in 0..MaxPane
        /\ s[2] \in Nat /\ s[2] <= MaxOrdinal[app]
    BY <1>1, KindsAndSurfaces DEF OpenInstance, TypeOK, PaneId, CountersType
  <2> QED BY <2>1, <2>2, CountersMint, KindsAndSurfaces DEF TypeOK
<1>6. BandsType'
  BY <1>3, ReseatType DEF OpenInstance, TypeOK, TerminalsType, BandsType
<1> QED BY <1>3, <1>4, <1>5, <1>6 DEF TypeOK

(* CloseInstance keeps every type. *)
LEMMA CloseInstanceType ==
  ASSUME TypeOK, NEW s \in Surface, CloseInstance(s)
  PROVE  TypeOK'
<1>1. WindowsType' /\ TerminalsType' /\ CountersType'
  BY DEF CloseInstance, TypeOK, WindowsType, TerminalsType, CountersType
<1>2. TreesType'
  BY LiftedTypes DEF CloseInstance, TypeOK, TreesType, Tabs, Trees
<1>3. BandsType'
  BY <1>1, ReseatType DEF CloseInstance, TypeOK, TerminalsType, BandsType
<1> QED BY <1>1, <1>2, <1>3 DEF TypeOK

(* ActivateInstance keeps every type. *)
LEMMA ActivateInstanceType ==
  ASSUME TypeOK, NEW w \in Label, NEW c \in ClusterId, ActivateInstance(w, c)
  PROVE  TypeOK'
<1>1. WindowsType'
  BY DEF ActivateInstance, TypeOK, WindowsType
<1>2. TreesType' /\ TerminalsType' /\ CountersType'
  BY DEF ActivateInstance, TypeOK, TreesType, TerminalsType, CountersType
<1>3. BandsType'
  BY <1>2, ReseatType DEF ActivateInstance, TypeOK, TerminalsType, BandsType
<1> QED BY <1>1, <1>2, <1>3 DEF TypeOK

(* MoveInstance keeps every type. *)
LEMMA MoveInstanceType ==
  ASSUME TypeOK, NEW s \in Surface, NEW w \in Label, NEW c \in ClusterId, NEW p \in PaneId,
         MoveInstance(s, w, c, p)
  PROVE  TypeOK'
<1> DEFINE lifted == TakenOut(tabs, panes, Elsewhere(w, c), s)
           left == PrunedWhere(lifted, panes, Elsewhere(w, c), s)
           evict == ~(s \in instances /\ s[1] \in Takeover)
<1>1. WindowsType'
  BY DEF MoveInstance, TypeOK, WindowsType
<1>2. TerminalsType' /\ CountersType'
  BY DEF MoveInstance, TypeOK, TerminalsType, CountersType
<1>3. TreesType'
  <2>1. lifted \in Tabs /\ left \in Trees
    BY LiftedTypes DEF TypeOK
  <2>2. PlaceSurface(lifted, left, instances, {}, c, s, p, None, evict)
    BY DEF MoveInstance
  <2> HIDE DEF lifted, left
  <2> QED BY <2>1, <2>2, PlaceSurfaceType DEF TypeOK, TreesType, Tabs, Trees
<1>4. BandsType'
  BY <1>2, ReseatType DEF MoveInstance, TypeOK, TerminalsType, BandsType
<1> QED BY <1>1, <1>2, <1>3, <1>4 DEF TypeOK

(* SplitWithInstance keeps every type. *)
LEMMA SplitWithInstanceType ==
  ASSUME TypeOK, NEW s \in Surface, NEW w \in Label, NEW c \in ClusterId, NEW p \in PaneId,
         SplitWithInstance(s, w, c, p)
  PROVE  TypeOK'
<1> DEFINE new == counters.panes + 1
           lifted == TakenOut(tabs, panes, LiveClusters, s)
           left == PrunedWhere(lifted, panes, LiveClusters, s)
<1>1. new \in PaneId
  BY NextIds DEF SplitWithInstance, TypeOK
<1>2. lifted \in Tabs /\ left \in Trees
  BY LiftedTypes DEF TypeOK
<1>3. \/ /\ tabs' = [lifted EXCEPT ![new] = {s}]
         /\ panes' = [left EXCEPT ![c] = @ \cup {new}]
         /\ activeCluster' = [activeCluster EXCEPT ![w] = c]
      \/ tabs' = lifted /\ panes' = left /\ UNCHANGED activeCluster
  BY DEF SplitWithInstance
<1>4. UNCHANGED <<windows, clusters, instances, terminals, clusterOf, groupOf, spawning>>
  BY DEF SplitWithInstance
<1> HIDE DEF lifted, left
<1>5. WindowsType'
  BY <1>3, <1>4 DEF TypeOK, WindowsType
<1>6. TreesType'
  BY <1>1, <1>2, <1>3, <1>4 DEF TypeOK, TreesType, Tabs, Trees
<1>7. TerminalsType'
  BY <1>4 DEF TypeOK, TerminalsType
<1>8. CountersType'
  BY DEF SplitWithInstance, TypeOK, CountersType
<1>9. BandsType'
  BY <1>7, ReseatType DEF SplitWithInstance, TypeOK, TerminalsType, BandsType
<1> QED BY <1>5, <1>6, <1>7, <1>8, <1>9 DEF TypeOK

(* DetachInstance keeps every type. *)
LEMMA DetachInstanceType ==
  ASSUME TypeOK, NEW s \in Surface, DetachInstance(s)
  PROVE  TypeOK'
<1> DEFINE w == counters.windows + 1
           c == counters.clusters + 1
           p == counters.panes + 1
           lifted == TakenOut(tabs, panes, LiveClusters, s)
           left == PrunedWhere(lifted, panes, LiveClusters, s)
<1>1. w \in Label /\ c \in ClusterId /\ p \in PaneId
  BY NextIds DEF DetachInstance, TypeOK
<1>2. lifted \in Tabs /\ left \in Trees
  BY LiftedTypes DEF TypeOK
<1>3. \/ UNCHANGED <<windows, clusters, activeCluster, panes, tabs, clusterOf>>
      \/ /\ windows' = windows \cup {w}
         /\ clusters' = [clusters EXCEPT ![w] = {c}]
         /\ activeCluster' = [activeCluster EXCEPT ![w] = c]
         /\ panes' = [left EXCEPT ![c] = {p}]
         /\ tabs' = [lifted EXCEPT ![p] = {s}]
         /\ clusterOf' = [t \in Terminal |-> IF t = s /\ t \in terminals THEN c ELSE clusterOf[t]]
  BY DEF DetachInstance
<1>4. UNCHANGED <<instances, terminals, groupOf, spawning>>
  BY DEF DetachInstance
<1> HIDE DEF lifted, left
<1>5. WindowsType'
  BY <1>1, <1>3 DEF TypeOK, WindowsType
<1>6. TreesType'
  BY <1>1, <1>2, <1>3, <1>4 DEF TypeOK, TreesType, Tabs, Trees
<1>7. TerminalsType'
  BY <1>1, <1>3, <1>4 DEF TypeOK, TerminalsType
<1>8. CountersType'
  <2>1. counters' = [counters EXCEPT !.windows = w, !.clusters = c, !.panes = p]
    BY DEF DetachInstance
  <2>2. c \in 0..MaxCluster /\ p \in 0..MaxPane
    BY <1>1 DEF ClusterId, PaneId
  <2> HIDE DEF w, c, p
  <2> QED BY <1>1, <2>1, <2>2 DEF TypeOK, CountersType
<1>9. BandsType'
  BY <1>7, ReseatType DEF DetachInstance, TypeOK, TerminalsType, BandsType
<1> QED BY <1>5, <1>6, <1>7, <1>8, <1>9 DEF TypeOK

(* The next terminal's id, and its counter. *)
LEMMA NextTerminalType ==
  ASSUME CountersType, CanMintTerminal
  PROVE  /\ NextTerminal \in Terminal
         /\ counters.ord[TermKind] + 1 \in Nat
         /\ counters.ord[TermKind] + 1 <= MaxOrdinal[TermKind]
BY KindsAndSurfaces, ConstantsAssumption
   DEF CountersType, CanMintTerminal, NextTerminal, Terminal, Of, Kind

(* The lines `create_terminal`, `split_terminal` and the worker share keep *)
(* every type.                                                             *)
LEMMA AddTerminalType ==
  ASSUME TypeOK, NEW c \in ClusterId, NEW sibling \in Terminal, AddTerminal(c, sibling)
  PROVE  TypeOK'
<1> DEFINE t == NextTerminal
           gid == IF groupOf[sibling] = NoSurface THEN sibling ELSE groupOf[sibling]
<1>1. t \in Terminal
  BY NextTerminalType DEF AddTerminal, TypeOK
<1>2. WindowsType' /\ TreesType'
  BY DEF AddTerminal, TypeOK, WindowsType, TreesType
<1>3. gid \in Terminal
  BY DEF TypeOK, TerminalsType
<1>4. TerminalsType'
  BY <1>1, <1>3 DEF AddTerminal, TypeOK, TerminalsType
<1>5. CountersType'
  <2>1. counters' = [counters EXCEPT !.ord[TermKind] = counters.ord[TermKind] + 1]
    BY DEF AddTerminal
  <2>2. TermKind \in Kind
    BY KindsAndSurfaces
  <2> QED BY <2>1, <2>2, NextTerminalType DEF AddTerminal, TypeOK, CountersType
<1>6. BandsType'
  <2>1. [activeTerminal EXCEPT ![c] = t] \in [ClusterId -> Terminal \cup {NoSurface}]
    BY <1>1 DEF TypeOK, BandsType
  <2> QED BY <1>4, <2>1, ReseatType DEF AddTerminal, TerminalsType, BandsType
<1> QED BY <1>2, <1>4, <1>5, <1>6 DEF TypeOK

(* CreateTerminal keeps every type. *)
LEMMA CreateTerminalType ==
  ASSUME TypeOK, NEW w \in Label, CreateTerminal(w)
  PROVE  TypeOK'
<1>1. activeCluster[w] \in ClusterId /\ NextTerminal \in Terminal
  BY NextTerminalType DEF CreateTerminal, AddTerminal, TypeOK, WindowsType
<1> QED BY <1>1, AddTerminalType DEF CreateTerminal

(* SplitTerminal keeps every type. *)
LEMMA SplitTerminalType ==
  ASSUME TypeOK, NEW t \in Terminal, SplitTerminal(t)
  PROVE  TypeOK'
<1>1. clusterOf[t] \in ClusterId
  BY DEF SplitTerminal, AddTerminal, LiveClusters, TypeOK, TerminalsType, WindowsType
<1> QED BY <1>1, AddTerminalType DEF SplitTerminal

(* Recording a terminal as the tab of a pane keeps every type. *)
LEMMA AddTerminalInPaneType ==
  ASSUME TypeOK, NEW t \in Terminal, NEW c \in ClusterId, NEW asked \in PaneId,
         NEW new \in PaneId \cup {None}, AddTerminalInPane(t, c, asked, new),
         spawning' \in SUBSET (Terminal \X ClusterId \X PaneId)
  PROVE  WindowsType' /\ TreesType' /\ TerminalsType' /\ BandsType'
<1>1. WindowsType'
  BY DEF AddTerminalInPane, TypeOK, WindowsType
<1>2. TreesType'
  <2>1. CASE UNCHANGED <<panes, tabs, instances>>
    BY <2>1 DEF TypeOK, TreesType
  <2>2. CASE PlaceSurface(tabs, panes, instances, {}, c, t, asked, new, TRUE)
    BY <2>2, PlaceSurfaceType, KindsAndSurfaces DEF TypeOK, TreesType, Tabs, Trees
  <2> QED BY <2>1, <2>2 DEF AddTerminalInPane
<1>3. TerminalsType'
  BY DEF AddTerminalInPane, TypeOK, TerminalsType
<1>4. BandsType'
  BY <1>3, ReseatType DEF AddTerminalInPane, TypeOK, TerminalsType, BandsType
<1> QED BY <1>1, <1>2, <1>3, <1>4

(* OpenTerminalInPane keeps every type. *)
LEMMA OpenTerminalInPaneType ==
  ASSUME TypeOK, NEW w \in Label, NEW asked \in PaneId, NEW split \in BOOLEAN,
         OpenTerminalInPane(w, asked, split)
  PROVE  TypeOK'
<1> DEFINE new == IF split THEN counters.panes + 1 ELSE None
<1>1. NextTerminal \in Terminal /\ activeCluster[w] \in ClusterId /\ new \in PaneId \cup {None}
  BY NextTerminalType, NextIds DEF OpenTerminalInPane, TypeOK, WindowsType
<1>2. WindowsType' /\ TreesType' /\ TerminalsType' /\ BandsType'
  BY <1>1, AddTerminalInPaneType DEF OpenTerminalInPane, TypeOK, TerminalsType
<1>3. CountersType'
  <2> DEFINE p == IF split THEN new ELSE counters.panes
             n == counters.ord[TermKind] + 1
  <2>1. counters' = [counters EXCEPT !.windows = counters.windows, !.clusters = counters.clusters,
                                     !.panes = p, !.ord[TermKind] = n]
    BY DEF OpenTerminalInPane, TypeOK, CountersType
  <2>2. /\ counters.windows \in Label /\ counters.clusters \in 0..MaxCluster /\ p \in 0..MaxPane
        /\ n \in Nat /\ n <= MaxOrdinal[TermKind]
    BY <1>1, NextTerminalType DEF OpenTerminalInPane, TypeOK, PaneId, CountersType
  <2> HIDE DEF p, n
  <2> QED BY <2>1, <2>2, CountersMint, KindsAndSurfaces DEF TypeOK
<1> QED BY <1>2, <1>3 DEF TypeOK

(* WorkerSpawn keeps every type. *)
LEMMA WorkerSpawnType ==
  ASSUME TypeOK, NEW c \in ClusterId, NEW asked \in PaneId, WorkerSpawn(c, asked)
  PROVE  TypeOK'
<1>1. WindowsType' /\ TreesType' /\ BandsType'
  BY DEF WorkerSpawn, TypeOK, WindowsType, TreesType, BandsType
<1>2. NextTerminal \in Terminal
  BY NextTerminalType DEF WorkerSpawn, TypeOK
<1>3. TerminalsType'
  BY <1>2 DEF WorkerSpawn, TypeOK, TerminalsType
<1>4. CountersType'
  <2>1. counters' = [counters EXCEPT !.ord[TermKind] = counters.ord[TermKind] + 1]
    BY DEF WorkerSpawn
  <2>2. TermKind \in Kind
    BY KindsAndSurfaces
  <2> QED BY <2>1, <2>2, NextTerminalType DEF WorkerSpawn, TypeOK, CountersType
<1> QED BY <1>1, <1>3, <1>4 DEF TypeOK

(* WorkerAdd keeps every type. *)
LEMMA WorkerAddType ==
  ASSUME TypeOK, NEW x \in spawning, WorkerAdd(x)
  PROVE  TypeOK'
<1>1. x[1] \in Terminal /\ x[2] \in ClusterId /\ x[3] \in PaneId
  BY DEF TypeOK, TerminalsType
<1>2. spawning' \in SUBSET (Terminal \X ClusterId \X PaneId)
  BY DEF WorkerAdd, TypeOK, TerminalsType
<1>3. WindowsType' /\ TreesType' /\ TerminalsType' /\ BandsType'
  BY <1>1, <1>2, AddTerminalInPaneType DEF WorkerAdd
<1>4. CountersType'
  BY DEF WorkerAdd, TypeOK, CountersType
<1> QED BY <1>3, <1>4 DEF TypeOK

(* CloseTerminal keeps every type. *)
LEMMA CloseTerminalType ==
  ASSUME TypeOK, NEW t \in Terminal, CloseTerminal(t)
  PROVE  TypeOK'
<1>1. WindowsType' /\ CountersType'
  BY DEF CloseTerminal, TypeOK, WindowsType, CountersType
<1>2. TreesType'
  BY LiftedTypes DEF CloseTerminal, TypeOK, TreesType, Tabs, Trees
<1>3. Ungrouped(t) \in [Terminal -> Terminal \cup {NoSurface}]
  BY DEF Ungrouped, TypeOK, TerminalsType
<1>4. TerminalsType'
  BY <1>3 DEF CloseTerminal, TypeOK, TerminalsType
<1>5. BandsType'
  BY <1>4, ReseatType DEF CloseTerminal, TypeOK, TerminalsType, BandsType
<1> QED BY <1>1, <1>2, <1>4, <1>5 DEF TypeOK

(* MoveTerminal keeps every type. *)
LEMMA MoveTerminalType ==
  ASSUME TypeOK, NEW t \in Terminal, NEW w \in Label, MoveTerminal(t, w)
  PROVE  TypeOK'
<1>1. WindowsType' /\ CountersType'
  BY DEF MoveTerminal, TypeOK, WindowsType, CountersType
<1>2. TreesType'
  BY LiftedTypes DEF MoveTerminal, TypeOK, TreesType, Tabs, Trees
<1>3. activeCluster[w] \in ClusterId
  BY DEF MoveTerminal, TypeOK, WindowsType
<1>4. TerminalsType'
  BY <1>3 DEF MoveTerminal, TypeOK, TerminalsType
<1>5. [activeTerminal EXCEPT ![activeCluster[w]] = t] \in [ClusterId -> Terminal \cup {NoSurface}]
  BY DEF TypeOK, BandsType
<1>6. BandsType'
  BY <1>4, <1>5, ReseatType DEF MoveTerminal, TerminalsType, BandsType
<1> QED BY <1>1, <1>2, <1>4, <1>6 DEF TypeOK

(* SetActiveTerminal keeps every type. *)
LEMMA SetActiveTerminalType ==
  ASSUME TypeOK, NEW c \in ClusterId, NEW t \in Terminal \cup {NoSurface}, SetActiveTerminal(c, t)
  PROVE  TypeOK'
<1>1. WindowsType' /\ TreesType' /\ TerminalsType' /\ CountersType'
  BY DEF SetActiveTerminal, TypeOK, WindowsType, TreesType, TerminalsType, CountersType
<1>2. [activeTerminal EXCEPT ![c] = t] \in [ClusterId -> Terminal \cup {NoSurface}]
  BY DEF TypeOK, BandsType
<1>3. BandsType'
  BY <1>1, <1>2, ReseatType DEF SetActiveTerminal, TerminalsType, BandsType
<1> QED BY <1>1, <1>3 DEF TypeOK

(* The ids in use after a restart are within the bounds. *)
LEMMA CountersForType ==
  ASSUME TypeOK
  PROVE  /\ CountersFor \in [windows : Label, clusters : 0..MaxCluster, panes : 0..MaxPane,
                             ord : [Kind -> Nat]]
         /\ \A k \in Kind : CountersFor.ord[k] <= MaxOrdinal[k]
<1>1. Highest(windows) \in Label
  BY ConstantsAssumption, HighestIsGreatest DEF TypeOK, WindowsType, Label
<1>2. LiveClusters \subseteq ClusterId
  BY DEF LiveClusters, TypeOK, WindowsType
<1>3. Highest(LiveClusters \cup {0}) \in 0..MaxCluster
  <2>1. LiveClusters \cup {0} \subseteq 0..MaxCluster
    BY <1>2, ConstantsAssumption DEF ClusterId
  <2> QED BY <2>1, ConstantsAssumption, HighestIsGreatest
<1>4. Highest(LivePanes) \in 0..MaxPane
  <2>1. LivePanes \subseteq 0..MaxPane
    BY <1>2 DEF LivePanes, TypeOK, TreesType, PaneId
  <2> QED BY <2>1, ConstantsAssumption, HighestIsGreatest
<1>5. ASSUME NEW k \in Kind
      PROVE  LET h == Highest({s[2] : s \in {u \in KeptInstances \cup KeptTerminals : u[1] = k}})
             IN h \in Nat /\ h <= MaxOrdinal[k]
  <2>1. KeptInstances \cup KeptTerminals \subseteq Surface
    BY KindsAndSurfaces DEF KeptInstances, KeptTerminals, TypeOK, TreesType, TerminalsType
  <2>2. MaxOrdinal[k] \in Nat
    BY ConstantsAssumption DEF Kind
  <2>3. \A u \in Surface : u[1] = k => u[2] \in 0..MaxOrdinal[k]
    BY ConstantsAssumption DEF Surface, Of, Kind
  <2>4. {s[2] : s \in {u \in KeptInstances \cup KeptTerminals : u[1] = k}} \subseteq 0..MaxOrdinal[k]
    BY <2>1, <2>3
  <2> DEFINE O == {s[2] : s \in {u \in KeptInstances \cup KeptTerminals : u[1] = k}}
  <2>5. O \in SUBSET (0..MaxOrdinal[k])
    BY <2>4
  <2> HIDE DEF O
  <2>6. Highest(O) \in 0..MaxOrdinal[k]
    BY <2>2, <2>5, HighestIsGreatest
  <2> QED BY <2>2, <2>6 DEF O
<1> QED BY <1>1, <1>3, <1>4, <1>5 DEF CountersFor

(* Restart keeps every type. *)
LEMMA RestartType ==
  ASSUME TypeOK, Restart
  PROVE  TypeOK'
<1>1. WindowsType'
  BY DEF Restart, TypeOK, WindowsType
<1>2. TreesType'
  BY DEF Restart, KeptInstances, TypeOK, TreesType
<1>3. LiveClusters \subseteq ClusterId
  BY DEF LiveClusters, TypeOK, WindowsType
<1>4. TerminalsType'
  BY <1>3 DEF Restart, KeptTerminals, TypeOK, TerminalsType
<1>5. CountersType'
  BY CountersForType DEF Restart, CountersType
<1>6. BandsType'
  BY <1>4, ReseatType DEF Restart, TypeOK, TerminalsType, BandsType
<1> QED BY <1>1, <1>2, <1>4, <1>5, <1>6 DEF TypeOK

(* Every step keeps every type. *)
LEMMA TypeNext == TypeOK /\ [Next]_vars => TypeOK'
<1> SUFFICES ASSUME TypeOK, [Next]_vars PROVE TypeOK'
  OBVIOUS
<1>1. ASSUME NEW w \in Label, AddCluster(w) PROVE TypeOK'
  BY <1>1, AddClusterType
<1>2. CASE NewWindow
  BY <1>2, NewWindowType
<1>3. ASSUME NEW w \in Label, NEW c \in ClusterId \cup {None}, SetActiveCluster(w, c) PROVE TypeOK'
  BY <1>3, SetActiveClusterType
<1>4. ASSUME NEW w \in Label, NEW c \in ClusterId, CloseCluster(w, c) PROVE TypeOK'
  BY <1>4, CloseClusterType
<1>5. ASSUME NEW w \in Label, NEW to \in Label, NEW c \in ClusterId, MoveCluster(w, c, to) PROVE TypeOK'
  BY <1>5, MoveClusterType
<1>6. ASSUME NEW w \in Label, CloseWindow(w) PROVE TypeOK'
  BY <1>6, CloseWindowType
<1>7. ASSUME NEW app \in Apps, NEW w \in Label, NEW p \in PaneId \cup {None}, NEW split \in BOOLEAN,
             OpenInstance(app, w, p, split)
      PROVE  TypeOK'
  BY <1>7, OpenInstanceType
<1>8. ASSUME NEW s \in Surface, CloseInstance(s) PROVE TypeOK'
  BY <1>8, CloseInstanceType
<1>9. ASSUME NEW w \in Label, NEW c \in ClusterId, ActivateInstance(w, c) PROVE TypeOK'
  BY <1>9, ActivateInstanceType
<1>10. ASSUME NEW s \in Surface, NEW w \in Label, NEW c \in ClusterId, NEW p \in PaneId,
              MoveInstance(s, w, c, p)
       PROVE  TypeOK'
  BY <1>10, MoveInstanceType
<1>11. ASSUME NEW s \in Surface, NEW w \in Label, NEW c \in ClusterId, NEW p \in PaneId,
              SplitWithInstance(s, w, c, p)
       PROVE  TypeOK'
  BY <1>11, SplitWithInstanceType
<1>12. ASSUME NEW s \in Surface, DetachInstance(s) PROVE TypeOK'
  BY <1>12, DetachInstanceType
<1>13. ASSUME NEW w \in Label, CreateTerminal(w) PROVE TypeOK'
  BY <1>13, CreateTerminalType
<1>14. ASSUME NEW t \in Terminal, SplitTerminal(t) PROVE TypeOK'
  BY <1>14, SplitTerminalType
<1>15. ASSUME NEW w \in Label, NEW p \in PaneId, NEW split \in BOOLEAN, OpenTerminalInPane(w, p, split)
       PROVE  TypeOK'
  BY <1>15, OpenTerminalInPaneType
<1>16. ASSUME NEW c \in ClusterId, NEW p \in PaneId, WorkerSpawn(c, p) PROVE TypeOK'
  BY <1>16, WorkerSpawnType
<1>17. ASSUME NEW x \in spawning, WorkerAdd(x) PROVE TypeOK'
  BY <1>17, WorkerAddType
<1>18. ASSUME NEW t \in Terminal, CloseTerminal(t) PROVE TypeOK'
  BY <1>18, CloseTerminalType
<1>19. ASSUME NEW t \in Terminal, NEW w \in Label, MoveTerminal(t, w) PROVE TypeOK'
  BY <1>19, MoveTerminalType
<1>20. ASSUME NEW c \in ClusterId, NEW t \in Terminal \cup {NoSurface}, SetActiveTerminal(c, t) PROVE TypeOK'
  BY <1>20, SetActiveTerminalType
<1>21. CASE Restart
  BY <1>21, RestartType
<1>22. CASE UNCHANGED vars
  BY <1>22 DEF vars, TypeOK, WindowsType, TreesType, TerminalsType, BandsType, CountersType
<1> QED BY <1>1, <1>2, <1>3, <1>4, <1>5, <1>6, <1>7, <1>8, <1>9, <1>10, <1>11, <1>12, <1>13,
           <1>14, <1>15, <1>16, <1>17, <1>18, <1>19, <1>20, <1>21, <1>22 DEF Next

(* Every variable keeps its type, through any sequence of operations and   *)
(* restarts of the shell.                                                  *)
THEOREM TypeCorrect == Spec => []TypeOK
BY TypeInit, TypeNext, PTL DEF Spec

-----------------------------------------------------------------------------
(* The layout: windows, clusters and trees *)

(* The inductive invariant.  `IdsUnique` alone is not inductive: that a    *)
(* minted id is new needs `LayoutCounted`, that a reused one brings        *)
(* nothing back needs `ClosedIsEmpty`, and that closing a window hands its *)
(* clusters to a window that is there needs main to stay.                  *)
MainStays == Main \in windows
LayoutInv ==
  IdsUnique /\ ShowsItsOwn /\ TreesStand /\ LayoutCounted /\ ClosedIsEmpty /\ MainStays

(* The shell starts with one window that shows its one cluster of one      *)
(* pane.                                                                   *)
LEMMA LayoutInit == Init => LayoutInv
<1> SUFFICES ASSUME Init PROVE LayoutInv
  OBVIOUS
<1>1. 1 \in ClusterId /\ Main \in Label
  BY ConstantsAssumption DEF ClusterId, Label
<1>2. LiveClusters = {1}
  BY <1>1 DEF Init, LiveClusters
<1>3. LivePanes = {1}
  BY <1>1, <1>2 DEF Init, LivePanes
<1>4. IdsUnique /\ ShowsItsOwn /\ TreesStand
  BY <1>1, <1>2 DEF Init, IdsUnique, ShowsItsOwn, TreesStand
<1>5. LayoutCounted /\ ClosedIsEmpty
  BY <1>1, <1>2, <1>3 DEF Init, LayoutCounted, ClosedIsEmpty, Label
<1> QED BY <1>4, <1>5 DEF Init, LayoutInv, MainStays

(* A step that keeps the windows and their clusters, and whose trees lose  *)
(* panes, though not all, and gain at most one new one.                    *)
LEMMA TreesStepKeepsLayout ==
  ASSUME TypeOK, LayoutInv, UNCHANGED <<windows, clusters>>,
         NEW c \in ClusterId, NEW new \in PaneId \cup {None},
         new # None => c \in LiveClusters /\ new > counters.panes /\ new <= counters'.panes,
         CountersType',
         counters'.windows = counters.windows, counters'.clusters = counters.clusters,
         counters.panes <= counters'.panes,
         panes' \in Trees,
         \A d \in ClusterId \ {c} : panes'[d] \subseteq panes[d],
         panes'[c] \subseteq panes[c] \cup ({new} \ {None}),
         \A d \in ClusterId : panes[d] # {} => panes'[d] # {},
         \A w \in windows : activeCluster'[w] \in clusters[w] \cup {None},
         \A w \in Label \ windows : activeCluster'[w] = activeCluster[w]
  PROVE  LayoutInv'
<1>1. LiveClusters' = LiveClusters /\ LiveClusters \subseteq ClusterId
  BY DEF LiveClusters, TypeOK, WindowsType
<1>2. \A d \in LiveClusters : \A p \in panes[d] : p <= counters.panes /\ p \in Nat
  BY <1>1 DEF LayoutInv, LayoutCounted, LivePanes, TypeOK, TreesType, PaneId
<1>3. counters.panes \in Nat /\ counters'.panes \in Nat /\ (new # None => new \in Nat)
  BY DEF TypeOK, CountersType, PaneId
<1>4. IdsUnique'
  <2>1. \A v, w \in windows' : v # w => clusters'[v] \cap clusters'[w] = {}
    BY DEF LayoutInv, IdsUnique
  <2>2. ASSUME NEW d \in LiveClusters, NEW e \in LiveClusters, d # e
        PROVE  panes'[d] \cap panes'[e] = {}
    <3>1. panes[d] \cap panes[e] = {}
      BY <2>2 DEF LayoutInv, IdsUnique
    <3>2. new # None => new \notin panes[d] /\ new \notin panes[e]
      BY <1>2, <1>3
    <3> QED BY <1>1, <2>2, <3>1, <3>2
  <2> QED BY <1>1, <2>1, <2>2 DEF IdsUnique
<1>5. ShowsItsOwn' /\ TreesStand'
  BY <1>1 DEF LayoutInv, ShowsItsOwn, TreesStand
<1>6. LayoutCounted'
  <2>1. \A d \in LiveClusters : \A p \in panes'[d] : p <= counters'.panes
    BY <1>1, <1>2, <1>3
  <2> QED BY <1>1, <2>1 DEF LayoutInv, LayoutCounted, LivePanes
<1>7. ClosedIsEmpty'
  <2>1. \A d \in ClusterId \ LiveClusters : panes'[d] = {}
    BY DEF LayoutInv, ClosedIsEmpty
  <2> QED BY <1>1, <2>1 DEF LayoutInv, ClosedIsEmpty
<1> QED BY <1>4, <1>5, <1>6, <1>7 DEF LayoutInv, MainStays

(* A step that at most mints pane ids it then leaves unused. *)
LEMMA OnlyMintingKeepsLayout ==
  ASSUME TypeOK, LayoutInv, UNCHANGED <<windows, clusters, panes>>, CountersType',
         counters'.windows = counters.windows, counters'.clusters = counters.clusters,
         counters.panes <= counters'.panes,
         \A w \in windows : activeCluster'[w] \in clusters[w] \cup {None},
         \A w \in Label \ windows : activeCluster'[w] = activeCluster[w]
  PROVE  LayoutInv'
<1>1. 1 \in ClusterId
  BY ConstantsAssumption DEF ClusterId
<1>2. panes' \in Trees
  BY DEF TypeOK, TreesType, Trees
<1> QED BY <1>1, <1>2, TreesStepKeepsLayout

(* AddCluster keeps the layout invariant. *)
LEMMA AddClusterLayout ==
  ASSUME TypeOK, LayoutInv, NEW w \in Label, AddCluster(w)
  PROVE  LayoutInv'
<1> DEFINE c == counters.clusters + 1
           p == counters.panes + 1
<1>1. c \in ClusterId /\ p \in PaneId
  BY NextIds DEF AddCluster, TypeOK
<1>2. /\ w \in windows /\ windows' = windows
      /\ clusters' = [clusters EXCEPT ![w] = @ \cup {c}]
      /\ activeCluster' = [activeCluster EXCEPT ![w] = c]
      /\ panes' = [panes EXCEPT ![c] = {p}]
      /\ counters'.windows = counters.windows /\ counters'.clusters = c /\ counters'.panes = p
  BY DEF AddCluster, TypeOK, CountersType
<1>3. /\ counters.clusters \in Nat /\ counters.panes \in Nat
      /\ \A d \in LiveClusters : d \in ClusterId /\ d <= counters.clusters
      /\ \A q \in LivePanes : q \in PaneId /\ q <= counters.panes
  BY DEF LayoutInv, LayoutCounted, LiveClusters, LivePanes, TypeOK, WindowsType, TreesType, CountersType
<1>4. c \notin LiveClusters /\ p \notin LivePanes
  BY <1>3
<1> HIDE DEF c, p
<1>5. LiveClusters' = LiveClusters \cup {c}
  BY <1>2 DEF LiveClusters, TypeOK, WindowsType
<1>6. \A d \in LiveClusters : panes'[d] = panes[d] /\ panes[d] \subseteq LivePanes
  BY <1>2, <1>3, <1>4 DEF LivePanes, TypeOK, TreesType
<1>7. panes'[c] = {p}
  BY <1>1, <1>2 DEF TypeOK, TreesType
<1>8. IdsUnique'
  <2>1. \A v, u \in windows' : v # u => clusters'[v] \cap clusters'[u] = {}
    BY <1>2, <1>4 DEF LayoutInv, IdsUnique, LiveClusters, TypeOK, WindowsType
  <2>2. \A d, e \in LiveClusters' : d # e => panes'[d] \cap panes'[e] = {}
    BY <1>4, <1>5, <1>6, <1>7 DEF LayoutInv, IdsUnique
  <2> QED BY <2>1, <2>2 DEF IdsUnique
<1>9. ShowsItsOwn'
  BY <1>2 DEF LayoutInv, ShowsItsOwn, TypeOK, WindowsType
<1>10. TreesStand'
  BY <1>5, <1>6, <1>7 DEF LayoutInv, TreesStand
<1>11. LayoutCounted'
  <2>1. LivePanes' \subseteq LivePanes \cup {p}
    BY <1>5, <1>6, <1>7 DEF LivePanes
  <2>2. counters.clusters <= c /\ counters.panes <= p /\ c \in Nat /\ p \in Nat
    BY <1>3 DEF c, p
  <2>3. \A d \in LiveClusters' : d <= c
    BY <1>3, <1>5, <2>2 DEF ClusterId
  <2>4. \A q \in LivePanes' : q <= p
    BY <1>3, <2>1, <2>2 DEF PaneId
  <2> QED BY <1>2, <2>3, <2>4 DEF LayoutInv, LayoutCounted
<1>12. ClosedIsEmpty'
  BY <1>2, <1>5 DEF LayoutInv, ClosedIsEmpty, TypeOK, WindowsType, TreesType
<1> QED BY <1>2, <1>8, <1>9, <1>10, <1>11, <1>12 DEF LayoutInv, MainStays

(* Whatever is in use is one of the ids counted. *)
LEMMA InUseIsCounted ==
  ASSUME TypeOK, LayoutInv
  PROVE  /\ counters.clusters \in Nat /\ counters.panes \in Nat /\ counters.windows \in Nat
         /\ \A v \in windows : v \in Label /\ v <= counters.windows
         /\ \A d \in LiveClusters : d \in ClusterId /\ d <= counters.clusters
         /\ \A q \in LivePanes : q \in PaneId /\ q <= counters.panes
<1>1. counters.clusters \in Nat /\ counters.panes \in Nat /\ counters.windows \in Nat
  BY DEF TypeOK, CountersType, Label
<1>2. LiveClusters \subseteq ClusterId
  BY DEF LiveClusters, TypeOK, WindowsType
<1>3. LivePanes \subseteq PaneId
  BY <1>2 DEF LivePanes, TypeOK, TreesType
<1> QED BY <1>1, <1>2, <1>3 DEF LayoutInv, LayoutCounted, TypeOK, WindowsType

(* A new window, with a new cluster of one new pane; the other trees may   *)
(* lose panes.                                                             *)
LEMMA FreshWindowKeepsLayout ==
  ASSUME TypeOK, LayoutInv,
         NEW w \in Label, NEW c \in ClusterId, NEW p \in PaneId, NEW P \in Trees,
         w = counters.windows + 1, c = counters.clusters + 1, p = counters.panes + 1,
         windows' = windows \cup {w},
         clusters' = [clusters EXCEPT ![w] = {c}],
         activeCluster' = [activeCluster EXCEPT ![w] = c],
         panes' = [P EXCEPT ![c] = {p}],
         \A d \in ClusterId : P[d] \subseteq panes[d] /\ (panes[d] # {} => P[d] # {}),
         counters'.windows = w, counters'.clusters = c, counters'.panes = p
  PROVE  LayoutInv'
<1>1. /\ counters.clusters \in Nat /\ counters.panes \in Nat /\ counters.windows \in Nat
      /\ \A v \in windows : v \in Label /\ v <= counters.windows
      /\ \A d \in LiveClusters : d \in ClusterId /\ d <= counters.clusters
      /\ \A q \in LivePanes : q \in PaneId /\ q <= counters.panes
  BY InUseIsCounted
<1>2. w \notin windows /\ c \notin LiveClusters /\ p \notin LivePanes
  BY <1>1
<1>3. LiveClusters' = LiveClusters \cup {c}
  <2>1. clusters'[w] = {c} /\ \A v \in windows : clusters'[v] = clusters[v]
    BY <1>1, <1>2 DEF TypeOK, WindowsType
  <2> QED BY <2>1 DEF LiveClusters
<1>4. \A d \in LiveClusters : /\ panes'[d] \subseteq panes[d] /\ panes[d] \subseteq LivePanes
                              /\ panes'[d] # {}
  BY <1>1, <1>2 DEF LivePanes, LayoutInv, TreesStand, Trees
<1>5. panes'[c] = {p}
  BY DEF Trees
<1>6. IdsUnique'
  <2>1. \A v, u \in windows' : v # u => clusters'[v] \cap clusters'[u] = {}
    BY <1>2 DEF LayoutInv, IdsUnique, LiveClusters, TypeOK, WindowsType
  <2>2. ASSUME NEW d \in LiveClusters', NEW e \in LiveClusters', d # e
        PROVE  panes'[d] \cap panes'[e] = {}
    <3>1. CASE d = c \/ e = c
      BY <1>2, <1>3, <1>4, <1>5, <2>2, <3>1
    <3>2. CASE d # c /\ e # c
      BY <1>3, <1>4, <2>2, <3>2 DEF LayoutInv, IdsUnique
    <3> QED BY <3>1, <3>2
  <2> QED BY <2>1, <2>2 DEF IdsUnique
<1>7. ShowsItsOwn'
  BY DEF LayoutInv, ShowsItsOwn, TypeOK, WindowsType
<1>8. TreesStand'
  BY <1>3, <1>4, <1>5 DEF TreesStand
<1>9. LayoutCounted'
  <2>1. LivePanes' \subseteq LivePanes \cup {p}
    BY <1>3, <1>4, <1>5 DEF LivePanes
  <2>2. \A v \in windows' : v <= w
    BY <1>1 DEF Label
  <2>3. \A d \in LiveClusters' : d <= c
    BY <1>1, <1>3 DEF ClusterId
  <2>4. \A q \in LivePanes' : q <= p
    BY <1>1, <2>1 DEF PaneId
  <2> QED BY <2>2, <2>3, <2>4 DEF LayoutCounted
<1>10. ClosedIsEmpty'
  <2>1. \A v \in Label \ windows' : clusters'[v] = {} /\ activeCluster'[v] = None
    BY DEF LayoutInv, ClosedIsEmpty, TypeOK, WindowsType
  <2>2. \A d \in ClusterId \ LiveClusters' : panes'[d] = {}
    BY <1>3 DEF LayoutInv, ClosedIsEmpty, Trees
  <2> QED BY <2>1, <2>2 DEF ClosedIsEmpty
<1> QED BY <1>6, <1>7, <1>8, <1>9, <1>10 DEF LayoutInv, MainStays

(* NewWindow keeps the layout invariant. *)
LEMMA NewWindowLayout ==
  ASSUME TypeOK, LayoutInv, NewWindow
  PROVE  LayoutInv'
<1> DEFINE w == counters.windows + 1
           c == counters.clusters + 1
           p == counters.panes + 1
<1>1. w \in Label /\ c \in ClusterId /\ p \in PaneId
  BY NextIds DEF NewWindow, TypeOK
<1>2. /\ windows' = windows \cup {w}
      /\ clusters' = [clusters EXCEPT ![w] = {c}]
      /\ activeCluster' = [activeCluster EXCEPT ![w] = c]
      /\ panes' = [panes EXCEPT ![c] = {p}]
      /\ counters'.windows = w /\ counters'.clusters = c /\ counters'.panes = p
  BY DEF NewWindow, TypeOK, CountersType
<1>3. panes \in Trees
  BY DEF TypeOK, TreesType, Trees
<1> HIDE DEF w, c, p
<1>4. w = counters.windows + 1 /\ c = counters.clusters + 1 /\ p = counters.panes + 1
  BY DEF w, c, p
<1> QED BY <1>1, <1>2, <1>3, <1>4, FreshWindowKeepsLayout

(* DetachInstance keeps the layout invariant. *)
LEMMA DetachInstanceLayout ==
  ASSUME TypeOK, LayoutInv, NEW s \in Surface, DetachInstance(s)
  PROVE  LayoutInv'
<1> DEFINE w == counters.windows + 1
           c == counters.clusters + 1
           p == counters.panes + 1
           left == PrunedWhere(TakenOut(tabs, panes, LiveClusters, s), panes, LiveClusters, s)
<1>1. w \in Label /\ c \in ClusterId /\ p \in PaneId
  BY NextIds DEF DetachInstance, TypeOK
<1>2. /\ left \in Trees
      /\ \A d \in ClusterId : left[d] \subseteq panes[d] /\ (panes[d] # {} => left[d] # {})
  BY PrunedWhereKeepsSome DEF TypeOK, TreesType, Trees
<1>3. counters'.windows = w /\ counters'.clusters = c /\ counters'.panes = p
  BY DEF DetachInstance, TypeOK, CountersType
<1>4. \/ UNCHANGED <<windows, clusters, activeCluster, panes>>
      \/ /\ windows' = windows \cup {w}
         /\ clusters' = [clusters EXCEPT ![w] = {c}]
         /\ activeCluster' = [activeCluster EXCEPT ![w] = c]
         /\ panes' = [left EXCEPT ![c] = {p}]
  BY DEF DetachInstance
<1> HIDE DEF w, c, p, left
<1>5. w = counters.windows + 1 /\ c = counters.clusters + 1 /\ p = counters.panes + 1
  BY DEF w, c, p
<1>6. CASE UNCHANGED <<windows, clusters, activeCluster, panes>>
  <2>1. LiveClusters' = LiveClusters /\ LivePanes' = LivePanes
    BY <1>6 DEF LiveClusters, LivePanes
  <2>2. IdsUnique' /\ ShowsItsOwn' /\ TreesStand' /\ ClosedIsEmpty'
    BY <1>6, <2>1 DEF LayoutInv, IdsUnique, ShowsItsOwn, TreesStand, ClosedIsEmpty
  <2>3. LayoutCounted'
    BY <1>3, <1>5, <1>6, <2>1, InUseIsCounted DEF LayoutCounted, Label, ClusterId, PaneId
  <2> QED BY <1>6, <2>2, <2>3 DEF LayoutInv, MainStays
<1> QED BY <1>1, <1>2, <1>3, <1>4, <1>5, <1>6, FreshWindowKeepsLayout

(* CloseCluster keeps the layout invariant. *)
LEMMA CloseClusterLayout ==
  ASSUME TypeOK, LayoutInv, NEW w \in Label, NEW c \in ClusterId, CloseCluster(w, c)
  PROVE  LayoutInv'
<1>1. PICK next \in AfterTaking(w, c) : activeCluster' = [activeCluster EXCEPT ![w] = next]
  BY DEF CloseCluster
<1>2. /\ w \in windows /\ c \in clusters[w] /\ windows' = windows /\ counters' = counters
      /\ clusters' = [clusters EXCEPT ![w] = @ \ {c}]
      /\ panes' = [panes EXCEPT ![c] = {}]
  BY DEF CloseCluster
<1>3. next \in clusters'[w] \cup {None}
  BY <1>2 DEF AfterTaking, LayoutInv, ShowsItsOwn, TypeOK, WindowsType
<1>4. LiveClusters' = LiveClusters \ {c} /\ LiveClusters \subseteq ClusterId
  BY <1>2 DEF LiveClusters, LayoutInv, IdsUnique, TypeOK, WindowsType
<1>5. \A d \in LiveClusters' : panes'[d] = panes[d]
  BY <1>2, <1>4 DEF TypeOK, TreesType
<1>6. LivePanes' \subseteq LivePanes
  BY <1>4, <1>5 DEF LivePanes
<1>7. IdsUnique'
  BY <1>2, <1>4, <1>5 DEF LayoutInv, IdsUnique, TypeOK, WindowsType
<1>8. ShowsItsOwn'
  BY <1>1, <1>2, <1>3 DEF LayoutInv, ShowsItsOwn, TypeOK, WindowsType
<1>9. TreesStand' /\ LayoutCounted'
  BY <1>2, <1>4, <1>5, <1>6 DEF LayoutInv, TreesStand, LayoutCounted
<1>10. ClosedIsEmpty'
  BY <1>1, <1>2, <1>4 DEF LayoutInv, ClosedIsEmpty, TypeOK, WindowsType, TreesType
<1> QED BY <1>2, <1>7, <1>8, <1>9, <1>10 DEF LayoutInv, MainStays

(* MoveCluster keeps the layout invariant. *)
LEMMA MoveClusterLayout ==
  ASSUME TypeOK, LayoutInv, NEW w \in Label, NEW c \in ClusterId, NEW to \in Label,
         MoveCluster(w, c, to)
  PROVE  LayoutInv'
<1>1. PICK next \in AfterTaking(w, c) :
        activeCluster' = [activeCluster EXCEPT ![w] = next, ![to] = c]
  BY DEF MoveCluster
<1>2. /\ w \in windows /\ c \in clusters[w] /\ windows' = windows \cup {to} /\ panes' = panes
      /\ clusters' = [clusters EXCEPT ![w] = @ \ {c}, ![to] = @ \cup {c}]
      /\ counters'.clusters = counters.clusters /\ counters'.panes = counters.panes
  BY DEF MoveCluster, TypeOK, CountersType
<1>3. counters.windows \in Nat /\ \A v \in windows : v \in Nat /\ v <= counters.windows
  BY DEF LayoutInv, LayoutCounted, TypeOK, CountersType, WindowsType, Label
<1>4. /\ to # w
      /\ to \in windows => counters'.windows = counters.windows
      /\ to \notin windows => to = counters.windows + 1 /\ counters'.windows = to
  BY <1>2, <1>3 DEF MoveCluster, TypeOK, CountersType
<1>5. next \in clusters'[w] \cup {None}
  BY <1>2, <1>4 DEF AfterTaking, LayoutInv, ShowsItsOwn, TypeOK, WindowsType
<1>6. to \notin windows => clusters[to] = {}
  BY DEF LayoutInv, ClosedIsEmpty
<1>7. LiveClusters' = LiveClusters
  BY <1>2, <1>4, <1>6 DEF LiveClusters, LayoutInv, IdsUnique, TypeOK, WindowsType
<1>8. LivePanes' = LivePanes
  BY <1>2, <1>7 DEF LivePanes
<1>9. IdsUnique'
  <2>1. ASSUME NEW u \in windows', NEW v \in windows', u # v
        PROVE  clusters'[u] \cap clusters'[v] = {}
    BY <1>2, <1>4, <1>6, <2>1 DEF LayoutInv, IdsUnique, TypeOK, WindowsType
  <2> QED BY <1>2, <1>7, <2>1 DEF LayoutInv, IdsUnique
<1>10. ShowsItsOwn'
  BY <1>1, <1>2, <1>4, <1>5 DEF LayoutInv, ShowsItsOwn, TypeOK, WindowsType
<1>11. TreesStand'
  BY <1>2, <1>7 DEF LayoutInv, TreesStand
<1>12. LayoutCounted'
  BY <1>2, <1>3, <1>4, <1>7, <1>8 DEF LayoutInv, LayoutCounted
<1>13. ClosedIsEmpty'
  BY <1>1, <1>2, <1>4, <1>7 DEF LayoutInv, ClosedIsEmpty, TypeOK, WindowsType
<1> QED BY <1>2, <1>9, <1>10, <1>11, <1>12, <1>13 DEF LayoutInv, MainStays

(* CloseWindow keeps the layout invariant. *)
LEMMA CloseWindowLayout ==
  ASSUME TypeOK, LayoutInv, NEW w \in Label, CloseWindow(w)
  PROVE  LayoutInv'
<1>1. /\ w \in windows /\ w # Main /\ Main \in windows /\ windows' = windows \ {w}
      /\ clusters' = [clusters EXCEPT ![Main] = @ \cup clusters[w], ![w] = {}]
      /\ UNCHANGED <<panes, counters>>
  BY DEF CloseWindow, HandedOver, LayoutInv, MainStays
<1>2. PICK next \in IF activeCluster[Main] # None THEN {activeCluster[Main]}
                    ELSE IF clusters[w] = {} THEN {None} ELSE clusters[w] :
        activeCluster' = [activeCluster EXCEPT ![Main] = next, ![w] = None]
  BY DEF CloseWindow
<1>3. /\ clusters'[Main] = clusters[Main] \cup clusters[w] /\ clusters'[w] = {}
      /\ \A v \in Label \ {Main, w} : clusters'[v] = clusters[v]
  BY <1>1 DEF TypeOK, WindowsType
<1>4. LiveClusters' = LiveClusters
  BY <1>1, <1>3 DEF LiveClusters, TypeOK, WindowsType
<1>5. LivePanes' = LivePanes
  BY <1>1, <1>4 DEF LivePanes
<1>6. IdsUnique'
  <2>1. ASSUME NEW u \in windows', NEW v \in windows', u # v
        PROVE  clusters'[u] \cap clusters'[v] = {}
    BY <1>1, <1>3, <2>1 DEF LayoutInv, IdsUnique, TypeOK, WindowsType
  <2> QED BY <1>1, <1>4, <2>1 DEF LayoutInv, IdsUnique
<1>7. ShowsItsOwn'
  BY <1>1, <1>2, <1>3 DEF LayoutInv, ShowsItsOwn, TypeOK, WindowsType
<1>8. TreesStand' /\ LayoutCounted' /\ MainStays'
  BY <1>1, <1>4, <1>5 DEF LayoutInv, TreesStand, LayoutCounted, MainStays
<1>9. ClosedIsEmpty'
  BY <1>1, <1>2, <1>3, <1>4 DEF LayoutInv, ClosedIsEmpty, TypeOK, WindowsType
<1> QED BY <1>6, <1>7, <1>8, <1>9 DEF LayoutInv

(* OpenInstance keeps the layout invariant. *)
LEMMA OpenInstanceLayout ==
  ASSUME TypeOK, TypeOK', LayoutInv, NEW app \in Apps, NEW w \in Label,
         NEW asked \in PaneId \cup {None}, NEW split \in BOOLEAN,
         OpenInstance(app, w, asked, split)
  PROVE  LayoutInv'
<1> DEFINE s == <<app, counters.ord[app] + 1>>
           new == IF split THEN counters.panes + 1 ELSE None
           owner == {c \in clusters[w] : asked \in panes[c]}
           into == IF owner # {} THEN owner ELSE {activeCluster[w]} \cap ClusterId
<1>1. s \in Surface /\ {s} \in SUBSET Surface /\ new \in PaneId \cup {None}
  BY NextIds, KindsAndSurfaces DEF OpenInstance, TypeOK
<1>2. into \subseteq LiveClusters
  <2>1. CASE w \in windows
    BY <2>1 DEF LiveClusters, LayoutInv, ShowsItsOwn, ClusterId
  <2>2. CASE w \notin windows
    BY <2>2 DEF LayoutInv, ClosedIsEmpty, ClusterId
  <2> QED BY <2>1, <2>2
<1>3. /\ UNCHANGED <<windows, clusters, activeCluster>>
      /\ counters'.windows = counters.windows /\ counters'.clusters = counters.clusters
      /\ counters'.panes = IF split THEN counters.panes + 1 ELSE counters.panes
  BY DEF OpenInstance, TypeOK, CountersType
<1>4. \A v \in windows : activeCluster'[v] \in clusters[v] \cup {None}
  BY <1>3 DEF LayoutInv, ShowsItsOwn
<1>5. /\ counters.panes <= counters'.panes
      /\ new # None => new > counters.panes /\ new <= counters'.panes
  BY <1>3 DEF TypeOK, CountersType
<1>6. CASE UNCHANGED panes
  BY <1>3, <1>4, <1>5, <1>6, OnlyMintingKeepsLayout DEF TypeOK
<1>7. CASE \E c \in into :
             PlaceSurface(tabs, panes, instances, {s}, c, s, asked, new, app \notin Takeover)
  <2>1. PICK c \in into :
             PlaceSurface(tabs, panes, instances, {s}, c, s, asked, new, app \notin Takeover)
    BY <1>7
  <2>2. c \in LiveClusters /\ c \in ClusterId
    BY <1>2 DEF LiveClusters, TypeOK, WindowsType
  <2> DEFINE evict == app \notin Takeover
             added == {s}
  <2>3. PlaceSurface(tabs, panes, instances, added, c, s, asked, new, evict)
    BY <2>1
  <2>4. evict \in BOOLEAN /\ added \in SUBSET Surface
    BY <1>1
  <2>5. tabs \in Tabs /\ panes \in Trees /\ instances \in SUBSET Surface
    BY DEF TypeOK, TreesType, Tabs, Trees
  <2> HIDE DEF s, new, evict, added, owner, into
  <2>6. OnlyGains(panes, c, new)
    BY <1>1, <2>2, <2>3, <2>4, <2>5, PlaceSurfaceType
  <2>7. \A d \in ClusterId : panes[d] # {} => panes'[d] # {}
    BY <2>6 DEF OnlyGains
  <2> QED BY <1>1, <1>3, <1>4, <1>5, <2>2, <2>6, <2>7, TreesStepKeepsLayout DEF TypeOK, OnlyGains
<1> QED BY <1>6, <1>7 DEF OpenInstance

(* A surface taken out of some trees leaves the rest of them standing. *)
LEMMA LiftingKeepsLayout ==
  ASSUME TypeOK, TypeOK', LayoutInv, NEW C, NEW s,
         UNCHANGED <<windows, clusters, activeCluster, counters>>,
         panes' = PrunedWhere(TakenOut(tabs, panes, C, s), panes, C, s)
  PROVE  LayoutInv'
<1> DEFINE left == PrunedWhere(TakenOut(tabs, panes, C, s), panes, C, s)
<1>1. /\ left \in Trees
      /\ \A d \in ClusterId : left[d] \subseteq panes[d] /\ (panes[d] # {} => left[d] # {})
  BY PrunedWhereKeepsSome DEF TypeOK, TreesType, Trees
<1>2. panes' = left
  OBVIOUS
<1> HIDE DEF left
<1>3. 1 \in ClusterId /\ counters.panes \in Nat
  BY ConstantsAssumption DEF ClusterId, TypeOK, CountersType
<1>4. \A w \in windows : activeCluster'[w] \in clusters[w] \cup {None}
  BY DEF LayoutInv, ShowsItsOwn
<1> QED BY <1>1, <1>2, <1>3, <1>4, TreesStepKeepsLayout DEF TypeOK

(* CloseInstance keeps the layout invariant. *)
LEMMA CloseInstanceLayout ==
  ASSUME TypeOK, TypeOK', LayoutInv, NEW s \in Surface, CloseInstance(s)
  PROVE  LayoutInv'
BY LiftingKeepsLayout DEF CloseInstance

(* CloseTerminal keeps the layout invariant. *)
LEMMA CloseTerminalLayout ==
  ASSUME TypeOK, TypeOK', LayoutInv, NEW t \in Terminal, CloseTerminal(t)
  PROVE  LayoutInv'
BY LiftingKeepsLayout DEF CloseTerminal

(* MoveTerminal keeps the layout invariant. *)
LEMMA MoveTerminalLayout ==
  ASSUME TypeOK, TypeOK', LayoutInv, NEW t \in Terminal, NEW w \in Label, MoveTerminal(t, w)
  PROVE  LayoutInv'
BY LiftingKeepsLayout DEF MoveTerminal

(* A step that only chooses what a window shows. *)
LEMMA ShowingKeepsLayout ==
  ASSUME TypeOK, TypeOK', LayoutInv, UNCHANGED <<windows, clusters, panes, counters>>,
         NEW w \in windows, NEW c \in clusters[w] \cup {None},
         activeCluster' = [activeCluster EXCEPT ![w] = c]
  PROVE  LayoutInv'
<1>1. \A v \in windows : activeCluster'[v] \in clusters[v] \cup {None}
  BY DEF LayoutInv, ShowsItsOwn, TypeOK, WindowsType
<1>2. \A v \in Label \ windows : activeCluster'[v] = activeCluster[v]
  BY DEF TypeOK, WindowsType
<1>3. counters.panes \in Nat
  BY DEF TypeOK, CountersType
<1> QED BY <1>1, <1>2, <1>3, OnlyMintingKeepsLayout DEF TypeOK

(* SetActiveCluster keeps the layout invariant. *)
LEMMA SetActiveClusterLayout ==
  ASSUME TypeOK, TypeOK', LayoutInv, NEW w \in Label, NEW c \in ClusterId \cup {None},
         SetActiveCluster(w, c)
  PROVE  LayoutInv'
BY ShowingKeepsLayout DEF SetActiveCluster

(* ActivateInstance keeps the layout invariant. *)
LEMMA ActivateInstanceLayout ==
  ASSUME TypeOK, TypeOK', LayoutInv, NEW w \in Label, NEW c \in ClusterId, ActivateInstance(w, c)
  PROVE  LayoutInv'
BY ShowingKeepsLayout DEF ActivateInstance

(* MoveInstance keeps the layout invariant. *)
LEMMA MoveInstanceLayout ==
  ASSUME TypeOK, TypeOK', LayoutInv, NEW s \in Surface, NEW w \in Label, NEW c \in ClusterId,
         NEW p \in PaneId, MoveInstance(s, w, c, p)
  PROVE  LayoutInv'
<1> DEFINE lifted == TakenOut(tabs, panes, Elsewhere(w, c), s)
           left == PrunedWhere(lifted, panes, Elsewhere(w, c), s)
           evict == ~(s \in instances /\ s[1] \in Takeover)
<1>1. /\ w \in windows /\ c \in clusters[w]
      /\ UNCHANGED <<windows, clusters, counters>>
      /\ activeCluster' = [activeCluster EXCEPT ![w] = c]
      /\ PlaceSurface(lifted, left, instances, {}, c, s, p, None, evict)
  BY DEF MoveInstance
<1>2. lifted \in Tabs
  BY LiftedTypes DEF TypeOK
<1>3. /\ left \in Trees
      /\ \A d \in ClusterId : left[d] \subseteq panes[d] /\ (panes[d] # {} => left[d] # {})
  BY PrunedWhereKeepsSome DEF TypeOK, TreesType, Trees
<1>4. instances \in SUBSET Surface /\ {} \in SUBSET Surface /\ evict \in BOOLEAN
  BY DEF TypeOK, TreesType
<1> HIDE DEF lifted, left, evict
<1>5. OnlyGains(left, c, None)
  BY <1>1, <1>2, <1>3, <1>4, PlaceSurfaceType
<1>6. /\ panes' \in Trees
      /\ \A d \in ClusterId : panes'[d] \subseteq panes[d] /\ (panes[d] # {} => panes'[d] # {})
  BY <1>3, <1>5 DEF OnlyGains
<1>7. \A v \in windows : activeCluster'[v] \in clusters[v] \cup {None}
  BY <1>1 DEF LayoutInv, ShowsItsOwn, TypeOK, WindowsType
<1>8. \A v \in Label \ windows : activeCluster'[v] = activeCluster[v]
  BY <1>1 DEF TypeOK, WindowsType
<1>9. counters.panes \in Nat
  BY DEF TypeOK, CountersType
<1> QED BY <1>1, <1>6, <1>7, <1>8, <1>9, TreesStepKeepsLayout DEF TypeOK

(* SplitWithInstance keeps the layout invariant. *)
LEMMA SplitWithInstanceLayout ==
  ASSUME TypeOK, TypeOK', LayoutInv, NEW s \in Surface, NEW w \in Label, NEW c \in ClusterId,
         NEW p \in PaneId, SplitWithInstance(s, w, c, p)
  PROVE  LayoutInv'
<1> DEFINE new == counters.panes + 1
           left == PrunedWhere(TakenOut(tabs, panes, LiveClusters, s), panes, LiveClusters, s)
<1>1. /\ w \in windows /\ c \in clusters[w] /\ UNCHANGED <<windows, clusters>>
      /\ counters' = [counters EXCEPT !.panes = new]
      /\ \/ /\ panes' = [left EXCEPT ![c] = @ \cup {new}]
            /\ activeCluster' = [activeCluster EXCEPT ![w] = c]
         \/ panes' = left /\ UNCHANGED activeCluster
  BY DEF SplitWithInstance
<1>2. new \in PaneId
  BY NextIds DEF SplitWithInstance, TypeOK
<1>3. /\ left \in Trees
      /\ \A d \in ClusterId : left[d] \subseteq panes[d] /\ (panes[d] # {} => left[d] # {})
  BY PrunedWhereKeepsSome DEF TypeOK, TreesType, Trees
<1>4. /\ counters'.windows = counters.windows /\ counters'.clusters = counters.clusters
      /\ counters'.panes = new /\ counters.panes \in Nat
      /\ new > counters.panes /\ c \in LiveClusters
  BY <1>1 DEF TypeOK, CountersType, LiveClusters
<1> HIDE DEF new, left
<1>5. /\ panes' \in Trees
      /\ \A d \in ClusterId \ {c} : panes'[d] \subseteq panes[d]
      /\ panes'[c] \subseteq panes[c] \cup {new}
      /\ \A d \in ClusterId : panes[d] # {} => panes'[d] # {}
  BY <1>1, <1>2, <1>3 DEF Trees
<1>6. \A v \in windows : activeCluster'[v] \in clusters[v] \cup {None}
  BY <1>1 DEF LayoutInv, ShowsItsOwn, TypeOK, WindowsType
<1>7. \A v \in Label \ windows : activeCluster'[v] = activeCluster[v]
  BY <1>1 DEF TypeOK, WindowsType
<1>8. panes'[c] \subseteq panes[c] \cup ({new} \ {None})
  BY <1>2, <1>5 DEF PaneId
<1>9. new \in PaneId \cup {None} /\ counters.panes <= counters'.panes /\ new <= counters'.panes
  BY <1>2, <1>4 DEF PaneId
<1> QED BY <1>1, <1>4, <1>5, <1>6, <1>7, <1>8, <1>9, TreesStepKeepsLayout DEF TypeOK

(* Recording a terminal opens no window, cluster or pane. *)
LEMMA AddTerminalLayout ==
  ASSUME TypeOK, TypeOK', LayoutInv, NEW c \in ClusterId, NEW sibling \in Terminal, 
         AddTerminal(c, sibling)
  PROVE  LayoutInv'
<1>1. UNCHANGED <<windows, clusters, activeCluster, panes>>
  BY DEF AddTerminal
<1>2. /\ counters'.windows = counters.windows /\ counters'.clusters = counters.clusters
      /\ counters'.panes = counters.panes /\ counters.panes \in Nat
  BY DEF AddTerminal, TypeOK, CountersType
<1>3. \A w \in windows : activeCluster'[w] \in clusters[w] \cup {None}
  BY <1>1 DEF LayoutInv, ShowsItsOwn
<1> QED BY <1>1, <1>2, <1>3, OnlyMintingKeepsLayout DEF TypeOK

(* CreateTerminal keeps the layout invariant. *)
LEMMA CreateTerminalLayout ==
  ASSUME TypeOK, TypeOK', LayoutInv, NEW w \in Label, CreateTerminal(w)
  PROVE  LayoutInv'
<1>1. activeCluster[w] \in ClusterId /\ NextTerminal \in Terminal
  BY NextTerminalType DEF CreateTerminal, AddTerminal, TypeOK, WindowsType
<1> QED BY <1>1, AddTerminalLayout DEF CreateTerminal

(* SplitTerminal keeps the layout invariant. *)
LEMMA SplitTerminalLayout ==
  ASSUME TypeOK, TypeOK', LayoutInv, NEW t \in Terminal, SplitTerminal(t)
  PROVE  LayoutInv'
<1>1. clusterOf[t] \in ClusterId
  BY DEF SplitTerminal, AddTerminal, LiveClusters, TypeOK, TerminalsType, WindowsType
<1> QED BY <1>1, AddTerminalLayout DEF SplitTerminal

(* Recording a terminal in a pane adds at most that pane, which is new. *)
LEMMA AddTerminalInPaneLayout ==
  ASSUME TypeOK, TypeOK', LayoutInv, NEW t \in Terminal, NEW c \in ClusterId, NEW asked \in PaneId,
         NEW new \in PaneId \cup {None}, AddTerminalInPane(t, c, asked, new),
         counters'.windows = counters.windows, counters'.clusters = counters.clusters,
         counters.panes <= counters'.panes,
         new # None => new > counters.panes /\ new <= counters'.panes
  PROVE  LayoutInv'
<1>1. UNCHANGED <<windows, clusters, activeCluster>>
  BY DEF AddTerminalInPane
<1>2. \A w \in windows : activeCluster'[w] \in clusters[w] \cup {None}
  BY <1>1 DEF LayoutInv, ShowsItsOwn
<1>3. CASE UNCHANGED panes
  BY <1>1, <1>2, <1>3, OnlyMintingKeepsLayout DEF TypeOK
<1>4. CASE c \in LiveClusters /\ PlaceSurface(tabs, panes, instances, {}, c, t, asked, new, TRUE)
  <2>1. /\ tabs \in Tabs /\ panes \in Trees /\ instances \in SUBSET Surface
        /\ {} \in SUBSET Surface /\ t \in Surface
    BY KindsAndSurfaces DEF TypeOK, TreesType, Tabs, Trees
  <2>2. OnlyGains(panes, c, new)
    BY <1>4, <2>1, PlaceSurfaceType
  <2>3. \A d \in ClusterId : panes[d] # {} => panes'[d] # {}
    BY <2>2 DEF OnlyGains
  <2> QED BY <1>1, <1>2, <1>4, <2>2, <2>3, TreesStepKeepsLayout DEF TypeOK, OnlyGains
<1> QED BY <1>3, <1>4 DEF AddTerminalInPane

(* OpenTerminalInPane keeps the layout invariant. *)
LEMMA OpenTerminalInPaneLayout ==
  ASSUME TypeOK, TypeOK', LayoutInv, NEW w \in Label, NEW asked \in PaneId, NEW split \in BOOLEAN,
         OpenTerminalInPane(w, asked, split)
  PROVE  LayoutInv'
<1> DEFINE new == IF split THEN counters.panes + 1 ELSE None
<1>1. NextTerminal \in Terminal /\ activeCluster[w] \in ClusterId /\ new \in PaneId \cup {None}
  BY NextTerminalType, NextIds DEF OpenTerminalInPane, TypeOK, WindowsType
<1>2. /\ counters'.windows = counters.windows /\ counters'.clusters = counters.clusters
      /\ counters'.panes = IF split THEN new ELSE counters.panes
      /\ AddTerminalInPane(NextTerminal, activeCluster[w], asked, new)
  BY DEF OpenTerminalInPane, TypeOK, CountersType
<1>3. counters.panes <= counters'.panes /\ (new # None => new > counters.panes /\ new <= counters'.panes)
  BY <1>2 DEF TypeOK, CountersType
<1> HIDE DEF new
<1> QED BY <1>1, <1>2, <1>3, AddTerminalInPaneLayout

(* WorkerSpawn keeps the layout invariant. *)
LEMMA WorkerSpawnLayout ==
  ASSUME TypeOK, TypeOK', LayoutInv, NEW c \in ClusterId, NEW asked \in PaneId, 
         WorkerSpawn(c, asked)
  PROVE  LayoutInv'
<1>1. UNCHANGED <<windows, clusters, activeCluster, panes>>
  BY DEF WorkerSpawn
<1>2. /\ counters'.windows = counters.windows /\ counters'.clusters = counters.clusters
      /\ counters'.panes = counters.panes /\ counters.panes \in Nat
  BY DEF WorkerSpawn, TypeOK, CountersType
<1>3. \A w \in windows : activeCluster'[w] \in clusters[w] \cup {None}
  BY <1>1 DEF LayoutInv, ShowsItsOwn
<1> QED BY <1>1, <1>2, <1>3, OnlyMintingKeepsLayout DEF TypeOK

(* WorkerAdd keeps the layout invariant. *)
LEMMA WorkerAddLayout ==
  ASSUME TypeOK, TypeOK', LayoutInv, NEW x \in spawning, WorkerAdd(x)
  PROVE  LayoutInv'
<1>1. x[1] \in Terminal /\ x[2] \in ClusterId /\ x[3] \in PaneId
  BY DEF TypeOK, TerminalsType
<1>2. counters' = counters /\ counters.panes \in Nat /\ AddTerminalInPane(x[1], x[2], x[3], None)
  BY DEF WorkerAdd, TypeOK, CountersType
<1>3. None \in PaneId \cup {None}
  OBVIOUS
<1> QED BY <1>1, <1>2, <1>3, AddTerminalInPaneLayout

(* SetActiveTerminal keeps the layout invariant. *)
LEMMA SetActiveTerminalLayout ==
  ASSUME TypeOK, TypeOK', LayoutInv, NEW c \in ClusterId, NEW t \in Terminal \cup {NoSurface},
         SetActiveTerminal(c, t)
  PROVE  LayoutInv'
<1>1. UNCHANGED <<windows, clusters, activeCluster, panes>>
  BY DEF SetActiveTerminal
<1>2. /\ counters'.windows = counters.windows /\ counters'.clusters = counters.clusters
      /\ counters'.panes = counters.panes /\ counters.panes \in Nat
  BY DEF SetActiveTerminal, TypeOK, CountersType
<1>3. \A w \in windows : activeCluster'[w] \in clusters[w] \cup {None}
  BY <1>1 DEF LayoutInv, ShowsItsOwn
<1> QED BY <1>1, <1>2, <1>3, OnlyMintingKeepsLayout DEF TypeOK

(* Restart keeps the layout invariant. *)
LEMMA RestartLayout ==
  ASSUME TypeOK, TypeOK', LayoutInv, Restart
  PROVE  LayoutInv'
<1>1. UNCHANGED <<windows, clusters, activeCluster, panes>> /\ counters' = CountersFor
  BY DEF Restart
<1>2. LiveClusters' = LiveClusters /\ LivePanes' = LivePanes
  BY <1>1 DEF LiveClusters, LivePanes
<1>3. windows \in SUBSET (0..MaxWindow) /\ MaxWindow \in Nat
  BY ConstantsAssumption DEF TypeOK, WindowsType, Label
<1>4. LiveClusters \cup {0} \in SUBSET (0..MaxCluster) /\ MaxCluster \in Nat
  BY ConstantsAssumption DEF LiveClusters, TypeOK, WindowsType, ClusterId
<1>5. LivePanes \in SUBSET (0..MaxPane) /\ MaxPane \in Nat
  BY ConstantsAssumption, <1>4 DEF LivePanes, LiveClusters, TypeOK, WindowsType, TreesType, PaneId
<1>6. /\ \A w \in windows : w <= Highest(windows)
      /\ \A c \in LiveClusters : c <= Highest(LiveClusters \cup {0})
      /\ \A p \in LivePanes : p <= Highest(LivePanes)
  BY <1>3, <1>4, <1>5, HighestIsGreatest
<1>7. LayoutCounted'
  BY <1>1, <1>2, <1>6 DEF LayoutCounted, CountersFor
<1>8. IdsUnique' /\ ShowsItsOwn' /\ TreesStand' /\ ClosedIsEmpty' /\ MainStays'
  BY <1>1, <1>2 DEF LayoutInv, IdsUnique, ShowsItsOwn, TreesStand, ClosedIsEmpty, MainStays
<1> QED BY <1>7, <1>8 DEF LayoutInv

(* Every step keeps the layout invariant. *)
LEMMA LayoutNext == TypeOK /\ LayoutInv /\ [Next]_vars => LayoutInv'
<1> SUFFICES ASSUME TypeOK, LayoutInv, [Next]_vars PROVE LayoutInv'
  OBVIOUS
<1>0. TypeOK'
  BY TypeNext
<1>1. ASSUME NEW w \in Label, AddCluster(w) PROVE LayoutInv'
  BY <1>1, AddClusterLayout
<1>2. CASE NewWindow
  BY <1>2, NewWindowLayout
<1>3. ASSUME NEW w \in Label, NEW c \in ClusterId \cup {None}, SetActiveCluster(w, c) PROVE LayoutInv'
  BY <1>0, <1>3, SetActiveClusterLayout
<1>4. ASSUME NEW w \in Label, NEW c \in ClusterId, CloseCluster(w, c) PROVE LayoutInv'
  BY <1>4, CloseClusterLayout
<1>5. ASSUME NEW w \in Label, NEW to \in Label, NEW c \in ClusterId, MoveCluster(w, c, to)
      PROVE  LayoutInv'
  BY <1>5, MoveClusterLayout
<1>6. ASSUME NEW w \in Label, CloseWindow(w) PROVE LayoutInv'
  BY <1>6, CloseWindowLayout
<1>7. ASSUME NEW app \in Apps, NEW w \in Label, NEW p \in PaneId \cup {None}, NEW split \in BOOLEAN,
             OpenInstance(app, w, p, split)
      PROVE  LayoutInv'
  BY <1>0, <1>7, OpenInstanceLayout
<1>8. ASSUME NEW s \in Surface, CloseInstance(s) PROVE LayoutInv'
  BY <1>0, <1>8, CloseInstanceLayout
<1>9. ASSUME NEW w \in Label, NEW c \in ClusterId, ActivateInstance(w, c) PROVE LayoutInv'
  BY <1>0, <1>9, ActivateInstanceLayout
<1>10. ASSUME NEW s \in Surface, NEW w \in Label, NEW c \in ClusterId, NEW p \in PaneId,
              MoveInstance(s, w, c, p)
       PROVE  LayoutInv'
  BY <1>0, <1>10, MoveInstanceLayout
<1>11. ASSUME NEW s \in Surface, NEW w \in Label, NEW c \in ClusterId, NEW p \in PaneId,
              SplitWithInstance(s, w, c, p)
       PROVE  LayoutInv'
  BY <1>0, <1>11, SplitWithInstanceLayout
<1>12. ASSUME NEW s \in Surface, DetachInstance(s) PROVE LayoutInv'
  BY <1>12, DetachInstanceLayout
<1>13. ASSUME NEW w \in Label, CreateTerminal(w) PROVE LayoutInv'
  BY <1>0, <1>13, CreateTerminalLayout
<1>14. ASSUME NEW t \in Terminal, SplitTerminal(t) PROVE LayoutInv'
  BY <1>0, <1>14, SplitTerminalLayout
<1>15. ASSUME NEW w \in Label, NEW p \in PaneId, NEW split \in BOOLEAN, OpenTerminalInPane(w, p, split)
       PROVE  LayoutInv'
  BY <1>0, <1>15, OpenTerminalInPaneLayout
<1>16. ASSUME NEW c \in ClusterId, NEW p \in PaneId, WorkerSpawn(c, p) PROVE LayoutInv'
  BY <1>0, <1>16, WorkerSpawnLayout
<1>17. ASSUME NEW x \in spawning, WorkerAdd(x) PROVE LayoutInv'
  BY <1>0, <1>17, WorkerAddLayout
<1>18. ASSUME NEW t \in Terminal, CloseTerminal(t) PROVE LayoutInv'
  BY <1>0, <1>18, CloseTerminalLayout
<1>19. ASSUME NEW t \in Terminal, NEW w \in Label, MoveTerminal(t, w) PROVE LayoutInv'
  BY <1>0, <1>19, MoveTerminalLayout
<1>20. ASSUME NEW c \in ClusterId, NEW t \in Terminal \cup {NoSurface}, SetActiveTerminal(c, t)
       PROVE  LayoutInv'
  BY <1>0, <1>20, SetActiveTerminalLayout
<1>21. CASE Restart
  BY <1>0, <1>21, RestartLayout
<1>22. CASE UNCHANGED vars
  <2>1. UNCHANGED <<windows, clusters, activeCluster, panes, counters>>
    BY <1>22 DEF vars
  <2> QED BY <2>1 DEF LayoutInv, IdsUnique, ShowsItsOwn, TreesStand, LayoutCounted, ClosedIsEmpty,
                      MainStays, LiveClusters, LivePanes
<1> QED BY <1>1, <1>2, <1>3, <1>4, <1>5, <1>6, <1>7, <1>8, <1>9, <1>10, <1>11, <1>12, <1>13,
           <1>14, <1>15, <1>16, <1>17, <1>18, <1>19, <1>20, <1>21, <1>22 DEF Next

(* Through any sequence of operations and restarts, no cluster or pane is  *)
(* in two places, each window shows one of its clusters if it has any, no  *)
(* live tree is empty, every minted id is new, and a closed cluster has    *)
(* left nothing behind.                                                    *)
THEOREM LayoutHolds == Spec => [](TypeOK /\ LayoutInv)
<1>1. Init => TypeOK /\ LayoutInv
  BY TypeInit, LayoutInit
<1>2. TypeOK /\ LayoutInv /\ [Next]_vars => (TypeOK /\ LayoutInv)'
  BY TypeNext, LayoutNext
<1> QED BY <1>1, <1>2, PTL DEF Spec

(* No two windows hold one cluster and no two trees one pane, whatever is  *)
(* dropped, closed, detached, spawned or restarted, and in any order.      *)
THEOREM LayoutIdsUnique == Spec => []IdsUnique
<1>1. TypeOK /\ LayoutInv => IdsUnique
  BY DEF LayoutInv
<1> QED BY <1>1, LayoutHolds, PTL

(* A window never shows a cluster it does not hold. *)
THEOREM WindowsShowTheirOwn == Spec => []ShowsItsOwn
<1>1. TypeOK /\ LayoutInv => ShowsItsOwn
  BY DEF LayoutInv
<1> QED BY <1>1, LayoutHolds, PTL

(* No tree is ever left without a pane. *)
THEOREM TreesAlwaysStand == Spec => []TreesStand
<1>1. TypeOK /\ LayoutInv => TreesStand
  BY DEF LayoutInv
<1> QED BY <1>1, LayoutHolds, PTL

-----------------------------------------------------------------------------
(* What the trees draw: no surface is drawn twice, every tab names one that is *)
(* there, no surface is lost, nothing comes back to life and every terminal    *)
(* can be reached, each under the switches it needs.                           *)

(* Where the surfaces are drawn *)

(* No surface is in two panes of T, the panes there are no longer included *)
(* -- and those, which are in none of the trees P[c] of C, hold nothing.   *)
Spread(T) == \A p, q \in PaneId : p # q => T[p] \cap T[q] = {}
Covered(T, P, C) == \A p \in PaneId : T[p] # {} => \E c \in C : p \in P[c]
Held(T) == UNION {T[p] : p \in PaneId}

(* What is drawn is then what any pane holds. *)
LEMMA DrawnIsHeld ==
  ASSUME TypeOK, PrunedIsEmpty
  PROVE  Placed = Held(tabs)
<1>1. LivePanes \subseteq PaneId
  BY DEF LivePanes, LiveClusters, TypeOK, WindowsType, TreesType
<1>2. \A p \in PaneId \ LivePanes : tabs[p] = {}
  BY DEF PrunedIsEmpty
<1> QED BY <1>1, <1>2 DEF Placed, Held

(* The two invariants of the drawn tabs, said of all panes at once. *)
LEMMA SpreadAndCovered ==
  ASSUME TypeOK
  PROVE  DrawnOnce /\ PrunedIsEmpty <=> Spread(tabs) /\ Covered(tabs, panes, LiveClusters)
<1>1. LivePanes \subseteq PaneId
  BY DEF LivePanes, LiveClusters, TypeOK, WindowsType, TreesType
<1>2. \A p \in PaneId : p \in LivePanes <=> \E c \in LiveClusters : p \in panes[c]
  BY DEF LivePanes
<1>3. PrunedIsEmpty <=> Covered(tabs, panes, LiveClusters)
  BY <1>2 DEF PrunedIsEmpty, Covered
<1>4. ASSUME PrunedIsEmpty PROVE DrawnOnce <=> Spread(tabs)
  <2>1. \A p \in PaneId \ LivePanes : tabs[p] = {}
    BY <1>4 DEF PrunedIsEmpty
  <2> QED BY <1>1, <2>1 DEF DrawnOnce, Spread
<1> QED BY <1>3, <1>4

(* The tabs U are T without s in the trees C of P; s is in no pane of T    *)
(* outside Q; the tabs U are T without s.                                  *)
TakenFrom(T, U, P, C, s) ==
  \A p \in PaneId : \A u : u \in U[p] <=> u \in T[p] /\ (u # s \/ \A c \in C : p \notin P[c])
OnlyIn(T, Q, s) == \A p \in PaneId \ Q : s \notin T[p]
Without(T, U, s) == \A p \in PaneId : \A u : u \in U[p] <=> u \in T[p] /\ u # s

(* Taking s out of the trees C takes it out of every pane of theirs: the   *)
(* first pane that holds it is the only one.                               *)
LEMMA TakenOutOfAll ==
  ASSUME NEW T \in Tabs, NEW P \in Trees, NEW C \in SUBSET ClusterId, NEW s, Spread(T)
  PROVE  TakenFrom(T, TakenOut(T, P, C, s), P, C, s)
<1> SUFFICES ASSUME NEW p \in PaneId, NEW u
             PROVE  u \in TakenOut(T, P, C, s)[p] <=> u \in T[p] /\ (u # s \/ \A c \in C : p \notin P[c])
  BY DEF TakenFrom
<1>1. ASSUME NEW c \in C, Holders(T, P[c], s) # {}
      PROVE  LET q == CHOOSE q \in Holders(T, P[c], s) : TRUE
             IN q \in P[c] /\ q \in PaneId /\ s \in T[q]
  BY <1>1 DEF Holders, Trees
<1>2. CASE s \notin T[p]
  BY <1>2 DEF TakenOut
<1>3. CASE s \in T[p]
  <2>1. ASSUME NEW c \in C, Holders(T, P[c], s) # {}, p = CHOOSE q \in Holders(T, P[c], s) : TRUE
        PROVE  p \in P[c]
    BY <1>1, <2>1
  <2>2. ASSUME NEW c \in C, p \in P[c]
        PROVE  Holders(T, P[c], s) # {} /\ p = CHOOSE q \in Holders(T, P[c], s) : TRUE
    <3>1. p \in Holders(T, P[c], s)
      BY <1>3, <2>2 DEF Holders
    <3>2. PICK q \in PaneId : q = (CHOOSE r \in Holders(T, P[c], s) : TRUE) /\ s \in T[q]
      BY <1>1, <3>1
    <3>3. p = q
      BY <1>3, <3>2 DEF Spread
    <3> QED BY <3>1, <3>2, <3>3
  <2> QED BY <2>1, <2>2 DEF TakenOut
<1> QED BY <1>2, <1>3

(* The same for one tree, that of the cluster c. *)
LEMMA TakenOutOfOne ==
  ASSUME NEW T \in Tabs, NEW P \in Trees, NEW c \in ClusterId, NEW s, Spread(T), OnlyIn(T, P[c], s)
  PROVE  Without(T, TakenOut(T, P, {c}, s), s)
<1> DEFINE C == {c}
<1>1. C \in SUBSET ClusterId
  OBVIOUS
<1>2. \A p \in PaneId : (\A d \in C : p \notin P[d]) <=> p \notin P[c]
  OBVIOUS
<1> HIDE DEF C
<1>3. TakenFrom(T, TakenOut(T, P, C, s), P, C, s)
  BY <1>1, TakenOutOfAll
<1>4. Without(T, TakenOut(T, P, C, s), s)
  BY <1>2, <1>3 DEF TakenFrom, Without, OnlyIn
<1> QED BY <1>4 DEF C

(* Pruning drops no pane that holds something. *)
LEMMA PrunedKeepsDrawn ==
  ASSUME NEW T, NEW Q, NEW p \in Q, T[p] # {}
  PROVE  p \in Pruned(T, Q)
BY DEF Pruned

(* What lifting s out of the trees C, and pruning what it leaves, comes    *)
(* to: every other surface stays where it was, in a pane that stays.       *)
Lifted(C, s, lifted, left) ==
  /\ lifted \in Tabs /\ left \in Trees
  /\ Spread(lifted) /\ Covered(lifted, left, LiveClusters)
  /\ \A p \in PaneId : lifted[p] \subseteq tabs[p] /\ tabs[p] \subseteq lifted[p] \cup {s}
  /\ \A c \in C : \A p \in panes[c] : s \notin lifted[p]
  /\ \A c \in ClusterId : left[c] \subseteq panes[c]
  /\ Held(lifted) \subseteq Held(tabs) /\ Held(tabs) \subseteq Held(lifted) \cup {s}
  /\ C = LiveClusters => s \notin Held(lifted)

(* So it does, when no surface was in two panes to begin with. *)
LEMMA LiftingTabs ==
  ASSUME TypeOK, Spread(tabs), Covered(tabs, panes, LiveClusters),
         NEW C \in SUBSET LiveClusters, NEW s,
         NEW lifted, lifted = TakenOut(tabs, panes, C, s),
         NEW left, left = PrunedWhere(lifted, panes, C, s)
  PROVE  Lifted(C, s, lifted, left)
<1>1. tabs \in Tabs /\ panes \in Trees /\ LiveClusters \subseteq ClusterId
  BY DEF Tabs, Trees, TypeOK, TreesType, WindowsType, LiveClusters
<1>2. lifted \in Tabs /\ left \in Trees /\ \A c \in ClusterId : left[c] \subseteq panes[c]
  BY <1>1, TakenOutType, PrunedWhereKeepsSome
<1>3. \A p \in PaneId : \A u :
        u \in lifted[p] <=> u \in tabs[p] /\ (u # s \/ \A c \in C : p \notin panes[c])
  <2>1. C \in SUBSET ClusterId
    BY <1>1
  <2>2. TakenFrom(tabs, lifted, panes, C, s)
    BY <1>1, <2>1, TakenOutOfAll
  <2> QED BY <2>2 DEF TakenFrom
<1>4. \A p \in PaneId : lifted[p] \subseteq tabs[p] /\ tabs[p] \subseteq lifted[p] \cup {s}
  BY <1>3
<1>5. \A c \in C : \A p \in panes[c] : s \notin lifted[p]
  BY <1>1, <1>3 DEF Trees
<1>6. Spread(lifted)
  BY <1>4 DEF Spread
<1>7. Covered(lifted, left, LiveClusters)
  <2> SUFFICES ASSUME NEW p \in PaneId, lifted[p] # {}
               PROVE  \E c \in LiveClusters : p \in left[c]
    BY DEF Covered
  <2>1. PICK c \in LiveClusters : p \in panes[c]
    BY <1>4 DEF Covered
  <2>2. p \in Pruned(lifted, panes[c])
    BY <2>1, PrunedKeepsDrawn
  <2>3. c \in ClusterId
    BY <1>1
  <2>4. left[c] = IF c \in C /\ Holders(tabs, panes[c], s) # {} THEN Pruned(lifted, panes[c]) ELSE panes[c]
    BY <2>3 DEF PrunedWhere
  <2> QED BY <2>1, <2>2, <2>4
<1>8. Held(lifted) \subseteq Held(tabs) /\ Held(tabs) \subseteq Held(lifted) \cup {s}
  BY <1>4 DEF Held
<1>9. ASSUME C = LiveClusters PROVE s \notin Held(lifted)
  <2>1. ASSUME NEW p \in PaneId PROVE s \notin lifted[p]
    <3>1. CASE \E c \in C : p \in panes[c]
      BY <1>3, <3>1
    <3>2. CASE ~\E c \in C : p \in panes[c]
      BY <1>4, <1>9, <3>2 DEF Covered
    <3> QED BY <3>1, <3>2
  <2> QED BY <2>1 DEF Held
<1> QED BY <1>2, <1>4, <1>5, <1>6, <1>7, <1>8, <1>9 DEF Lifted

(* What placing s among the tabs T comes to: one live takeover surface may *)
(* have gone from the tabs and the instances, and s has come.              *)
Arrives(T, C, I, opened, s) ==
  /\ Spread(tabs') /\ Covered(tabs', panes', C)
  /\ \E gone : /\ gone # s /\ (gone = NoSurface \/ gone \in I)
               /\ Held(tabs') = (Held(T) \ {gone}) \cup {s}
               /\ instances' = (I \ {gone}) \cup opened

(* `place_surface` loses nothing it does not dismiss, and draws nothing    *)
(* twice, when no other tree has the surface and the new pane is new.      *)
LEMMA PlaceSurfaceArrives ==
  ASSUME NEW T \in Tabs, NEW P \in Trees, NEW I \in SUBSET Surface,
         NEW opened \in SUBSET Surface, NEW L \in SUBSET ClusterId, NEW c \in L, NEW s \in Surface,
         NEW asked, NEW new \in PaneId \cup {None}, NEW evict \in BOOLEAN,
         Spread(T), Covered(T, P, L),
         OnlyIn(T, P[c], s),
         new # None => T[new] = {},
         PlaceSurface(T, P, I, opened, c, s, asked, new, evict)
  PROVE  Arrives(T, L, I, opened, s)
<1>1. PICK target \in IF asked \in P[c] THEN {asked} ELSE P[c] :
        LET lifted == TakenOut(T, P, {c}, s)
        IN \E gone \in IF evict THEN InTheWay(lifted[target], I) ELSE {NoSurface} :
             LET moved == Holders(T, P[c], s) # {}
                 cleared == [lifted EXCEPT ![target] = @ \ {gone}]
                 splits == new # None /\ Cardinality(P[c]) < MaxAutoPanes /\ cleared[target] # {}
                 at == IF splits THEN new ELSE target
                 landed == [cleared EXCEPT ![at] = @ \cup {s}]
                 held == P[c] \cup {at}
             IN /\ tabs' = landed
                /\ panes' = [P EXCEPT ![c] = IF moved THEN Pruned(landed, held) ELSE held]
                /\ instances' = (I \ {gone}) \cup opened
  BY DEF PlaceSurface
<1> DEFINE lifted == TakenOut(T, P, {c}, s)
           moved == Holders(T, P[c], s) # {}
<1>2. PICK gone \in IF evict THEN InTheWay(lifted[target], I) ELSE {NoSurface} :
             LET cleared == [lifted EXCEPT ![target] = @ \ {gone}]
                 splits == new # None /\ Cardinality(P[c]) < MaxAutoPanes /\ cleared[target] # {}
                 at == IF splits THEN new ELSE target
                 landed == [cleared EXCEPT ![at] = @ \cup {s}]
                 held == P[c] \cup {at}
             IN /\ tabs' = landed
                /\ panes' = [P EXCEPT ![c] = IF moved THEN Pruned(landed, held) ELSE held]
                /\ instances' = (I \ {gone}) \cup opened
  BY <1>1
<1> DEFINE cleared == [lifted EXCEPT ![target] = @ \ {gone}]
           splits == new # None /\ Cardinality(P[c]) < MaxAutoPanes /\ cleared[target] # {}
           at == IF splits THEN new ELSE target
           landed == [cleared EXCEPT ![at] = @ \cup {s}]
           held == P[c] \cup {at}
<1>3. target \in P[c] /\ target \in PaneId /\ c \in ClusterId
  BY DEF Trees
<1>4. at \in PaneId /\ (at = target \/ (at = new /\ new # None))
  BY <1>3
<1>5. lifted \in Tabs /\ \A p \in PaneId : \A u : u \in lifted[p] <=> u \in T[p] /\ u # s
  <2>1. lifted \in Tabs
    BY TakenOutType
  <2>2. Without(T, lifted, s)
    BY <1>3, TakenOutOfOne
  <2> QED BY <2>1, <2>2 DEF Without
<1>6. /\ tabs' = landed
      /\ panes' = [P EXCEPT ![c] = IF moved THEN Pruned(landed, held) ELSE held]
      /\ instances' = (I \ {gone}) \cup opened
  BY <1>2
<1>7. gone = NoSurface \/ (gone \in lifted[target] /\ gone \in I)
  BY InTheWayIsLive
<1>8. NoSurface \notin Surface
  BY DEF Surface, Of, NoSurface
<1>9. gone # s
  BY <1>3, <1>5, <1>7, <1>8
<1>10. \A p \in PaneId : \A u :
         u \in landed[p] <=> (u \in T[p] /\ u # s /\ ~(p = target /\ u = gone)) \/ (p = at /\ u = s)
  <2>1. cleared \in Tabs /\ \A p \in PaneId : cleared[p] = IF p = target THEN lifted[p] \ {gone} ELSE lifted[p]
    BY <1>3, <1>5 DEF Tabs
  <2>2. \A p \in PaneId : landed[p] = IF p = at THEN cleared[p] \cup {s} ELSE cleared[p]
    <3> HIDE DEF at, cleared
    <3> QED BY <1>4, <2>1 DEF Tabs
  <2> HIDE DEF landed, cleared, at, lifted
  <2>3. \A p \in PaneId : \A u : u \in cleared[p] <=> u \in lifted[p] /\ ~(p = target /\ u = gone)
    BY <2>1
  <2>4. \A p \in PaneId : \A u : u \in landed[p] <=> u \in cleared[p] \/ (p = at /\ u = s)
    BY <2>2
  <2> QED BY <1>5, <2>3, <2>4
<1> HIDE DEF landed, at, lifted, held, moved
<1>11. Spread(tabs')
  <2> SUFFICES ASSUME NEW p \in PaneId, NEW q \in PaneId, p # q, NEW u \in landed[p], u \in landed[q]
               PROVE  FALSE
    BY <1>6 DEF Spread
  <2>1. CASE u = s
    <3>1. p = at /\ q = at
      BY <1>10, <2>1
    <3> QED BY <3>1
  <2>2. CASE u # s
    <3>1. u \in T[p] /\ u \in T[q]
      BY <1>10, <2>2
    <3> QED BY <3>1 DEF Spread
  <2> QED BY <2>1, <2>2
<1>12. Covered(tabs', panes', L)
  <2> SUFFICES ASSUME NEW p \in PaneId, landed[p] # {}
               PROVE  \E d \in L : p \in panes'[d]
    BY <1>6 DEF Covered
  <2>1. panes'[c] = (IF moved THEN Pruned(landed, held) ELSE held) /\ \A d \in L \ {c} : panes'[d] = P[d]
    BY <1>3, <1>6 DEF Trees
  <2>2. CASE p \in held
    <3>1. p \in Pruned(landed, held)
      BY <2>2, PrunedKeepsDrawn
    <3> QED BY <2>1, <2>2, <3>1
  <2>3. CASE p \notin held
    <3>1. p # at /\ p \notin P[c]
      BY <2>3 DEF held
    <3>2. T[p] # {}
      BY <1>10, <3>1
    <3>3. PICK d \in L : p \in P[d]
      BY <3>2 DEF Covered
    <3> QED BY <2>1, <3>1, <3>3
  <2> QED BY <2>2, <2>3
<1>13. Held(tabs') = (Held(T) \ {gone}) \cup {s}
  <2>1. ASSUME NEW u \in Held(tabs') PROVE u \in (Held(T) \ {gone}) \cup {s}
    <3>1. PICK p \in PaneId : u \in landed[p]
      BY <1>6, <2>1 DEF Held
    <3>2. CASE u = s
      BY <3>2
    <3>3. CASE u # s
      <4>1. u \in T[p] /\ ~(p = target /\ u = gone)
        BY <1>10, <3>1, <3>3
      <4>2. u # gone
        <5>1. SUFFICES ASSUME u = gone PROVE FALSE
          OBVIOUS
        <5>2. u # NoSurface
          BY <1>8, <4>1 DEF Tabs
        <5>3. gone \in T[target]
          BY <1>3, <1>5, <1>7, <5>1, <5>2
        <5> QED BY <1>3, <4>1, <5>1, <5>3 DEF Spread
      <4> QED BY <4>1, <4>2 DEF Held
    <3> QED BY <3>2, <3>3
  <2>2. ASSUME NEW u \in (Held(T) \ {gone}) \cup {s} PROVE u \in Held(tabs')
    <3>1. CASE u = s
      <4>1. s \in landed[at]
        BY <1>4, <1>10
      <4> QED BY <1>4, <1>6, <3>1, <4>1 DEF Held
    <3>2. CASE u # s
      <4>1. PICK p \in PaneId : u \in T[p] /\ u # gone
        BY <2>2, <3>2 DEF Held
      <4>2. u \in landed[p]
        BY <1>10, <3>2, <4>1
      <4> QED BY <1>6, <4>2 DEF Held
    <3> QED BY <3>1, <3>2
  <2> QED BY <2>1, <2>2
<1> QED BY <1>6, <1>7, <1>9, <1>11, <1>12, <1>13 DEF Arrives

-----------------------------------------------------------------------------
(* The tabs and what they stand for *)

(* A drop finds what was picked up still open, and no cluster closes while *)
(* another one draws its terminals.                                        *)
Calm == ~StaleDrops /\ ~ForeignCloses

Spawned == {x[1] : x \in spawning}
Known == Live \cup Held(tabs) \cup Spawned

(* No terminal still being spawned is live or drawn, and no two of them    *)
(* have one id.                                                            *)
SpawnsAreNew ==
  /\ \A x, y \in spawning : x[1] = y[1] => x = y
  /\ Spawned \cap (Live \cup Held(tabs)) = {}
KnownCounted == \A s \in Known : s[2] <= counters.ord[s[1]]
InstancesAreApps == \A u \in instances : u[1] \in Apps

(* The inductive invariant.  That a surface is drawn once needs its id to  *)
(* be new when it is minted; that it is new after a restart needs every    *)
(* tab to resolve, as the counters start again from what is live; that     *)
(* every tab resolves when one is closed needs it to be drawn once.        *)
TabsInv ==
  /\ Spread(tabs) /\ Covered(tabs, panes, LiveClusters)
  /\ InstancesAreApps /\ SpawnsAreNew /\ KnownCounted
  /\ Calm => Held(tabs) \subseteq Live
  /\ ~OwnEdgeDrops => instances \subseteq Held(tabs)

(* Everything live, drawn or being spawned is a surface, and what a tab    *)
(* shows in a live tree is all that any pane holds.                        *)
LEMMA KnownAreSurfaces ==
  ASSUME TypeOK
  PROVE  /\ Live \subseteq Surface /\ Held(tabs) \subseteq Surface /\ Spawned \subseteq Terminal
         /\ Known \subseteq Surface
<1>1. Live \subseteq Surface
  BY KindsAndSurfaces DEF TypeOK, TreesType, TerminalsType, Live
<1>2. Held(tabs) \subseteq Surface
  BY DEF TypeOK, TreesType, Held
<1>3. Spawned \subseteq Terminal
  BY DEF TypeOK, TerminalsType, Spawned
<1> QED BY <1>1, <1>2, <1>3, KindsAndSurfaces DEF Known

(* A surface's kind is one of the kinds, and its ordinal counts from one.  *)
LEMMA SurfaceParts ==
  ASSUME NEW s \in Surface
  PROVE  s[1] \in Kind /\ s[2] \in Nat \ {0} /\ s = <<s[1], s[2]>>
BY ConstantsAssumption DEF Surface, Of, Kind

(* An id about to be minted is none of those known.                        *)
LEMMA MintedIsNew ==
  ASSUME TypeOK, TabsInv, NEW k \in Kind
  PROVE  <<k, counters.ord[k] + 1>> \notin Known
<1>1. counters.ord[k] \in Nat
  BY DEF TypeOK, CountersType
<1> QED BY <1>1 DEF TabsInv, KnownCounted

(* What a step that lets the surfaces S arrive has to keep. *)
LEMMA TabsStep ==
  ASSUME TypeOK, TypeOK', TabsInv, NEW S \in SUBSET Surface,
         Spread(tabs'), Covered(tabs', panes', LiveClusters'), InstancesAreApps',
         Live' \subseteq Live \cup S, Held(tabs') \subseteq Held(tabs) \cup S,
         spawning' \subseteq spawning, S \cap Spawned' = {},
         \A s \in S : s[2] <= counters'.ord[s[1]],
         \A k \in Kind : counters.ord[k] <= counters'.ord[k],
         Calm => Held(tabs') \subseteq Live',
         ~OwnEdgeDrops => instances' \subseteq Held(tabs')
  PROVE  TabsInv'
<1>1. Spawned' \subseteq Spawned
  BY DEF Spawned
<1>2. SpawnsAreNew'
  BY <1>1 DEF TabsInv, SpawnsAreNew
<1>3. KnownCounted'
  <2> SUFFICES ASSUME NEW s \in Known' PROVE s[2] <= counters'.ord[s[1]]
    BY DEF KnownCounted
  <2>1. s \in Known \/ s \in S
    BY <1>1 DEF Known
  <2>2. CASE s \in Known
    <3>1. s[1] \in Kind /\ s[2] \in Nat
      BY <2>2, KnownAreSurfaces, SurfaceParts
    <3>2. s[2] <= counters.ord[s[1]]
      BY <2>2 DEF TabsInv, KnownCounted
    <3>3. counters.ord[s[1]] \in Nat /\ counters'.ord[s[1]] \in Nat
      BY <3>1 DEF TypeOK, CountersType
    <3> QED BY <3>1, <3>2, <3>3
  <2> QED BY <2>1, <2>2
<1> QED BY <1>2, <1>3 DEF TabsInv, Calm

(* A step that leaves the tabs and the live surfaces alone, but for the    *)
(* instances it forgets because nothing draws them. *)
LEMMA LayoutStepKeepsTabs ==
  ASSUME TypeOK, TypeOK', TabsInv, UNCHANGED <<panes, tabs, instances, terminals, spawning>>,
         LiveClusters' = LiveClusters, counters'.ord = counters.ord
  PROVE  TabsInv'
<1>1. Live' = Live /\ Held(tabs') = Held(tabs)
  BY DEF Live, Held
<1>2. \A k \in Kind : counters.ord[k] <= counters'.ord[k]
  BY DEF TypeOK, CountersType
<1> DEFINE S == {}
<1>3. S \in SUBSET Surface /\ S \cap Spawned' = {} /\ \A s \in S : s[2] <= counters'.ord[s[1]]
  OBVIOUS
<1>4. /\ Spread(tabs') /\ Covered(tabs', panes', LiveClusters') /\ InstancesAreApps'
      /\ Calm => Held(tabs') \subseteq Live'
      /\ ~OwnEdgeDrops => instances' \subseteq Held(tabs')
  BY <1>1 DEF TabsInv, InstancesAreApps
<1> HIDE DEF S
<1> QED BY <1>1, <1>2, <1>3, <1>4, TabsStep

(* The shell starts with no surface at all. *)
LEMMA TabsInit == Init => TabsInv
<1> SUFFICES ASSUME Init PROVE TabsInv
  OBVIOUS
<1>1. Held(tabs) = {} /\ Live = {} /\ Spawned = {}
  BY DEF Init, Held, Live, Spawned
<1>2. Spread(tabs) /\ Covered(tabs, panes, LiveClusters)
  BY DEF Init, Spread, Covered
<1> QED BY <1>1, <1>2 DEF Init, TabsInv, InstancesAreApps, SpawnsAreNew, KnownCounted, Known

(* A new cluster that shows a surface nobody knows yet, or one lifted from *)
(* where it was, alone in a new pane: T and P are the tabs and the trees   *)
(* the others keep.                                                        *)
LEMMA FreshPaneHolds ==
  ASSUME TypeOK, NEW T \in Tabs, NEW P \in Trees, NEW L \in SUBSET ClusterId,
         Spread(T), Covered(T, P, L), NEW s, s \notin Held(T),
         NEW c \in ClusterId \ L, NEW p \in PaneId, \A d \in L : p \notin P[d],
         tabs' = [T EXCEPT ![p] = {s}], panes' = [P EXCEPT ![c] = {p}],
         LiveClusters' = L \cup {c}
  PROVE  /\ Spread(tabs') /\ Covered(tabs', panes', LiveClusters')
         /\ Held(tabs') = Held(T) \cup {s}
<1>1. T[p] = {}
  BY DEF Covered
<1>2. \A q \in PaneId : tabs'[q] = IF q = p THEN {s} ELSE T[q]
  BY DEF Tabs
<1>3. \A q \in PaneId : s \notin T[q]
  BY DEF Held
<1>4. Spread(tabs')
  BY <1>2, <1>3 DEF Spread
<1>5. Covered(tabs', panes', LiveClusters')
  <2>1. panes'[c] = {p} /\ \A d \in L : panes'[d] = P[d]
    BY DEF Trees
  <2> QED BY <1>2, <2>1 DEF Covered
<1>6. Held(tabs') = Held(T) \cup {s}
  <2>1. \A u : u \in Held(tabs') => u \in Held(T) \cup {s}
    BY <1>2 DEF Held
  <2>2. \A u : u \in Held(T) => u \in Held(tabs')
    BY <1>1, <1>2 DEF Held
  <2>3. s \in Held(tabs')
    BY <1>2 DEF Held
  <2> QED BY <2>1, <2>2, <2>3
<1> QED BY <1>4, <1>5, <1>6

(* A Home just minted, alone in a cluster and a pane just minted. *)
LEMMA HomeOpensKeepsTabs ==
  ASSUME TypeOK, TypeOK', LayoutInv, TabsInv,
         NEW c \in ClusterId, NEW p \in PaneId, c = counters.clusters + 1, p = counters.panes + 1,
         NEW h, h = <<Home, counters.ord[Home] + 1>>, h \in Surface,
         LiveClusters' = LiveClusters \cup {c},
         panes' = [panes EXCEPT ![c] = {p}], tabs' = [tabs EXCEPT ![p] = {h}],
         instances' = instances \cup {h}, UNCHANGED <<terminals, spawning>>,
         counters'.ord = [counters.ord EXCEPT ![Home] = h[2]]
  PROVE  TabsInv'
<1>1. c \notin LiveClusters /\ p \notin LivePanes /\ LiveClusters \subseteq ClusterId
  BY InUseIsCounted
<1>2. h \notin Known /\ Home \in Kind /\ Home \in Apps
  BY MintedIsNew, KindsAndSurfaces, ConstantsAssumption
<1>3. tabs \in Tabs /\ panes \in Trees
  BY DEF TypeOK, TreesType, Tabs, Trees
<1>4. h \notin Held(tabs) /\ h \notin Spawned
  BY <1>2 DEF Known
<1>5. \A d \in LiveClusters : p \notin panes[d]
  BY <1>1 DEF LivePanes
<1>6. /\ Spread(tabs') /\ Covered(tabs', panes', LiveClusters')
      /\ Held(tabs') = Held(tabs) \cup {h}
  BY <1>1, <1>3, <1>4, <1>5, FreshPaneHolds DEF TabsInv
<1>7. Live' = Live \cup {h} /\ Spawned' = Spawned
  BY DEF Live, Spawned
<1>8. InstancesAreApps'
  BY <1>2 DEF TabsInv, InstancesAreApps
<1>9. \A k \in Kind : counters.ord[k] <= counters'.ord[k]
  BY <1>2 DEF TypeOK, CountersType
<1>10. h[2] <= counters'.ord[h[1]]
  BY <1>2 DEF TypeOK, CountersType
<1> DEFINE S == {h}
<1>11. S \in SUBSET Surface /\ S \cap Spawned' = {} /\ \A s \in S : s[2] <= counters'.ord[s[1]]
  BY <1>4, <1>7, <1>10
<1>12. Live' \subseteq Live \cup S /\ Held(tabs') \subseteq Held(tabs) \cup S
  BY <1>6, <1>7
<1>13. /\ Calm => Held(tabs') \subseteq Live'
       /\ ~OwnEdgeDrops => instances' \subseteq Held(tabs')
  BY <1>6, <1>7 DEF TabsInv
<1> HIDE DEF S
<1> QED BY <1>6, <1>8, <1>9, <1>11, <1>12, <1>13, TabsStep

(* AddCluster keeps the invariant of the tabs. *)
LEMMA AddClusterTabs ==
  ASSUME TypeOK, TypeOK', LayoutInv, TabsInv, NEW w \in Label, AddCluster(w)
  PROVE  TabsInv'
<1> DEFINE c == counters.clusters + 1
           p == counters.panes + 1
           h == <<Home, counters.ord[Home] + 1>>
<1>1. c \in ClusterId /\ p \in PaneId /\ h \in Surface
  BY NextIds, KindsAndSurfaces DEF AddCluster, TypeOK
<1>2. /\ w \in windows /\ windows' = windows
      /\ clusters' = [clusters EXCEPT ![w] = @ \cup {c}]
      /\ panes' = [panes EXCEPT ![c] = {p}] /\ tabs' = [tabs EXCEPT ![p] = {h}]
      /\ instances' = instances \cup {h} /\ UNCHANGED <<terminals, spawning>>
      /\ counters'.ord = [counters.ord EXCEPT ![Home] = h[2]]
  BY DEF AddCluster, TypeOK, CountersType
<1> HIDE DEF c, p, h
<1>3. LiveClusters' = LiveClusters \cup {c}
  BY <1>2 DEF LiveClusters, TypeOK, WindowsType
<1>4. c = counters.clusters + 1 /\ p = counters.panes + 1 /\ h = <<Home, counters.ord[Home] + 1>>
  BY DEF c, p, h
<1> QED BY <1>1, <1>2, <1>3, <1>4, HomeOpensKeepsTabs

(* A window that is new holds nothing yet. *)
LEMMA NewWindowsClusters ==
  ASSUME TypeOK, LayoutInv, NEW w \in Label, w = counters.windows + 1, NEW c \in ClusterId,
         windows' = windows \cup {w}, clusters' = [clusters EXCEPT ![w] = {c}]
  PROVE  LiveClusters' = LiveClusters \cup {c} /\ w \notin windows
<1>1. w \notin windows
  BY InUseIsCounted
<1>2. clusters'[w] = {c} /\ \A v \in windows : clusters'[v] = clusters[v]
  BY <1>1 DEF TypeOK, WindowsType
<1> QED BY <1>1, <1>2 DEF LiveClusters

(* NewWindow keeps the invariant of the tabs. *)
LEMMA NewWindowTabs ==
  ASSUME TypeOK, TypeOK', LayoutInv, TabsInv, NewWindow
  PROVE  TabsInv'
<1> DEFINE w == counters.windows + 1
           c == counters.clusters + 1
           p == counters.panes + 1
           h == <<Home, counters.ord[Home] + 1>>
<1>1. w \in Label /\ c \in ClusterId /\ p \in PaneId /\ h \in Surface
  BY NextIds, KindsAndSurfaces DEF NewWindow, TypeOK
<1>2. /\ windows' = windows \cup {w} /\ clusters' = [clusters EXCEPT ![w] = {c}]
      /\ panes' = [panes EXCEPT ![c] = {p}] /\ tabs' = [tabs EXCEPT ![p] = {h}]
      /\ instances' = instances \cup {h} /\ UNCHANGED <<terminals, spawning>>
      /\ counters'.ord = [counters.ord EXCEPT ![Home] = h[2]]
  BY DEF NewWindow, TypeOK, CountersType
<1> HIDE DEF w, c, p, h
<1>3. /\ w = counters.windows + 1 /\ c = counters.clusters + 1 /\ p = counters.panes + 1
      /\ h = <<Home, counters.ord[Home] + 1>>
  BY DEF w, c, p, h
<1>4. LiveClusters' = LiveClusters \cup {c}
  BY <1>1, <1>2, <1>3, NewWindowsClusters
<1> QED BY <1>1, <1>2, <1>3, <1>4, HomeOpensKeepsTabs

(* Choosing what a window shows disturbs no tab. *)
LEMMA ShowingTabs ==
  ASSUME TypeOK, TypeOK', TabsInv,
         (\E w \in Label, c \in ClusterId \cup {None} : SetActiveCluster(w, c))
           \/ (\E w \in Label, c \in ClusterId : ActivateInstance(w, c))
           \/ (\E c \in ClusterId, t \in Terminal \cup {NoSurface} : SetActiveTerminal(c, t))
  PROVE  TabsInv'
<1>1. UNCHANGED <<windows, clusters, panes, tabs, instances, terminals, counters, spawning>>
  BY DEF SetActiveCluster, ActivateInstance, SetActiveTerminal
<1>2. LiveClusters' = LiveClusters
  BY <1>1 DEF LiveClusters
<1> QED BY <1>1, <1>2, LayoutStepKeepsTabs

(* Moving a cluster to another window closes none and opens none. *)
LEMMA MoveClusterKeepsAll ==
  ASSUME TypeOK, LayoutInv, NEW w \in Label, NEW c \in ClusterId, NEW to \in Label,
         MoveCluster(w, c, to)
  PROVE  /\ LiveClusters' = LiveClusters
         /\ UNCHANGED <<panes, tabs, instances, terminals, spawning>>
         /\ counters'.ord = counters.ord
<1>1. /\ w \in windows /\ c \in clusters[w] /\ windows' = windows \cup {to}
      /\ clusters' = [clusters EXCEPT ![w] = @ \ {c}, ![to] = @ \cup {c}]
      /\ UNCHANGED <<panes, tabs, instances, terminals, spawning>>
      /\ counters'.ord = counters.ord
  BY DEF MoveCluster, TypeOK, CountersType
<1>2. to # w
  BY <1>1, InUseIsCounted DEF MoveCluster
<1>3. to \notin windows => clusters[to] = {}
  BY DEF LayoutInv, ClosedIsEmpty
<1>4. LiveClusters' = LiveClusters
  BY <1>1, <1>2, <1>3 DEF LiveClusters, LayoutInv, IdsUnique, TypeOK, WindowsType
<1> QED BY <1>1, <1>4

(* Closing a window hands over all its clusters. *)
LEMMA CloseWindowKeepsAll ==
  ASSUME TypeOK, LayoutInv, NEW w \in Label, CloseWindow(w)
  PROVE  /\ LiveClusters' = LiveClusters
         /\ UNCHANGED <<panes, tabs, instances, terminals, spawning>>
         /\ counters'.ord = counters.ord
<1>1. /\ w \in windows /\ w # Main /\ Main \in windows /\ windows' = windows \ {w}
      /\ clusters' = [clusters EXCEPT ![Main] = @ \cup clusters[w], ![w] = {}]
      /\ UNCHANGED <<panes, tabs, instances, terminals, spawning, counters>>
  BY DEF CloseWindow, HandedOver, LayoutInv, MainStays
<1>2. /\ clusters'[Main] = clusters[Main] \cup clusters[w] /\ clusters'[w] = {}
      /\ \A v \in Label \ {Main, w} : clusters'[v] = clusters[v]
  BY <1>1 DEF TypeOK, WindowsType
<1>3. LiveClusters' = LiveClusters
  BY <1>1, <1>2 DEF LiveClusters, TypeOK, WindowsType
<1> QED BY <1>1, <1>3

(* CloseCluster keeps the invariant of the tabs. *)
LEMMA CloseClusterTabs ==
  ASSUME TypeOK, TypeOK', LayoutInv, TabsInv, NEW w \in Label, NEW c \in ClusterId,
         CloseCluster(w, c)
  PROVE  TabsInv'
<1> DEFINE held == TabsOf(c)
           band == TerminalsOfCluster(c)
           gone == (held \cap terminals) \cup band
<1>1. /\ w \in windows /\ c \in clusters[w] /\ windows' = windows
      /\ ForeignCloses \/ band \cap Placed \subseteq held
      /\ clusters' = [clusters EXCEPT ![w] = @ \ {c}]
      /\ panes' = [panes EXCEPT ![c] = {}]
      /\ tabs' = [p \in PaneId |-> IF p \in panes[c] THEN {} ELSE tabs[p]]
      /\ instances' = instances \ (held \ terminals)
      /\ terminals' = terminals \ gone
      /\ counters' = counters /\ spawning' = spawning
  BY DEF CloseCluster
<1>2. LiveClusters' = LiveClusters \ {c} /\ LiveClusters \subseteq ClusterId
  BY <1>1 DEF LiveClusters, LayoutInv, IdsUnique, TypeOK, WindowsType
<1>3. Spread(tabs')
  BY <1>1 DEF TabsInv, Spread
<1>4. Covered(tabs', panes', LiveClusters')
  <2> SUFFICES ASSUME NEW p \in PaneId, tabs'[p] # {}
               PROVE  \E d \in LiveClusters' : p \in panes'[d]
    BY DEF Covered
  <2>1. p \notin panes[c] /\ tabs[p] # {}
    BY <1>1
  <2>2. PICK d \in LiveClusters : p \in panes[d]
    BY <2>1 DEF TabsInv, Covered
  <2> QED BY <1>1, <1>2, <2>1, <2>2 DEF TypeOK, TreesType
<1>5. \A u : u \in Held(tabs') <=> u \in Held(tabs) /\ u \notin held
  <2>1. \A u : u \in held <=> \E p \in panes[c] : u \in tabs[p]
    BY DEF TabsOf
  <2>2. panes[c] \subseteq PaneId
    BY DEF TypeOK, TreesType
  <2>3. ASSUME NEW u, u \in Held(tabs') PROVE u \in Held(tabs) /\ u \notin held
    <3>1. PICK p \in PaneId : u \in tabs[p] /\ p \notin panes[c]
      BY <1>1, <2>3 DEF Held
    <3>2. \A q \in panes[c] : u \notin tabs[q]
      BY <2>2, <3>1 DEF TabsInv, Spread
    <3> QED BY <2>1, <3>1, <3>2 DEF Held
  <2>4. ASSUME NEW u, u \in Held(tabs), u \notin held PROVE u \in Held(tabs')
    BY <1>1, <2>1, <2>4 DEF Held
  <2> QED BY <2>3, <2>4
<1>6. Placed \subseteq Held(tabs) /\ Held(tabs) \subseteq Placed
  <2>1. DrawnOnce /\ PrunedIsEmpty
    BY SpreadAndCovered DEF TabsInv
  <2> QED BY <2>1, DrawnIsHeld
<1>7. instances \cap terminals = {}
  <2>1. \A t \in Terminal : t[1] \notin Apps
    BY ConstantsAssumption DEF Terminal, Of
  <2> QED BY <2>1 DEF TabsInv, InstancesAreApps, TypeOK, TerminalsType
<1> HIDE DEF held, band, gone
<1>8. InstancesAreApps'
  BY <1>1 DEF TabsInv, InstancesAreApps
<1>9. Live' \subseteq Live
  BY <1>1 DEF Live
<1>10. ASSUME Calm PROVE Held(tabs') \subseteq Live'
  <2> SUFFICES ASSUME NEW u \in Held(tabs') PROVE u \in Live'
    OBVIOUS
  <2>1. u \in Held(tabs) /\ u \notin held /\ u \in Live
    BY <1>5, <1>10 DEF TabsInv
  <2>2. u \in terminals => u \notin gone
    BY <1>1, <1>6, <1>10, <2>1 DEF gone, Calm
  <2> QED BY <1>1, <2>1, <2>2 DEF Live
<1>11. ASSUME ~OwnEdgeDrops PROVE instances' \subseteq Held(tabs')
  BY <1>1, <1>5, <1>7, <1>11 DEF TabsInv
<1> DEFINE S == {}
<1>12. S \in SUBSET Surface /\ S \cap Spawned' = {} /\ \A s \in S : s[2] <= counters'.ord[s[1]]
  OBVIOUS
<1>13. \A k \in Kind : counters.ord[k] <= counters'.ord[k]
  BY <1>1 DEF TypeOK, CountersType
<1>14. Held(tabs') \subseteq Held(tabs)
  BY <1>5
<1> HIDE DEF S
<1> QED BY <1>1, <1>3, <1>4, <1>8, <1>9, <1>10, <1>11, <1>12, <1>13, <1>14, TabsStep

(* A surface that arrives in a pane, T being the tabs it was lifted from:  *)
(* it is one that may be there, and nothing else changed.                  *)
LEMMA ArrivalKeepsTabs ==
  ASSUME TypeOK, TypeOK', TabsInv, NEW s \in Surface, NEW T, NEW opened \in SUBSET {s},
         LiveClusters' = LiveClusters,
         Held(T) \subseteq Held(tabs), Held(tabs) \subseteq Held(T) \cup {s},
         Arrives(T, LiveClusters, instances, opened, s),
         \A u \in opened : u[1] \in Apps,
         terminals \subseteq terminals', terminals' \subseteq terminals \cup {s},
         spawning' \subseteq spawning, s \notin Spawned', s[2] <= counters'.ord[s[1]],
         \A k \in Kind : counters.ord[k] <= counters'.ord[k],
         Calm => s \in Live \cup opened \cup terminals'
  PROVE  TabsInv'
<1>1. PICK gone : /\ gone # s /\ (gone = NoSurface \/ gone \in instances)
                  /\ Held(tabs') = (Held(T) \ {gone}) \cup {s}
                  /\ instances' = (instances \ {gone}) \cup opened
  BY DEF Arrives
<1>2. Spread(tabs') /\ Covered(tabs', panes', LiveClusters')
  BY DEF Arrives
<1>3. InstancesAreApps'
  BY <1>1 DEF TabsInv, InstancesAreApps
<1> DEFINE S == {s}
<1>4. S \in SUBSET Surface /\ S \cap Spawned' = {} /\ \A u \in S : u[2] <= counters'.ord[u[1]]
  OBVIOUS
<1>5. Live' \subseteq Live \cup S /\ Held(tabs') \subseteq Held(tabs) \cup S
  BY <1>1 DEF Live
<1>6. ASSUME Calm PROVE Held(tabs') \subseteq Live'
  <2>1. s \in Live'
    BY <1>1, <1>6 DEF Live
  <2>2. Held(tabs) \subseteq Live
    BY <1>6 DEF TabsInv
  <2> QED BY <1>1, <2>1, <2>2 DEF Live
<1>7. ASSUME ~OwnEdgeDrops PROVE instances' \subseteq Held(tabs')
  BY <1>1, <1>7 DEF TabsInv
<1> HIDE DEF S
<1> QED BY <1>2, <1>3, <1>4, <1>5, <1>6, <1>7, TabsStep

(* OpenInstance keeps the invariant of the tabs. *)
LEMMA OpenInstanceTabs ==
  ASSUME TypeOK, TypeOK', LayoutInv, TabsInv, NEW app \in Apps, NEW w \in Label,
         NEW asked \in PaneId \cup {None}, NEW split \in BOOLEAN,
         OpenInstance(app, w, asked, split)
  PROVE  TabsInv'
<1> DEFINE s == <<app, counters.ord[app] + 1>>
           new == IF split THEN counters.panes + 1 ELSE None
           owner == {c \in clusters[w] : asked \in panes[c]}
           into == IF owner # {} THEN owner ELSE {activeCluster[w]} \cap ClusterId
           evict == app \notin Takeover
           opened == {s}
<1>1. s \in Surface /\ new \in PaneId \cup {None} /\ app \in Kind
  BY NextIds, KindsAndSurfaces DEF OpenInstance, TypeOK
<1>2. into \subseteq LiveClusters
  <2>1. CASE w \in windows
    BY <2>1 DEF LiveClusters, LayoutInv, ShowsItsOwn, ClusterId
  <2>2. CASE w \notin windows
    BY <2>2 DEF LayoutInv, ClosedIsEmpty, ClusterId
  <2> QED BY <2>1, <2>2
<1>3. /\ UNCHANGED <<windows, clusters, terminals, spawning>>
      /\ counters'.ord = [counters.ord EXCEPT ![app] = s[2]]
      /\ \/ UNCHANGED <<panes, tabs, instances>>
         \/ \E c \in into : PlaceSurface(tabs, panes, instances, opened, c, s, asked, new, evict)
  BY DEF OpenInstance, TypeOK, CountersType
<1>4. s \notin Known
  BY <1>1, MintedIsNew
<1>5. new # None => new \notin LivePanes
  BY InUseIsCounted
<1>6. /\ LiveClusters' = LiveClusters /\ LiveClusters \in SUBSET ClusterId /\ Spawned' = Spawned
      /\ tabs \in Tabs /\ panes \in Trees /\ instances \in SUBSET Surface
  BY <1>3 DEF LiveClusters, Spawned, TypeOK, WindowsType, TreesType, Tabs, Trees
<1>7. \A k \in Kind : counters.ord[k] <= counters'.ord[k]
  BY <1>1, <1>3 DEF TypeOK, CountersType
<1>8. s[2] <= counters'.ord[s[1]] /\ s[1] \in Apps
  BY <1>1, <1>3 DEF TypeOK, CountersType
<1>9. evict \in BOOLEAN /\ opened \in SUBSET Surface /\ opened \in SUBSET {s} /\ s \in opened
      /\ \A u \in opened : u[1] \in Apps
  BY <1>1
<1> HIDE DEF s, new, owner, into, evict, opened
<1>10. CASE UNCHANGED <<panes, tabs, instances>>
  <2>1. Live' = Live /\ Held(tabs') = Held(tabs)
    BY <1>3, <1>10 DEF Live, Held
  <2> DEFINE S == {}
  <2>2. S \in SUBSET Surface /\ S \cap Spawned' = {} /\ \A u \in S : u[2] <= counters'.ord[u[1]]
    OBVIOUS
  <2>3. /\ Spread(tabs') /\ Covered(tabs', panes', LiveClusters') /\ InstancesAreApps'
        /\ Calm => Held(tabs') \subseteq Live'
        /\ ~OwnEdgeDrops => instances' \subseteq Held(tabs')
    BY <1>6, <1>10, <2>1 DEF TabsInv, InstancesAreApps
  <2> HIDE DEF S
  <2> QED BY <1>3, <1>7, <2>1, <2>2, <2>3, TabsStep
<1>11. CASE \E c \in into : PlaceSurface(tabs, panes, instances, opened, c, s, asked, new, evict)
  <2>1. PICK c \in LiveClusters : PlaceSurface(tabs, panes, instances, opened, c, s, asked, new, evict)
    BY <1>2, <1>11
  <2>2. OnlyIn(tabs, panes[c], s)
    BY <1>4 DEF OnlyIn, Known, Held
  <2>3. new # None => tabs[new] = {}
    BY <1>1, <1>5 DEF TabsInv, Covered, LivePanes
  <2>4. Spread(tabs) /\ Covered(tabs, panes, LiveClusters)
    BY DEF TabsInv
  <2>5. Arrives(tabs, LiveClusters, instances, opened, s)
    BY <1>1, <1>6, <1>9, <2>1, <2>2, <2>3, <2>4, PlaceSurfaceArrives
  <2>6. s \notin Spawned' /\ spawning' \subseteq spawning /\ terminals' = terminals
    BY <1>3, <1>4, <1>6 DEF Known
  <2> QED BY <1>1, <1>6, <1>7, <1>8, <1>9, <2>5, <2>6, ArrivalKeepsTabs
<1> QED BY <1>3, <1>10, <1>11

(* What lifting s out of every tree leaves. *)
LEMMA LiftedFromAll ==
  ASSUME TypeOK, TabsInv, NEW s, NEW lifted, NEW left,
         lifted = TakenOut(tabs, panes, LiveClusters, s),
         left = PrunedWhere(lifted, panes, LiveClusters, s)
  PROVE  /\ lifted \in Tabs /\ left \in Trees
         /\ Spread(lifted) /\ Covered(lifted, left, LiveClusters)
         /\ \A c \in ClusterId : left[c] \subseteq panes[c]
         /\ Held(lifted) = Held(tabs) \ {s}
<1> DEFINE C == LiveClusters
<1>1. C \in SUBSET LiveClusters /\ Spread(tabs) /\ Covered(tabs, panes, LiveClusters)
  BY DEF TabsInv
<1>2. lifted = TakenOut(tabs, panes, C, s) /\ left = PrunedWhere(lifted, panes, C, s)
  OBVIOUS
<1>3. C = LiveClusters
  OBVIOUS
<1> HIDE DEF C
<1>4. Lifted(C, s, lifted, left)
  BY <1>1, <1>2, LiftingTabs
<1> QED BY <1>3, <1>4 DEF Lifted

(* A surface that only leaves every tree, with what it stands for or       *)
(* without.                                                                *)
LEMMA LeavingKeepsTabs ==
  ASSUME TypeOK, TypeOK', TabsInv, NEW s, LiveClusters' = LiveClusters,
         tabs' = TakenOut(tabs, panes, LiveClusters, s),
         panes' = PrunedWhere(TakenOut(tabs, panes, LiveClusters, s), panes, LiveClusters, s),
         instances' \subseteq instances, terminals' \subseteq terminals, spawning' = spawning,
         Live \ {s} \subseteq Live',
         counters'.ord = counters.ord,
         OwnEdgeDrops \/ s \notin instances'
  PROVE  TabsInv'
<1>1. /\ Spread(tabs') /\ Covered(tabs', panes', LiveClusters')
      /\ Held(tabs') = Held(tabs) \ {s}
  BY LiftedFromAll
<1>2. InstancesAreApps' /\ Live' \subseteq Live
  BY DEF TabsInv, InstancesAreApps, Live
<1>3. \A k \in Kind : counters.ord[k] <= counters'.ord[k]
  BY DEF TypeOK, CountersType
<1> DEFINE S == {}
<1>4. S \in SUBSET Surface /\ S \cap Spawned' = {} /\ \A u \in S : u[2] <= counters'.ord[u[1]]
  OBVIOUS
<1>5. /\ Calm => Held(tabs') \subseteq Live'
      /\ ~OwnEdgeDrops => instances' \subseteq Held(tabs')
  BY <1>1 DEF TabsInv
<1> HIDE DEF S
<1> QED BY <1>1, <1>2, <1>3, <1>4, <1>5, TabsStep

(* CloseInstance keeps the invariant of the tabs. *)
LEMMA CloseInstanceTabs ==
  ASSUME TypeOK, TypeOK', TabsInv, NEW s \in Surface, CloseInstance(s)
  PROVE  TabsInv'
<1>1. /\ UNCHANGED <<windows, clusters, terminals, spawning, counters>>
      /\ tabs' = TakenOut(tabs, panes, LiveClusters, s)
      /\ panes' = PrunedWhere(TakenOut(tabs, panes, LiveClusters, s), panes, LiveClusters, s)
      /\ instances' = instances \ {s}
  BY DEF CloseInstance, Forgotten
<1>2. LiveClusters' = LiveClusters /\ Live \ {s} \subseteq Live'
  BY <1>1 DEF LiveClusters, Live
<1> QED BY <1>1, <1>2, LeavingKeepsTabs

(* CloseTerminal keeps the invariant of the tabs. *)
LEMMA CloseTerminalTabs ==
  ASSUME TypeOK, TypeOK', TabsInv, NEW t \in Terminal, CloseTerminal(t)
  PROVE  TabsInv'
<1>1. /\ UNCHANGED <<windows, clusters, instances, spawning, counters>>
      /\ tabs' = TakenOut(tabs, panes, LiveClusters, t)
      /\ panes' = PrunedWhere(TakenOut(tabs, panes, LiveClusters, t), panes, LiveClusters, t)
      /\ terminals' = terminals \ {t}
  BY DEF CloseTerminal, Swept
<1>2. LiveClusters' = LiveClusters /\ Live \ {t} \subseteq Live'
  BY <1>1 DEF LiveClusters, Live
<1>3. t \notin instances
  <2>1. t[1] \notin Apps
    BY ConstantsAssumption DEF Terminal, Of
  <2> QED BY <2>1 DEF TabsInv, InstancesAreApps
<1> QED BY <1>1, <1>2, <1>3, LeavingKeepsTabs

(* MoveTerminal keeps the invariant of the tabs. *)
LEMMA MoveTerminalTabs ==
  ASSUME TypeOK, TypeOK', TabsInv, NEW t \in Terminal, NEW w \in Label, MoveTerminal(t, w)
  PROVE  TabsInv'
<1>1. /\ UNCHANGED <<windows, clusters, instances, terminals, spawning, counters>>
      /\ tabs' = TakenOut(tabs, panes, LiveClusters, t)
      /\ panes' = PrunedWhere(TakenOut(tabs, panes, LiveClusters, t), panes, LiveClusters, t)
  BY DEF MoveTerminal
<1>2. LiveClusters' = LiveClusters /\ Live \ {t} \subseteq Live'
  BY <1>1 DEF LiveClusters, Live
<1>3. t \notin instances
  <2>1. t[1] \notin Apps
    BY ConstantsAssumption DEF Terminal, Of
  <2> QED BY <2>1 DEF TabsInv, InstancesAreApps
<1> QED BY <1>1, <1>2, <1>3, LeavingKeepsTabs

(* What a drag can be holding has been minted and recorded, and is live if *)
(* nothing closes in between.                                              *)
LEMMA DraggedIsKnown ==
  ASSUME TypeOK, TabsInv, NEW s \in Surface, s \in Dragged
  PROVE  s \notin Spawned /\ s[2] <= counters.ord[s[1]] /\ (Calm => s \in Live)
<1>1. CASE StaleDrops
  BY <1>1 DEF Dragged, Minted, Spawned, Calm
<1>2. CASE ~StaleDrops
  BY <1>2 DEF Dragged, TabsInv, SpawnsAreNew, KnownCounted, Known
<1> QED BY <1>1, <1>2

(* MoveInstance keeps the invariant of the tabs. *)
LEMMA MoveInstanceTabs ==
  ASSUME TypeOK, TypeOK', TabsInv, NEW s \in Surface, NEW w \in Label, NEW c \in ClusterId,
         NEW p \in PaneId, MoveInstance(s, w, c, p)
  PROVE  TabsInv'
<1> DEFINE C == Elsewhere(w, c)
           lifted == TakenOut(tabs, panes, C, s)
           left == PrunedWhere(lifted, panes, C, s)
           evict == ~(s \in instances /\ s[1] \in Takeover)
           opened == {}
<1>1. /\ s \in Dragged /\ w \in windows /\ c \in clusters[w]
      /\ UNCHANGED <<windows, clusters, terminals, counters, spawning>>
      /\ PlaceSurface(lifted, left, instances, opened, c, s, p, None, evict)
  BY DEF MoveInstance
<1>2. C \in SUBSET LiveClusters /\ \A d \in LiveClusters : d # c => d \in C
  BY DEF Elsewhere
<1>3. lifted = TakenOut(tabs, panes, C, s) /\ left = PrunedWhere(lifted, panes, C, s)
  OBVIOUS
<1>4. evict \in BOOLEAN /\ opened \in SUBSET {s} /\ opened \in SUBSET Surface
      /\ \A u \in opened : u[1] \in Apps
  OBVIOUS
<1> HIDE DEF C, lifted, left, evict, opened
<1>5. /\ LiveClusters' = LiveClusters /\ c \in LiveClusters /\ LiveClusters \in SUBSET ClusterId
      /\ Spawned' = Spawned /\ instances \in SUBSET Surface
  BY <1>1 DEF LiveClusters, Spawned, TypeOK, WindowsType, TreesType
<1>6. Lifted(C, s, lifted, left)
  BY <1>2, <1>3, LiftingTabs DEF TabsInv
<1>7. /\ lifted \in Tabs /\ left \in Trees
      /\ Spread(lifted) /\ Covered(lifted, left, LiveClusters)
      /\ Held(lifted) \subseteq Held(tabs) /\ Held(tabs) \subseteq Held(lifted) \cup {s}
  BY <1>6 DEF Lifted
<1>8. OnlyIn(lifted, left[c], s)
  <2> SUFFICES ASSUME NEW q \in PaneId \ left[c], s \in lifted[q]
               PROVE  FALSE
    BY DEF OnlyIn
  <2>1. PICK d \in LiveClusters : q \in left[d]
    BY <1>7 DEF Covered
  <2>2. d \in C /\ d \in ClusterId
    BY <1>2, <1>5, <2>1
  <2>3. q \in panes[d]
    BY <1>6, <2>1, <2>2 DEF Lifted
  <2> QED BY <1>6, <2>2, <2>3 DEF Lifted
<1>9. Arrives(lifted, LiveClusters, instances, opened, s)
  <2> DEFINE new == None
  <2>1. new \in PaneId \cup {None} /\ ~(new # None)
    OBVIOUS
  <2>2. PlaceSurface(lifted, left, instances, opened, c, s, p, new, evict)
    BY <1>1
  <2> HIDE DEF new
  <2> QED BY <1>4, <1>5, <1>7, <1>8, <2>1, <2>2, PlaceSurfaceArrives
<1>10. s \notin Spawned' /\ s[2] <= counters'.ord[s[1]] /\ (Calm => s \in Live)
  BY <1>1, <1>5, DraggedIsKnown
<1>11. \A k \in Kind : counters.ord[k] <= counters'.ord[k]
  BY <1>1 DEF TypeOK, CountersType
<1> QED BY <1>1, <1>4, <1>5, <1>7, <1>9, <1>10, <1>11, ArrivalKeepsTabs

(* SplitWithInstance keeps the invariant of the tabs. *)
LEMMA SplitWithInstanceTabs ==
  ASSUME TypeOK, TypeOK', LayoutInv, TabsInv, NEW s \in Surface, NEW w \in Label,
         NEW c \in ClusterId, NEW p \in PaneId, SplitWithInstance(s, w, c, p)
  PROVE  TabsInv'
<1> DEFINE new == counters.panes + 1
           lifted == TakenOut(tabs, panes, LiveClusters, s)
           left == PrunedWhere(lifted, panes, LiveClusters, s)
<1>1. /\ s \in Dragged /\ w \in windows /\ c \in clusters[w]
      /\ UNCHANGED <<windows, clusters, instances, terminals, spawning>>
      /\ counters'.ord = counters.ord
      /\ OwnEdgeDrops \/ p \in left[c]
      /\ \/ /\ tabs' = [lifted EXCEPT ![new] = {s}]
            /\ panes' = [left EXCEPT ![c] = @ \cup {new}]
         \/ /\ p \notin left[c] /\ tabs' = lifted /\ panes' = left
  BY DEF SplitWithInstance, TypeOK, CountersType
<1>2. new \in PaneId /\ new \notin LivePanes
  BY NextIds, InUseIsCounted DEF SplitWithInstance, TypeOK
<1>3. /\ lifted \in Tabs /\ left \in Trees
      /\ Spread(lifted) /\ Covered(lifted, left, LiveClusters)
      /\ \A d \in ClusterId : left[d] \subseteq panes[d]
      /\ Held(lifted) = Held(tabs) \ {s}
  BY LiftedFromAll
<1> HIDE DEF new, lifted, left
<1>4. /\ LiveClusters' = LiveClusters /\ c \in LiveClusters /\ LiveClusters \subseteq ClusterId
      /\ Live' = Live /\ Spawned' = Spawned
  BY <1>1 DEF LiveClusters, Live, Spawned, TypeOK, WindowsType
<1>5. s \notin Spawned' /\ s[2] <= counters'.ord[s[1]] /\ (Calm => s \in Live)
  BY <1>1, <1>4, DraggedIsKnown
<1>6. Spread(tabs') /\ Covered(tabs', panes', LiveClusters')
  <2>1. CASE tabs' = lifted /\ panes' = left
    BY <1>3, <1>4, <2>1
  <2>2. CASE tabs' = [lifted EXCEPT ![new] = {s}] /\ panes' = [left EXCEPT ![c] = @ \cup {new}]
    <3>1. \A q \in PaneId : tabs'[q] = IF q = new THEN {s} ELSE lifted[q]
      BY <1>3, <2>2 DEF Tabs
    <3>2. \A q \in PaneId : s \notin lifted[q]
      BY <1>3 DEF Held
    <3>3. Spread(tabs')
      BY <1>3, <3>1, <3>2 DEF Spread
    <3>4. new \in panes'[c] /\ \A d \in LiveClusters : left[d] \subseteq panes'[d]
      BY <1>3, <1>4, <2>2 DEF Trees
    <3>5. Covered(tabs', panes', LiveClusters')
      BY <1>3, <1>4, <3>1, <3>4 DEF Covered
    <3> QED BY <3>3, <3>5
  <2> QED BY <1>1, <2>1, <2>2
<1>7. /\ Held(tabs') \subseteq Held(tabs) \cup {s}
      /\ Held(lifted) \subseteq Held(tabs')
      /\ p \in left[c] => s \in Held(tabs')
  <2>1. CASE p \notin left[c] /\ tabs' = lifted
    BY <1>3, <2>1
  <2>2. CASE tabs' = [lifted EXCEPT ![new] = {s}]
    <3>1. \A q \in PaneId : tabs'[q] = IF q = new THEN {s} ELSE lifted[q]
      BY <1>3, <2>2 DEF Tabs
    <3>2. lifted[new] = {}
      <4>1. \A d \in LiveClusters : new \notin left[d]
        BY <1>2, <1>3, <1>4 DEF LivePanes
      <4> QED BY <1>2, <1>3, <4>1 DEF Covered
    <3>3. Held(lifted) \subseteq Held(tabs')
      BY <3>1, <3>2 DEF Held
    <3>4. Held(tabs') \subseteq Held(lifted) \cup {s} /\ s \in Held(tabs')
      BY <1>2, <3>1 DEF Held
    <3> QED BY <1>3, <3>3, <3>4
  <2> QED BY <1>1, <2>1, <2>2
<1> DEFINE S == {s}
<1>8. S \in SUBSET Surface /\ S \cap Spawned' = {} /\ \A u \in S : u[2] <= counters'.ord[u[1]]
  BY <1>5
<1>9. Held(tabs') \subseteq Held(tabs) \cup S
  BY <1>7
<1>10. InstancesAreApps' /\ \A k \in Kind : counters.ord[k] <= counters'.ord[k]
  BY <1>1 DEF TabsInv, InstancesAreApps, TypeOK, CountersType
<1>11. /\ Calm => Held(tabs') \subseteq Live'
       /\ ~OwnEdgeDrops => instances' \subseteq Held(tabs')
  BY <1>1, <1>3, <1>4, <1>5, <1>7 DEF TabsInv
<1> HIDE DEF S
<1> QED BY <1>1, <1>4, <1>6, <1>8, <1>9, <1>10, <1>11, TabsStep

(* DetachInstance keeps the invariant of the tabs. *)
LEMMA DetachInstanceTabs ==
  ASSUME TypeOK, TypeOK', LayoutInv, TabsInv, NEW s \in Surface, DetachInstance(s)
  PROVE  TabsInv'
<1> DEFINE w == counters.windows + 1
           c == counters.clusters + 1
           p == counters.panes + 1
           lifted == TakenOut(tabs, panes, LiveClusters, s)
           left == PrunedWhere(lifted, panes, LiveClusters, s)
<1>1. /\ s \in Dragged /\ UNCHANGED <<instances, terminals, spawning>>
      /\ counters'.ord = counters.ord
      /\ \/ UNCHANGED <<windows, clusters, panes, tabs>>
         \/ /\ windows' = windows \cup {w} /\ clusters' = [clusters EXCEPT ![w] = {c}]
            /\ panes' = [left EXCEPT ![c] = {p}] /\ tabs' = [lifted EXCEPT ![p] = {s}]
  BY DEF DetachInstance, TypeOK, CountersType
<1>2. w \in Label /\ c \in ClusterId /\ p \in PaneId
  BY NextIds DEF DetachInstance, TypeOK
<1>3. c \notin LiveClusters /\ p \notin LivePanes /\ LiveClusters \in SUBSET ClusterId
  BY InUseIsCounted
<1>4. /\ lifted \in Tabs /\ left \in Trees
      /\ Spread(lifted) /\ Covered(lifted, left, LiveClusters)
      /\ \A d \in ClusterId : left[d] \subseteq panes[d]
      /\ Held(lifted) = Held(tabs) \ {s}
  BY LiftedFromAll
<1>5. w = counters.windows + 1
  OBVIOUS
<1> HIDE DEF w, c, p, lifted, left
<1>6. CASE UNCHANGED <<windows, clusters, panes, tabs>>
  <2>1. LiveClusters' = LiveClusters
    BY <1>6 DEF LiveClusters
  <2> QED BY <1>1, <1>6, <2>1, LayoutStepKeepsTabs
<1>7. CASE /\ windows' = windows \cup {w} /\ clusters' = [clusters EXCEPT ![w] = {c}]
           /\ panes' = [left EXCEPT ![c] = {p}] /\ tabs' = [lifted EXCEPT ![p] = {s}]
  <2>1. LiveClusters' = LiveClusters \cup {c}
    BY <1>2, <1>5, <1>7, NewWindowsClusters
  <2>2. \A d \in LiveClusters : p \notin left[d]
    BY <1>3, <1>4 DEF LivePanes
  <2>3. s \notin Held(lifted)
    BY <1>4
  <2>4. /\ Spread(tabs') /\ Covered(tabs', panes', LiveClusters')
        /\ Held(tabs') = Held(lifted) \cup {s}
    BY <1>2, <1>3, <1>4, <1>7, <2>1, <2>2, <2>3, FreshPaneHolds
  <2>5. Live' = Live /\ Spawned' = Spawned
    BY <1>1 DEF Live, Spawned
  <2>6. s \notin Spawned' /\ s[2] <= counters'.ord[s[1]] /\ (Calm => s \in Live)
    BY <1>1, <2>5, DraggedIsKnown
  <2> DEFINE S == {s}
  <2>7. S \in SUBSET Surface /\ S \cap Spawned' = {} /\ \A u \in S : u[2] <= counters'.ord[u[1]]
    BY <2>6
  <2>8. Held(tabs') \subseteq Held(tabs) \cup S
    BY <1>4, <2>4
  <2>9. InstancesAreApps' /\ \A k \in Kind : counters.ord[k] <= counters'.ord[k]
    BY <1>1 DEF TabsInv, InstancesAreApps, TypeOK, CountersType
  <2>10. /\ Calm => Held(tabs') \subseteq Live'
         /\ ~OwnEdgeDrops => instances' \subseteq Held(tabs')
    BY <1>1, <1>4, <2>4, <2>5, <2>6 DEF TabsInv
  <2> HIDE DEF S
  <2> QED BY <1>1, <2>4, <2>5, <2>7, <2>8, <2>9, <2>10, TabsStep
<1> QED BY <1>1, <1>6, <1>7

(* Recording a new terminal in a band draws nothing. *)
LEMMA AddTerminalTabs ==
  ASSUME TypeOK, TypeOK', LayoutInv, TabsInv, NEW c \in ClusterId, NEW sibling \in Terminal,
         AddTerminal(c, sibling)
  PROVE  TabsInv'
<1> DEFINE t == NextTerminal
           S == {t}
<1>1. /\ UNCHANGED <<windows, clusters, panes, tabs, instances, spawning>>
      /\ terminals' = terminals \cup {t}
      /\ counters'.ord = [counters.ord EXCEPT ![TermKind] = @ + 1]
  BY DEF AddTerminal, TypeOK, CountersType
<1>2. t \in Surface /\ TermKind \in Kind /\ t = <<TermKind, counters.ord[TermKind] + 1>>
  BY NextTerminalType, KindsAndSurfaces DEF AddTerminal, TypeOK, NextTerminal
<1>3. t \notin Known
  BY <1>2, MintedIsNew
<1> HIDE DEF t
<1>4. LiveClusters' = LiveClusters /\ Held(tabs') = Held(tabs) /\ Spawned' = Spawned
  BY <1>1 DEF LiveClusters, Held, Spawned
<1>5. Live' \subseteq Live \cup S /\ Live \subseteq Live'
  BY <1>1 DEF Live
<1>6. t[2] <= counters'.ord[t[1]] /\ \A k \in Kind : counters.ord[k] <= counters'.ord[k]
  BY <1>1, <1>2 DEF TypeOK, CountersType
<1>7. S \in SUBSET Surface /\ S \cap Spawned' = {} /\ \A s \in S : s[2] <= counters'.ord[s[1]]
  BY <1>2, <1>3, <1>4, <1>6 DEF Known
<1>8. /\ Spread(tabs') /\ Covered(tabs', panes', LiveClusters') /\ InstancesAreApps'
      /\ Calm => Held(tabs') \subseteq Live'
      /\ ~OwnEdgeDrops => instances' \subseteq Held(tabs')
  BY <1>1, <1>4, <1>5 DEF TabsInv, InstancesAreApps
<1>9. Held(tabs') \subseteq Held(tabs) \cup S
  BY <1>4
<1> HIDE DEF S
<1> QED BY <1>1, <1>5, <1>6, <1>7, <1>8, <1>9, TabsStep

(* CreateTerminal keeps the invariant of the tabs. *)
LEMMA CreateTerminalTabs ==
  ASSUME TypeOK, TypeOK', LayoutInv, TabsInv, NEW w \in Label, CreateTerminal(w)
  PROVE  TabsInv'
<1>1. activeCluster[w] \in ClusterId /\ NextTerminal \in Terminal
  BY NextTerminalType DEF CreateTerminal, AddTerminal, TypeOK, WindowsType
<1> QED BY <1>1, AddTerminalTabs DEF CreateTerminal

(* SplitTerminal keeps the invariant of the tabs. *)
LEMMA SplitTerminalTabs ==
  ASSUME TypeOK, TypeOK', LayoutInv, TabsInv, NEW t \in Terminal, SplitTerminal(t)
  PROVE  TabsInv'
<1>1. clusterOf[t] \in ClusterId
  BY DEF SplitTerminal, AddTerminal, LiveClusters, TypeOK, TerminalsType, WindowsType
<1> QED BY <1>1, AddTerminalTabs DEF SplitTerminal

(* A terminal that nobody has yet, recorded in a pane. *)
LEMMA AddTerminalInPaneTabs ==
  ASSUME TypeOK, TypeOK', LayoutInv, TabsInv, NEW t \in Terminal, NEW c \in ClusterId,
         NEW asked \in PaneId, NEW new \in PaneId \cup {None}, new # None => new \notin LivePanes,
         AddTerminalInPane(t, c, asked, new),
         t \notin Live \cup Held(tabs), spawning' \subseteq spawning, t \notin Spawned',
         t[2] <= counters'.ord[t[1]], \A k \in Kind : counters.ord[k] <= counters'.ord[k]
  PROVE  TabsInv'
<1> DEFINE opened == {}
           S == {t}
           evict == TRUE
<1>1. /\ UNCHANGED <<windows, clusters>> /\ terminals' = terminals \cup {t}
      /\ \/ c \in LiveClusters /\ PlaceSurface(tabs, panes, instances, opened, c, t, asked, new, evict)
         \/ UNCHANGED <<panes, tabs, instances>>
  BY DEF AddTerminalInPane
<1>2. opened \in SUBSET {t} /\ opened \in SUBSET Surface /\ evict \in BOOLEAN
      /\ \A u \in opened : u[1] \in Apps
  OBVIOUS
<1>3. t \in Surface /\ tabs \in Tabs /\ panes \in Trees /\ instances \in SUBSET Surface
  BY KindsAndSurfaces DEF TypeOK, TreesType, Tabs, Trees
<1>4. LiveClusters' = LiveClusters /\ LiveClusters \in SUBSET ClusterId
  BY <1>1 DEF LiveClusters, TypeOK, WindowsType
<1>5. S \in SUBSET Surface /\ S \cap Spawned' = {} /\ \A s \in S : s[2] <= counters'.ord[s[1]]
  BY <1>3
<1>6. terminals' \subseteq terminals \cup S /\ terminals' \subseteq terminals \cup {t} /\ t \in terminals'
  BY <1>1
<1> HIDE DEF opened, S, evict
<1>7. CASE UNCHANGED <<panes, tabs, instances>>
  <2>1. Live' \subseteq Live \cup S /\ Live \subseteq Live' /\ Held(tabs') = Held(tabs)
    BY <1>1, <1>6, <1>7 DEF Live, Held
  <2>2. /\ Spread(tabs') /\ Covered(tabs', panes', LiveClusters') /\ InstancesAreApps'
        /\ Calm => Held(tabs') \subseteq Live'
        /\ ~OwnEdgeDrops => instances' \subseteq Held(tabs')
    BY <1>4, <1>7, <2>1 DEF TabsInv, InstancesAreApps
  <2> QED BY <1>5, <2>1, <2>2, TabsStep
<1>8. CASE c \in LiveClusters /\ PlaceSurface(tabs, panes, instances, opened, c, t, asked, new, evict)
  <2>1. OnlyIn(tabs, panes[c], t)
    BY DEF OnlyIn, Held
  <2>2. new # None => tabs[new] = {}
    BY DEF TabsInv, Covered, LivePanes
  <2>3. Spread(tabs) /\ Covered(tabs, panes, LiveClusters)
    BY DEF TabsInv
  <2>4. Arrives(tabs, LiveClusters, instances, opened, t)
    BY <1>2, <1>3, <1>4, <1>8, <2>1, <2>2, <2>3, PlaceSurfaceArrives
  <2>5. terminals \subseteq terminals'
    BY <1>1
  <2> QED BY <1>2, <1>3, <1>4, <1>6, <2>4, <2>5, ArrivalKeepsTabs
<1> QED BY <1>1, <1>7, <1>8

(* OpenTerminalInPane keeps the invariant of the tabs. *)
LEMMA OpenTerminalInPaneTabs ==
  ASSUME TypeOK, TypeOK', LayoutInv, TabsInv, NEW w \in Label, NEW asked \in PaneId,
         NEW split \in BOOLEAN, OpenTerminalInPane(w, asked, split)
  PROVE  TabsInv'
<1> DEFINE new == IF split THEN counters.panes + 1 ELSE None
           t == NextTerminal
<1>1. t \in Terminal /\ activeCluster[w] \in ClusterId /\ new \in PaneId \cup {None}
  BY NextTerminalType, NextIds DEF OpenTerminalInPane, TypeOK, WindowsType
<1>2. /\ counters'.ord = [counters.ord EXCEPT ![TermKind] = @ + 1] /\ spawning' = spawning
      /\ AddTerminalInPane(t, activeCluster[w], asked, new)
  BY DEF OpenTerminalInPane, TypeOK, CountersType
<1>3. new # None => new \notin LivePanes
  BY InUseIsCounted
<1>4. t = <<TermKind, counters.ord[TermKind] + 1>> /\ TermKind \in Kind
  BY KindsAndSurfaces DEF NextTerminal
<1>5. t \notin Known
  BY <1>4, MintedIsNew
<1> HIDE DEF new, t
<1>6. t[2] <= counters'.ord[t[1]] /\ \A k \in Kind : counters.ord[k] <= counters'.ord[k]
  BY <1>2, <1>4 DEF TypeOK, CountersType
<1>7. Spawned' = Spawned /\ spawning' \subseteq spawning
  BY <1>2 DEF Spawned
<1>8. t \notin Live \cup Held(tabs) /\ t \notin Spawned'
  BY <1>5, <1>7 DEF Known
<1> QED BY <1>1, <1>2, <1>3, <1>6, <1>7, <1>8, AddTerminalInPaneTabs

(* WorkerSpawn keeps the invariant of the tabs. *)
LEMMA WorkerSpawnTabs ==
  ASSUME TypeOK, TypeOK', LayoutInv, TabsInv, NEW c \in ClusterId, NEW asked \in PaneId,
         WorkerSpawn(c, asked)
  PROVE  TabsInv'
<1> DEFINE t == NextTerminal
           x == <<t, c, asked>>
<1>1. /\ UNCHANGED <<windows, clusters, panes, tabs, instances, terminals>>
      /\ counters'.ord = [counters.ord EXCEPT ![TermKind] = @ + 1]
      /\ spawning' = spawning \cup {x}
  BY DEF WorkerSpawn, TypeOK, CountersType
<1>2. t = <<TermKind, counters.ord[TermKind] + 1>> /\ TermKind \in Kind /\ x[1] = t
  BY KindsAndSurfaces DEF NextTerminal
<1>3. t \notin Known
  BY <1>2, MintedIsNew
<1> HIDE DEF t, x
<1>4. /\ LiveClusters' = LiveClusters /\ Held(tabs') = Held(tabs) /\ Live' = Live
      /\ Spawned' = Spawned \cup {t}
  BY <1>1, <1>2 DEF LiveClusters, Held, Live, Spawned
<1>5. SpawnsAreNew'
  <2>1. \A y \in spawning : y[1] \in Spawned
    BY DEF Spawned
  <2>2. \A y \in spawning : y[1] # t
    BY <1>3, <2>1 DEF Known
  <2> QED BY <1>1, <1>2, <1>3, <1>4, <2>2 DEF TabsInv, SpawnsAreNew, Known
<1>6. KnownCounted'
  <2> SUFFICES ASSUME NEW s \in Known' PROVE s[2] <= counters'.ord[s[1]]
    BY DEF KnownCounted
  <2>1. CASE s \in Known
    <3>1. s[1] \in Kind /\ s[2] \in Nat
      BY <2>1, KnownAreSurfaces, SurfaceParts
    <3>2. s[2] <= counters.ord[s[1]]
      BY <2>1 DEF TabsInv, KnownCounted
    <3>3. counters.ord[s[1]] \in Nat /\ counters'.ord[s[1]] \in {counters.ord[s[1]], counters.ord[s[1]] + 1}
      BY <1>1, <1>2, <3>1 DEF TypeOK, CountersType
    <3> QED BY <3>1, <3>2, <3>3
  <2>2. CASE s = t
    BY <1>1, <1>2, <2>2 DEF TypeOK, CountersType
  <2> QED BY <1>4, <2>1, <2>2 DEF Known
<1> QED BY <1>1, <1>4, <1>5, <1>6 DEF TabsInv, InstancesAreApps

(* WorkerAdd keeps the invariant of the tabs. *)
LEMMA WorkerAddTabs ==
  ASSUME TypeOK, TypeOK', LayoutInv, TabsInv, NEW x \in spawning, WorkerAdd(x)
  PROVE  TabsInv'
<1> DEFINE t == x[1]
           new == None
<1>1. t \in Terminal /\ x[2] \in ClusterId /\ x[3] \in PaneId /\ t \in Spawned
  BY DEF TypeOK, TerminalsType, Spawned
<1>2. counters' = counters /\ spawning' = spawning \ {x} /\ AddTerminalInPane(t, x[2], x[3], new)
  BY DEF WorkerAdd
<1>3. t \notin Live \cup Held(tabs) /\ t[2] <= counters.ord[t[1]]
  BY <1>1 DEF TabsInv, SpawnsAreNew, KnownCounted, Known
<1>4. t \notin Spawned'
  BY <1>2 DEF Spawned, TabsInv, SpawnsAreNew
<1>5. \A k \in Kind : counters.ord[k] <= counters'.ord[k]
  BY <1>2 DEF TypeOK, CountersType
<1>6. new \in PaneId \cup {None} /\ ~(new # None) /\ spawning' \subseteq spawning
      /\ t[2] <= counters'.ord[t[1]]
  BY <1>2, <1>3
<1> HIDE DEF t, new
<1> QED BY <1>1, <1>2, <1>3, <1>4, <1>5, <1>6, AddTerminalInPaneTabs

(* A surface that is kept is counted from the start. *)
LEMMA KeptAreCounted ==
  ASSUME TypeOK, NEW s \in KeptInstances \cup KeptTerminals
  PROVE  s[2] <= CountersFor.ord[s[1]]
<1> DEFINE k == s[1]
           O == {u[2] : u \in {v \in KeptInstances \cup KeptTerminals : v[1] = k}}
<1>1. KeptInstances \cup KeptTerminals \subseteq Surface
  BY KindsAndSurfaces DEF KeptInstances, KeptTerminals, TypeOK, TreesType, TerminalsType
<1>2. k \in Kind
  BY <1>1, SurfaceParts
<1>3. MaxOrdinal[k] \in Nat
  BY <1>2, ConstantsAssumption DEF Kind
<1>4. \A u \in Surface : u[1] = k => u[2] \in 0..MaxOrdinal[k]
  BY <1>3, ConstantsAssumption DEF Surface, Of, Kind
<1>5. O \in SUBSET (0..MaxOrdinal[k])
  BY <1>1, <1>4
<1>6. s[2] \in O
  OBVIOUS
<1>7. CountersFor.ord[k] = Highest(O)
  BY <1>2 DEF CountersFor
<1> HIDE DEF O, k
<1>8. s[2] <= Highest(O)
  BY <1>3, <1>5, <1>6, HighestIsGreatest
<1> QED BY <1>7, <1>8 DEF k

(* Restart keeps the invariant of the tabs, if every tab resolves: what is *)
(* drawn is then what is kept.                                             *)
LEMMA RestartTabs ==
  ASSUME Restarts => Calm, TypeOK, TypeOK', TabsInv, Restart
  PROVE  TabsInv'
<1>1. /\ UNCHANGED <<windows, clusters, panes, tabs>> /\ instances' = KeptInstances
      /\ terminals' = IF LiveClusters = {} THEN {} ELSE KeptTerminals
      /\ counters' = CountersFor /\ spawning' = {}
  BY DEF Restart
<1>2. Calm /\ Held(tabs) \subseteq Live
  BY DEF Restart, TabsInv
<1>3. Placed = Held(tabs)
  <2>1. DrawnOnce /\ PrunedIsEmpty
    BY SpreadAndCovered DEF TabsInv
  <2> QED BY <2>1, DrawnIsHeld
<1>4. LiveClusters' = LiveClusters /\ Held(tabs') = Held(tabs) /\ Spawned' = {}
  BY <1>1 DEF LiveClusters, Held, Spawned
<1>5. LiveClusters = {} => Held(tabs) = {}
  BY DEF TabsInv, Covered, Held
<1>6. Live' \subseteq KeptInstances \cup KeptTerminals /\ Live' \subseteq Live
  BY <1>1 DEF Live, KeptInstances, KeptTerminals
<1>7. Held(tabs') \subseteq Live'
  BY <1>1, <1>2, <1>3, <1>4, <1>5 DEF Live, KeptInstances, KeptTerminals
<1>8. SpawnsAreNew' /\ InstancesAreApps'
  BY <1>1, <1>4 DEF TabsInv, SpawnsAreNew, InstancesAreApps, KeptInstances
<1>9. KnownCounted'
  <2>1. Known' \subseteq KeptInstances \cup KeptTerminals
    BY <1>4, <1>6, <1>7 DEF Known
  <2> QED BY <1>1, <2>1, KeptAreCounted DEF KnownCounted
<1>10. instances' \subseteq Held(tabs')
  BY <1>1, <1>3, <1>4 DEF KeptInstances
<1>11. Spread(tabs') /\ Covered(tabs', panes', LiveClusters')
  BY <1>1, <1>4 DEF TabsInv
<1> QED BY <1>7, <1>8, <1>9, <1>10, <1>11 DEF TabsInv

(* Every step keeps the invariant of the tabs. *)
LEMMA TabsNext ==
  ASSUME Restarts => Calm, TypeOK, LayoutInv, TabsInv, [Next]_vars
  PROVE  TabsInv'
<1>0. TypeOK'
  BY TypeNext
<1>1. ASSUME NEW w \in Label, AddCluster(w) PROVE TabsInv'
  BY <1>0, <1>1, AddClusterTabs
<1>2. CASE NewWindow
  BY <1>0, <1>2, NewWindowTabs
<1>3. CASE \/ \E w \in Label, c \in ClusterId \cup {None} : SetActiveCluster(w, c)
           \/ \E w \in Label, c \in ClusterId : ActivateInstance(w, c)
           \/ \E c \in ClusterId, t \in Terminal \cup {NoSurface} : SetActiveTerminal(c, t)
  BY <1>0, <1>3, ShowingTabs
<1>4. ASSUME NEW w \in Label, NEW c \in ClusterId, CloseCluster(w, c) PROVE TabsInv'
  BY <1>0, <1>4, CloseClusterTabs
<1>5. ASSUME NEW w \in Label, NEW to \in Label, NEW c \in ClusterId, MoveCluster(w, c, to)
      PROVE  TabsInv'
  BY <1>0, <1>5, MoveClusterKeepsAll, LayoutStepKeepsTabs
<1>6. ASSUME NEW w \in Label, CloseWindow(w) PROVE TabsInv'
  BY <1>0, <1>6, CloseWindowKeepsAll, LayoutStepKeepsTabs
<1>7. ASSUME NEW app \in Apps, NEW w \in Label, NEW p \in PaneId \cup {None}, NEW split \in BOOLEAN,
             OpenInstance(app, w, p, split)
      PROVE  TabsInv'
  BY <1>0, <1>7, OpenInstanceTabs
<1>8. ASSUME NEW s \in Surface, CloseInstance(s) PROVE TabsInv'
  BY <1>0, <1>8, CloseInstanceTabs
<1>9. ASSUME NEW s \in Surface, NEW w \in Label, NEW c \in ClusterId, NEW p \in PaneId,
             MoveInstance(s, w, c, p)
      PROVE  TabsInv'
  BY <1>0, <1>9, MoveInstanceTabs
<1>10. ASSUME NEW s \in Surface, NEW w \in Label, NEW c \in ClusterId, NEW p \in PaneId,
              SplitWithInstance(s, w, c, p)
       PROVE  TabsInv'
  BY <1>0, <1>10, SplitWithInstanceTabs
<1>11. ASSUME NEW s \in Surface, DetachInstance(s) PROVE TabsInv'
  BY <1>0, <1>11, DetachInstanceTabs
<1>12. ASSUME NEW w \in Label, CreateTerminal(w) PROVE TabsInv'
  BY <1>0, <1>12, CreateTerminalTabs
<1>13. ASSUME NEW t \in Terminal, SplitTerminal(t) PROVE TabsInv'
  BY <1>0, <1>13, SplitTerminalTabs
<1>14. ASSUME NEW w \in Label, NEW p \in PaneId, NEW split \in BOOLEAN, OpenTerminalInPane(w, p, split)
       PROVE  TabsInv'
  BY <1>0, <1>14, OpenTerminalInPaneTabs
<1>15. ASSUME NEW c \in ClusterId, NEW p \in PaneId, WorkerSpawn(c, p) PROVE TabsInv'
  BY <1>0, <1>15, WorkerSpawnTabs
<1>16. ASSUME NEW x \in spawning, WorkerAdd(x) PROVE TabsInv'
  BY <1>0, <1>16, WorkerAddTabs
<1>17. ASSUME NEW t \in Terminal, CloseTerminal(t) PROVE TabsInv'
  BY <1>0, <1>17, CloseTerminalTabs
<1>18. ASSUME NEW t \in Terminal, NEW w \in Label, MoveTerminal(t, w) PROVE TabsInv'
  BY <1>0, <1>18, MoveTerminalTabs
<1>19. CASE Restart
  BY <1>0, <1>19, RestartTabs
<1>20. CASE UNCHANGED vars
  <2>1. UNCHANGED <<windows, clusters, panes, tabs, instances, terminals, counters, spawning>>
    BY <1>20 DEF vars
  <2>2. LiveClusters' = LiveClusters
    BY <2>1 DEF LiveClusters
  <2> QED BY <1>0, <2>1, <2>2, LayoutStepKeepsTabs
<1> QED BY <1>1, <1>2, <1>3, <1>4, <1>5, <1>6, <1>7, <1>8, <1>9, <1>10, <1>11, <1>12, <1>13,
           <1>14, <1>15, <1>16, <1>17, <1>18, <1>19, <1>20 DEF Next

(* The invariant of the tabs, whatever is dropped or closed as long as     *)
(* nothing restarts, and through restarts when drops and closes are calm.  *)
THEOREM TabsHold ==
  ASSUME Restarts => Calm
  PROVE  Spec => [](TypeOK /\ LayoutInv /\ TabsInv)
<1>1. Init => TabsInv
  BY TabsInit
<1>2. TypeOK /\ LayoutInv /\ TabsInv /\ [Next]_vars => TabsInv'
  BY TabsNext
<1> QED BY <1>1, <1>2, LayoutHolds, PTL DEF Spec

(* No surface is drawn in two panes, and no closed pane keeps one, through *)
(* any sequence of drops, splits, detaches, closes and late terminals.     *)
THEOREM DrawnOnceAlways ==
  ASSUME Restarts => Calm
  PROVE  Spec => [](DrawnOnce /\ PrunedIsEmpty)
<1>1. TypeOK /\ LayoutInv /\ TabsInv => DrawnOnce /\ PrunedIsEmpty
  BY SpreadAndCovered DEF TabsInv
<1> QED BY <1>1, TabsHold, PTL

(* No id about to be minted is in use, by a surface, a tab, a terminal     *)
(* still being spawned, a pane or a cluster.                               *)
THEOREM NothingRemintedEver ==
  ASSUME Restarts => Calm
  PROVE  Spec => []NothingReminted
<1>1. TypeOK /\ LayoutInv /\ TabsInv => NothingReminted
  <2> SUFFICES ASSUME TypeOK, LayoutInv, TabsInv PROVE NothingReminted
    OBVIOUS
  <2>1. Placed = Held(tabs)
    BY SpreadAndCovered, DrawnIsHeld DEF TabsInv
  <2>2. SurfacesCounted
    BY <2>1 DEF TabsInv, KnownCounted, Known, Spawned, SurfacesCounted
  <2> QED BY <2>2 DEF LayoutInv, NothingReminted
<1> QED BY <1>1, TabsHold, PTL

(* Every tab shows something live, when drops name what is still open and  *)
(* no cluster closes while another draws its terminals.                    *)
THEOREM TabsAlwaysResolve ==
  ASSUME Calm
  PROVE  Spec => []TabsResolve
<1>1. TypeOK /\ LayoutInv /\ TabsInv => TabsResolve
  <2> SUFFICES ASSUME TypeOK, TabsInv PROVE TabsResolve
    OBVIOUS
  <2>1. Placed = Held(tabs)
    BY SpreadAndCovered, DrawnIsHeld DEF TabsInv
  <2> QED BY <2>1 DEF TabsInv, TabsResolve
<1> QED BY <1>1, TabsHold, PTL

(* Every live instance is drawn, when no tab is dropped on the edge of the *)
(* pane it alone fills.                                                    *)
THEOREM InstancesAlwaysPlaced ==
  ASSUME ~OwnEdgeDrops, Restarts => Calm
  PROVE  Spec => []InstancesPlaced
<1>1. TypeOK /\ LayoutInv /\ TabsInv => InstancesPlaced
  <2> SUFFICES ASSUME TypeOK, TabsInv PROVE InstancesPlaced
    OBVIOUS
  <2>1. Placed = Held(tabs)
    BY SpreadAndCovered, DrawnIsHeld DEF TabsInv
  <2> QED BY <2>1 DEF TabsInv, InstancesPlaced
<1> QED BY <1>1, TabsHold, PTL

-----------------------------------------------------------------------------
(* Opening and closing windows *)

(* What is placed is what any pane holds. *)
LEMMA PlacedIsHeld == TypeOK /\ TabsInv => Placed = Held(tabs)
BY SpreadAndCovered, DrawnIsHeld DEF TabsInv

(* A new window takes nothing away. *)
LEMMA NewWindowLosesNothing ==
  ASSUME TypeOK, LayoutInv, TabsInv, NewWindow
  PROVE  Live \subseteq Live' /\ Held(tabs) \subseteq Held(tabs')
<1> DEFINE p == counters.panes + 1
           h == <<Home, counters.ord[Home] + 1>>
<1>1. /\ tabs' = [tabs EXCEPT ![p] = {h}] /\ instances' = instances \cup {h}
      /\ terminals' = terminals
  BY DEF NewWindow
<1>2. p \in PaneId /\ p \notin LivePanes
  BY NextIds, InUseIsCounted DEF NewWindow, TypeOK
<1> HIDE DEF p, h
<1>3. tabs[p] = {}
  BY <1>2 DEF TabsInv, Covered, LivePanes
<1>4. \A q \in PaneId : tabs[q] \subseteq tabs'[q]
  BY <1>1, <1>3 DEF TypeOK, TreesType
<1> QED BY <1>1, <1>4 DEF Live, Held

(* Neither does one that a surface is moved into. *)
LEMMA DetachLosesNothing ==
  ASSUME TypeOK, LayoutInv, TabsInv, NEW s \in Surface, DetachInstance(s)
  PROVE  Live \subseteq Live' /\ Held(tabs) \subseteq Held(tabs')
<1> DEFINE p == counters.panes + 1
           lifted == TakenOut(tabs, panes, LiveClusters, s)
           left == PrunedWhere(lifted, panes, LiveClusters, s)
<1>1. /\ UNCHANGED <<instances, terminals>>
      /\ tabs' = tabs \/ tabs' = [lifted EXCEPT ![p] = {s}]
  BY DEF DetachInstance
<1>2. p \in PaneId /\ p \notin LivePanes
  BY NextIds, InUseIsCounted DEF DetachInstance, TypeOK
<1>3. /\ lifted \in Tabs /\ Covered(lifted, left, LiveClusters)
      /\ \A d \in ClusterId : left[d] \subseteq panes[d]
      /\ Held(lifted) = Held(tabs) \ {s}
  BY LiftedFromAll
<1> HIDE DEF p, lifted, left
<1>4. CASE tabs' = [lifted EXCEPT ![p] = {s}]
  <2>1. \A d \in LiveClusters : d \in ClusterId /\ p \notin left[d]
    BY <1>2, <1>3, InUseIsCounted DEF LivePanes
  <2>2. lifted[p] = {}
    BY <1>2, <1>3, <2>1 DEF Covered
  <2>3. \A q \in PaneId : tabs'[q] = IF q = p THEN {s} ELSE lifted[q]
    BY <1>3, <1>4 DEF Tabs
  <2>4. Held(lifted) \subseteq Held(tabs') /\ s \in Held(tabs')
    BY <1>2, <2>2, <2>3 DEF Held
  <2> QED BY <1>1, <1>3, <2>4 DEF Live
<1> QED BY <1>1, <1>4 DEF Live

(* A step that opens or closes a window loses no surface. *)
LEMMA WindowStepLosesNothing ==
  ASSUME TypeOK, LayoutInv, TabsInv, [Next]_vars, windows # windows'
  PROVE  Live \subseteq Live' /\ Held(tabs) \subseteq Held(tabs')
<1> DEFINE Keeps == Live \subseteq Live' /\ Held(tabs) \subseteq Held(tabs')
<1>1. ASSUME NEW w \in Label, AddCluster(w) PROVE FALSE
  BY <1>1 DEF AddCluster
<1>2. CASE NewWindow
  BY <1>2, NewWindowLosesNothing
<1>3. ASSUME NEW w \in Label, NEW c \in ClusterId \cup {None}, SetActiveCluster(w, c) PROVE FALSE
  BY <1>3 DEF SetActiveCluster
<1>4. ASSUME NEW w \in Label, NEW c \in ClusterId, CloseCluster(w, c) PROVE FALSE
  BY <1>4 DEF CloseCluster
<1>5. ASSUME NEW w \in Label, NEW to \in Label, NEW c \in ClusterId, MoveCluster(w, c, to)
      PROVE  Keeps
  BY <1>5 DEF MoveCluster, Live, Held
<1>6. ASSUME NEW w \in Label, CloseWindow(w) PROVE Keeps
  BY <1>6 DEF CloseWindow, Live, Held
<1>7. ASSUME NEW app \in Apps, NEW w \in Label, NEW p \in PaneId \cup {None}, NEW split \in BOOLEAN,
             OpenInstance(app, w, p, split)
      PROVE  FALSE
  BY <1>7 DEF OpenInstance
<1>8. ASSUME NEW s \in Surface, CloseInstance(s) PROVE FALSE
  BY <1>8 DEF CloseInstance
<1>9. ASSUME NEW w \in Label, NEW c \in ClusterId, ActivateInstance(w, c) PROVE FALSE
  BY <1>9 DEF ActivateInstance
<1>10. ASSUME NEW s \in Surface, NEW w \in Label, NEW c \in ClusterId, NEW p \in PaneId,
              MoveInstance(s, w, c, p)
       PROVE  FALSE
  BY <1>10 DEF MoveInstance
<1>11. ASSUME NEW s \in Surface, NEW w \in Label, NEW c \in ClusterId, NEW p \in PaneId,
              SplitWithInstance(s, w, c, p)
       PROVE  FALSE
  BY <1>11 DEF SplitWithInstance
<1>12. ASSUME NEW s \in Surface, DetachInstance(s) PROVE Keeps
  BY <1>12, DetachLosesNothing
<1>13. ASSUME NEW w \in Label, CreateTerminal(w) PROVE FALSE
  BY <1>13 DEF CreateTerminal, AddTerminal
<1>14. ASSUME NEW t \in Terminal, SplitTerminal(t) PROVE FALSE
  BY <1>14 DEF SplitTerminal, AddTerminal
<1>15. ASSUME NEW w \in Label, NEW p \in PaneId, NEW split \in BOOLEAN, OpenTerminalInPane(w, p, split)
       PROVE  FALSE
  BY <1>15 DEF OpenTerminalInPane, AddTerminalInPane
<1>16. ASSUME NEW c \in ClusterId, NEW p \in PaneId, WorkerSpawn(c, p) PROVE FALSE
  BY <1>16 DEF WorkerSpawn
<1>17. ASSUME NEW x \in spawning, WorkerAdd(x) PROVE FALSE
  BY <1>17 DEF WorkerAdd, AddTerminalInPane
<1>18. ASSUME NEW t \in Terminal, CloseTerminal(t) PROVE FALSE
  BY <1>18 DEF CloseTerminal
<1>19. ASSUME NEW t \in Terminal, NEW w \in Label, MoveTerminal(t, w) PROVE FALSE
  BY <1>19 DEF MoveTerminal
<1>20. ASSUME NEW c \in ClusterId, NEW t \in Terminal \cup {NoSurface}, SetActiveTerminal(c, t)
       PROVE  FALSE
  BY <1>20 DEF SetActiveTerminal
<1>21. ~Restart
  BY DEF Restart
<1>22. ~UNCHANGED vars
  BY DEF vars
<1> HIDE DEF Keeps
<1>23. Keeps
  BY <1>1, <1>2, <1>3, <1>4, <1>5, <1>6, <1>7, <1>8, <1>9, <1>10, <1>11, <1>12, <1>13, <1>14,
     <1>15, <1>16, <1>17, <1>18, <1>19, <1>20, <1>21, <1>22 DEF Next, Keeps
<1> QED BY <1>23 DEF Keeps

(* Opening, closing and merging windows loses no surface and no tab.       *)
THEOREM WindowsNeverLose ==
  ASSUME Restarts => Calm
  PROVE  Spec => WindowsLoseNothing
<1> DEFINE Keeps == windows # windows' => Live \subseteq Live' /\ Placed \subseteq Placed'
<1>1. (TypeOK /\ TabsInv => Placed = Held(tabs))'
  BY PlacedIsHeld, PTL
<1>2. TypeOK /\ LayoutInv /\ TabsInv /\ (TypeOK /\ LayoutInv /\ TabsInv)' /\ [Next]_vars => [Keeps]_vars
  <2> SUFFICES ASSUME TypeOK, LayoutInv, TabsInv, TypeOK', TabsInv', [Next]_vars, windows # windows'
               PROVE  Live \subseteq Live' /\ Placed \subseteq Placed'
    OBVIOUS
  <2>1. Placed = Held(tabs) /\ Placed' = Held(tabs')
    BY <1>1, PlacedIsHeld
  <2> QED BY <2>1, WindowStepLosesNothing
<1> QED BY <1>2, TabsHold, PTL DEF Spec, WindowsLoseNothing

-----------------------------------------------------------------------------
(* Arriving on a takeover surface *)

(* One step's worth of `ArrivalDismisses`. *)
Dismisses ==
  \A p \in LivePanes \cap LivePanes' :
    (\E s \in tabs[p]' \ tabs[p] : s[1] \notin Takeover) /\ Covering(p) # {}
      => Covering(p)' # Covering(p)

(* A step in which no pane gains a tab dismisses what it has to. *)
LEMMA NothingArrives ==
  ASSUME TypeOK, \A p \in PaneId : p \in LivePanes => tabs'[p] \subseteq tabs[p]
  PROVE  Dismisses
<1>1. LivePanes \subseteq PaneId
  BY DEF LivePanes, LiveClusters, TypeOK, WindowsType, TreesType
<1> QED BY <1>1 DEF Dismisses

(* T is the tabs with nothing but s taken out of some panes. *)
LiftedOf(T, s) ==
  \A p \in PaneId : \A u :
    (u \in T[p] => u \in tabs[p]) /\ (u \in tabs[p] => u \in T[p] \/ u = s)

(* Lifting a surface adds no tab. *)
LEMMA LiftingOnlyTakes ==
  ASSUME TypeOK, NEW C, NEW s
  PROVE  LiftedOf(TakenOut(tabs, panes, C, s), s)
BY DEF TakenOut, LiftedOf

(* The same of lifting what T has lifted already. *)
LEMMA LiftingAgain ==
  ASSUME TypeOK, NEW T \in Tabs, NEW P, NEW C, NEW s, LiftedOf(T, s)
  PROVE  LiftedOf(TakenOut(T, P, C, s), s)
<1>1. \A p \in PaneId : \A u :
        /\ (u \in TakenOut(T, P, C, s)[p] => u \in T[p])
        /\ (u \in T[p] => u \in TakenOut(T, P, C, s)[p] \/ u = s)
  BY DEF TakenOut
<1> QED BY <1>1 DEF LiftedOf

(* Placing a surface that is no takeover in a pane one covers takes the    *)
(* covering one away, T being the tabs it was lifted from.                 *)
LEMMA PlaceSurfaceDismisses ==
  ASSUME TypeOK, NEW T \in Tabs, NEW P \in Trees, NEW opened, NEW c \in ClusterId, NEW s,
         NEW asked, NEW new \in PaneId \cup {None}, NEW evict \in BOOLEAN,
         LiftedOf(T, s),
         s[1] \notin Takeover => evict,
         new # None => new \notin LivePanes,
         PlaceSurface(T, P, instances, opened, c, s, asked, new, evict)
  PROVE  Dismisses
<1>1. PICK target \in IF asked \in P[c] THEN {asked} ELSE P[c] :
        LET lifted == TakenOut(T, P, {c}, s)
        IN \E gone \in IF evict THEN InTheWay(lifted[target], instances) ELSE {NoSurface} :
             LET moved == Holders(T, P[c], s) # {}
                 cleared == [lifted EXCEPT ![target] = @ \ {gone}]
                 splits == new # None /\ Cardinality(P[c]) < MaxAutoPanes /\ cleared[target] # {}
                 at == IF splits THEN new ELSE target
                 landed == [cleared EXCEPT ![at] = @ \cup {s}]
                 held == P[c] \cup {at}
             IN /\ tabs' = landed
                /\ panes' = [P EXCEPT ![c] = IF moved THEN Pruned(landed, held) ELSE held]
                /\ instances' = (instances \ {gone}) \cup opened
  BY DEF PlaceSurface
<1> DEFINE lifted == TakenOut(T, P, {c}, s)
<1>2. PICK gone \in IF evict THEN InTheWay(lifted[target], instances) ELSE {NoSurface} :
             LET moved == Holders(T, P[c], s) # {}
                 cleared == [lifted EXCEPT ![target] = @ \ {gone}]
                 splits == new # None /\ Cardinality(P[c]) < MaxAutoPanes /\ cleared[target] # {}
                 at == IF splits THEN new ELSE target
                 landed == [cleared EXCEPT ![at] = @ \cup {s}]
                 held == P[c] \cup {at}
             IN /\ tabs' = landed
                /\ panes' = [P EXCEPT ![c] = IF moved THEN Pruned(landed, held) ELSE held]
                /\ instances' = (instances \ {gone}) \cup opened
  BY <1>1
<1> DEFINE cleared == [lifted EXCEPT ![target] = @ \ {gone}]
           splits == new # None /\ Cardinality(P[c]) < MaxAutoPanes /\ cleared[target] # {}
           at == IF splits THEN new ELSE target
<1>3. target \in PaneId /\ at \in PaneId /\ (at = target \/ (at = new /\ new # None))
  BY DEF Trees
<1>4. lifted \in Tabs /\ LiftedOf(lifted, s)
  BY TakenOutType, LiftingAgain
<1>5. tabs' = [cleared EXCEPT ![at] = @ \cup {s}]
  BY <1>2
<1>6. \A p \in PaneId : cleared[p] = IF p = target THEN lifted[p] \ {gone} ELSE lifted[p]
  BY <1>4 DEF Tabs
<1>7. \A p \in PaneId : tabs'[p] = IF p = at THEN cleared[p] \cup {s} ELSE cleared[p]
  <2>1. cleared \in Tabs
    BY <1>3, <1>4 DEF Tabs
  <2> HIDE DEF cleared, at
  <2> QED BY <1>5, <2>1 DEF Tabs
<1>8. evict => gone \in InTheWay(lifted[target], instances)
  BY <1>2
<1> HIDE DEF lifted, cleared, at
<1> SUFFICES ASSUME NEW p \in LivePanes, NEW u \in tabs'[p] \ tabs[p], u[1] \notin Takeover,
                    Covering(p) # {}
             PROVE  Covering(p)' # Covering(p)
  BY DEF Dismisses
<1>9. p \in PaneId
  BY DEF LivePanes, LiveClusters, TypeOK, WindowsType, TreesType
<1>10. u = s /\ p = at
  <2>1. u \in cleared[p] => u \in lifted[p]
    BY <1>6, <1>9
  <2>2. u \notin lifted[p]
    BY <1>4, <1>9 DEF LiftedOf
  <2> QED BY <1>7, <1>9, <2>1, <2>2
<1>11. at = target /\ evict
  BY <1>3, <1>10
<1>12. s \notin tabs[p] /\ lifted[p] = tabs[p]
  <2>1. s \notin tabs[p]
    BY <1>10
  <2>2. \A z : z \in lifted[p] <=> z \in tabs[p]
    BY <1>4, <1>9, <2>1 DEF LiftedOf
  <2> QED BY <2>1, <2>2
<1>13. gone \in InTheWay(tabs[p], instances)
  BY <1>8, <1>10, <1>11, <1>12
<1>14. gone \in Covering(p)
  BY <1>13 DEF InTheWay, Covering
<1>15. gone \notin tabs'[p]
  <2>1. gone # s /\ p = target
    BY <1>10, <1>11, <1>12, <1>14 DEF Covering
  <2>2. gone \notin cleared[p]
    BY <1>6, <1>9, <2>1
  <2> QED BY <1>7, <1>9, <2>1, <2>2
<1> QED BY <1>14, <1>15 DEF Covering

(* Every step dismisses what a surface that arrives has to. *)
LEMMA EveryStepDismisses ==
  ASSUME TypeOK, LayoutInv, [Next]_vars
  PROVE  Dismisses
<1>0. tabs \in Tabs /\ panes \in Trees
      /\ \A s : LiftedOf(tabs, s)
  BY DEF TypeOK, TreesType, Tabs, Trees, LiftedOf
<1>1. ASSUME NEW p \in PaneId, p \notin LivePanes, NEW s, tabs' = [tabs EXCEPT ![p] = {s}]
      PROVE  Dismisses
  BY <1>0, <1>1, NothingArrives DEF Tabs
<1>2. ASSUME tabs' = tabs PROVE Dismisses
  BY <1>2, NothingArrives
<1>3. ASSUME NEW C, NEW s, tabs' = TakenOut(tabs, panes, C, s) PROVE Dismisses
  BY <1>3, LiftingOnlyTakes, NothingArrives DEF LiftedOf
<1>4. ASSUME NEW C, NEW s, NEW p \in PaneId, p \notin LivePanes,
             tabs' = [TakenOut(tabs, panes, C, s) EXCEPT ![p] = {s}]
      PROVE  Dismisses
  <2> DEFINE lifted == TakenOut(tabs, panes, C, s)
  <2>1. lifted \in Tabs /\ \A q \in PaneId : lifted[q] \subseteq tabs[q]
    BY <1>0, TakenOutType, LiftingOnlyTakes DEF LiftedOf
  <2>2. tabs' = [lifted EXCEPT ![p] = {s}]
    BY <1>4
  <2> HIDE DEF lifted
  <2>3. \A q \in PaneId : q # p => tabs'[q] \subseteq tabs[q]
    BY <2>1, <2>2 DEF Tabs
  <2> QED BY <1>4, <2>3, NothingArrives
<1>5. counters.panes + 1 \notin LivePanes
  BY InUseIsCounted
<1>6. ASSUME NEW w \in Label, AddCluster(w) PROVE Dismisses
  <2>1. counters.panes + 1 \in PaneId
    BY <1>6, NextIds DEF AddCluster, TypeOK
  <2> QED BY <1>1, <1>5, <1>6, <2>1 DEF AddCluster
<1>7. CASE NewWindow
  <2>1. counters.panes + 1 \in PaneId
    BY <1>7, NextIds DEF NewWindow, TypeOK
  <2> QED BY <1>1, <1>5, <1>7, <2>1 DEF NewWindow
<1>8. ASSUME NEW w \in Label, NEW c \in ClusterId, CloseCluster(w, c) PROVE Dismisses
  BY <1>8, NothingArrives DEF CloseCluster
<1>9. ASSUME NEW app \in Apps, NEW w \in Label, NEW p \in PaneId \cup {None}, NEW split \in BOOLEAN,
             OpenInstance(app, w, p, split)
      PROVE  Dismisses
  <2> DEFINE s == <<app, counters.ord[app] + 1>>
             new == IF split THEN counters.panes + 1 ELSE None
             evict == app \notin Takeover
             opened == {s}
  <2>1. new \in PaneId \cup {None} /\ (new # None => new \notin LivePanes)
    BY <1>5, <1>9, NextIds DEF OpenInstance, TypeOK
  <2>2. \/ tabs' = tabs
        \/ \E c \in ClusterId : PlaceSurface(tabs, panes, instances, opened, c, s, p, new, evict)
    BY <1>9 DEF OpenInstance, TypeOK, WindowsType
  <2>3. s[1] = app /\ evict \in BOOLEAN /\ (s[1] \notin Takeover => evict)
    OBVIOUS
  <2> HIDE DEF s, new, evict, opened
  <2> QED BY <1>0, <1>2, <2>1, <2>2, <2>3, PlaceSurfaceDismisses
<1>10. ASSUME NEW s \in Surface, CloseInstance(s) PROVE Dismisses
  BY <1>3, <1>10 DEF CloseInstance
<1>11. ASSUME NEW s \in Surface, NEW w \in Label, NEW c \in ClusterId, NEW p \in PaneId,
              MoveInstance(s, w, c, p)
       PROVE  Dismisses
  <2> DEFINE C == Elsewhere(w, c)
             lifted == TakenOut(tabs, panes, C, s)
             left == PrunedWhere(lifted, panes, C, s)
             evict == ~(s \in instances /\ s[1] \in Takeover)
             opened == {}
             new == None
  <2>1. PlaceSurface(lifted, left, instances, opened, c, s, p, new, evict)
    BY <1>11 DEF MoveInstance
  <2>2. lifted \in Tabs /\ left \in Trees
    BY LiftedTypes DEF TypeOK
  <2>3. LiftedOf(lifted, s)
    BY LiftingOnlyTakes
  <2>4. new \in PaneId \cup {None} /\ ~(new # None) /\ evict \in BOOLEAN /\ (s[1] \notin Takeover => evict)
    OBVIOUS
  <2> HIDE DEF C, lifted, left, evict, opened, new
  <2> QED BY <2>1, <2>2, <2>3, <2>4, PlaceSurfaceDismisses
<1>12. ASSUME NEW s \in Surface, NEW w \in Label, NEW c \in ClusterId, NEW p \in PaneId,
              SplitWithInstance(s, w, c, p)
       PROVE  Dismisses
  <2>1. counters.panes + 1 \in PaneId
    BY <1>12, NextIds DEF SplitWithInstance, TypeOK
  <2> QED BY <1>3, <1>4, <1>5, <1>12, <2>1 DEF SplitWithInstance
<1>13. ASSUME NEW s \in Surface, DetachInstance(s) PROVE Dismisses
  <2>1. counters.panes + 1 \in PaneId
    BY <1>13, NextIds DEF DetachInstance, TypeOK
  <2> QED BY <1>2, <1>4, <1>5, <1>13, <2>1 DEF DetachInstance
<1>14. ASSUME NEW t \in Terminal, NEW c \in ClusterId, NEW p, NEW new \in PaneId \cup {None},
              new # None => new \notin LivePanes, AddTerminalInPane(t, c, p, new)
       PROVE  Dismisses
  <2> DEFINE evict == TRUE
             opened == {}
  <2>1. tabs' = tabs \/ PlaceSurface(tabs, panes, instances, opened, c, t, p, new, evict)
    BY <1>14 DEF AddTerminalInPane
  <2>2. evict \in BOOLEAN /\ evict
    OBVIOUS
  <2> HIDE DEF evict, opened
  <2> QED BY <1>0, <1>2, <1>14, <2>1, <2>2, PlaceSurfaceDismisses
<1>15. ASSUME NEW w \in Label, NEW p \in PaneId, NEW split \in BOOLEAN, OpenTerminalInPane(w, p, split)
       PROVE  Dismisses
  <2> DEFINE new == IF split THEN counters.panes + 1 ELSE None
  <2>1. /\ NextTerminal \in Terminal /\ activeCluster[w] \in ClusterId
        /\ new \in PaneId \cup {None} /\ (new # None => new \notin LivePanes)
    BY <1>5, <1>15, NextTerminalType, NextIds DEF OpenTerminalInPane, TypeOK, WindowsType
  <2>2. AddTerminalInPane(NextTerminal, activeCluster[w], p, new)
    BY <1>15 DEF OpenTerminalInPane
  <2> HIDE DEF new
  <2> QED BY <1>14, <2>1, <2>2
<1>16. ASSUME NEW x \in spawning, WorkerAdd(x) PROVE Dismisses
  <2> DEFINE new == None
  <2>1. x[1] \in Terminal /\ x[2] \in ClusterId /\ AddTerminalInPane(x[1], x[2], x[3], new)
    BY <1>16 DEF WorkerAdd, TypeOK, TerminalsType
  <2>2. new \in PaneId \cup {None} /\ ~(new # None)
    OBVIOUS
  <2> HIDE DEF new
  <2> QED BY <1>14, <2>1, <2>2
<1>17. ASSUME NEW t \in Terminal, CloseTerminal(t) PROVE Dismisses
  BY <1>3, <1>17 DEF CloseTerminal
<1>18. ASSUME NEW t \in Terminal, NEW w \in Label, MoveTerminal(t, w) PROVE Dismisses
  BY <1>3, <1>18 DEF MoveTerminal
<1>19. CASE \/ \E w \in Label, c \in ClusterId \cup {None} : SetActiveCluster(w, c)
            \/ \E w, to \in Label, c \in ClusterId : MoveCluster(w, c, to)
            \/ \E w \in Label : CloseWindow(w)
            \/ \E w \in Label, c \in ClusterId : ActivateInstance(w, c)
            \/ \E w \in Label : CreateTerminal(w)
            \/ \E t \in Terminal : SplitTerminal(t)
            \/ \E c \in ClusterId, p \in PaneId : WorkerSpawn(c, p)
            \/ \E c \in ClusterId, t \in Terminal \cup {NoSurface} : SetActiveTerminal(c, t)
            \/ Restart
            \/ UNCHANGED vars
  <2>1. tabs' = tabs
    BY <1>19 DEF SetActiveCluster, MoveCluster, CloseWindow, ActivateInstance, CreateTerminal,
                 SplitTerminal, AddTerminal, WorkerSpawn, SetActiveTerminal, Restart, vars
  <2> QED BY <1>2, <2>1
<1> QED BY <1>6, <1>7, <1>8, <1>9, <1>10, <1>11, <1>12, <1>13, <1>15, <1>16, <1>17, <1>18, <1>19
        DEF Next

(* A surface that comes to a pane a takeover surface covers takes that one *)
(* away, whatever is dropped, however stale, and wherever it comes from.   *)
THEOREM ArrivalsAlwaysDismiss == Spec => ArrivalDismisses
<1>1. TypeOK /\ LayoutInv /\ [Next]_vars => [Dismisses]_vars
  BY EveryStepDismisses
<1> QED BY <1>1, LayoutHolds, PTL DEF Spec, ArrivalDismisses, Dismisses

-----------------------------------------------------------------------------
(* Terminals and the clusters they name *)

(* Without a worker, nothing is spawned and not yet recorded. *)
ReachInv == spawning = {} /\ TerminalsReachable

(* A step that records no terminal, gives none another cluster and takes   *)
(* no cluster away keeps every terminal reachable.                         *)
LEMMA ReachStep ==
  ASSUME ReachInv, UNCHANGED <<terminals, clusterOf, spawning>>, LiveClusters \subseteq LiveClusters'
  PROVE  ReachInv'
BY DEF ReachInv, TerminalsReachable

(* So does one that records or moves terminal t to a cluster that is live. *)
LEMMA ReachGiven ==
  ASSUME ReachInv, NEW t, NEW c \in LiveClusters, UNCHANGED <<windows, clusters, spawning>>,
         \A u \in terminals' : u = t \/ u \in terminals,
         \A u \in terminals' : clusterOf'[u] = c \/ (u \in terminals /\ clusterOf'[u] = clusterOf[u])
  PROVE  ReachInv'
<1>1. LiveClusters' = LiveClusters
  BY DEF LiveClusters
<1> QED BY <1>1 DEF ReachInv, TerminalsReachable

(* A cluster that is added, moved or handed over leaves the others be. *)
LEMMA AddClusterReach ==
  ASSUME TypeOK, ReachInv, NEW w \in Label, AddCluster(w)
  PROVE  ReachInv'
<1>1. LiveClusters \subseteq LiveClusters'
  BY DEF AddCluster, LiveClusters, TypeOK, WindowsType
<1> QED BY <1>1, ReachStep DEF AddCluster

LEMMA NewWindowReach ==
  ASSUME TypeOK, LayoutInv, ReachInv, NewWindow
  PROVE  ReachInv'
<1> DEFINE w == counters.windows + 1
           c == counters.clusters + 1
<1>0. w \in Label /\ c \in ClusterId
  BY NextIds DEF NewWindow, TypeOK
<1>2. windows' = windows \cup {w} /\ clusters' = [clusters EXCEPT ![w] = {c}]
  BY DEF NewWindow
<1>1. LiveClusters \subseteq LiveClusters'
  BY <1>0, <1>2, NewWindowsClusters
<1> QED BY <1>1, ReachStep DEF NewWindow

LEMMA MoveClusterReach ==
  ASSUME TypeOK, ReachInv, NEW w \in Label, NEW c \in ClusterId, NEW to \in Label, MoveCluster(w, c, to)
  PROVE  ReachInv'
<1>1. LiveClusters \subseteq LiveClusters'
  BY DEF MoveCluster, LiveClusters, TypeOK, WindowsType
<1> QED BY <1>1, ReachStep DEF MoveCluster

LEMMA CloseWindowReach ==
  ASSUME TypeOK, LayoutInv, ReachInv, NEW w \in Label, CloseWindow(w)
  PROVE  ReachInv'
<1>1. LiveClusters \subseteq LiveClusters'
  BY DEF CloseWindow, HandedOver, LiveClusters, TypeOK, WindowsType, LayoutInv, MainStays, Label
<1> QED BY <1>1, ReachStep DEF CloseWindow

(* A cluster that closes takes the terminals that name it along. *)
LEMMA CloseClusterReach ==
  ASSUME TypeOK, ReachInv, NEW w \in Label, NEW c \in ClusterId, CloseCluster(w, c)
  PROVE  ReachInv'
<1>1. \A d \in LiveClusters : d # c => d \in LiveClusters'
  BY DEF CloseCluster, LiveClusters, TypeOK, WindowsType
<1>2. \A t \in terminals' : t \in terminals /\ clusterOf'[t] = clusterOf[t] /\ clusterOf[t] # c
  BY DEF CloseCluster, TerminalsOfCluster, TypeOK, TerminalsType
<1> QED BY <1>1, <1>2 DEF ReachInv, TerminalsReachable, CloseCluster

(* A terminal torn off into a window names that window's new cluster. *)
LEMMA DetachInstanceReach ==
  ASSUME TypeOK, LayoutInv, ReachInv, NEW s \in Surface, DetachInstance(s)
  PROVE  ReachInv'
<1> DEFINE w == counters.windows + 1
           c == counters.clusters + 1
<1>1. w \in Label /\ w \notin windows /\ c \in ClusterId
  BY NextIds, InUseIsCounted DEF DetachInstance, TypeOK
<1>2. CASE UNCHANGED <<windows, clusters, clusterOf>>
  BY <1>2, ReachStep DEF DetachInstance, LiveClusters
<1>3. CASE /\ windows' = windows \cup {w}
           /\ clusters' = [clusters EXCEPT ![w] = {c}]
           /\ clusterOf' = [t \in Terminal |-> IF t = s /\ t \in terminals THEN c ELSE clusterOf[t]]
  <2>1. LiveClusters \subseteq LiveClusters' /\ c \in LiveClusters'
    BY <1>1, <1>3 DEF LiveClusters, TypeOK, WindowsType
  <2>2. \A t \in terminals : clusterOf'[t] = c \/ clusterOf'[t] = clusterOf[t]
    BY <1>3 DEF TypeOK, TerminalsType
  <2>3. UNCHANGED <<terminals, spawning>>
    BY DEF DetachInstance
  <2> QED BY <2>1, <2>2, <2>3 DEF ReachInv, TerminalsReachable
<1> QED BY <1>2, <1>3 DEF DetachInstance

(* A terminal is created in, split into and moved to a live cluster. *)
LEMMA AddTerminalReach ==
  ASSUME TypeOK, ReachInv, NEW c, NEW sibling, AddTerminal(c, sibling)
  PROVE  ReachInv'
<1> DEFINE t == NextTerminal
<1>1. t \in Terminal
  BY NextTerminalType DEF AddTerminal, TypeOK
<1>2. \A u \in terminals' : u = t \/ u \in terminals
  BY DEF AddTerminal
<1>3. \A u \in terminals' : clusterOf'[u] = c \/ (u \in terminals /\ clusterOf'[u] = clusterOf[u])
  BY <1>1 DEF AddTerminal, TypeOK, TerminalsType
<1>4. c \in LiveClusters /\ UNCHANGED <<windows, clusters, spawning>>
  BY DEF AddTerminal
<1> HIDE DEF t
<1> QED BY <1>2, <1>3, <1>4, ReachGiven

LEMMA OpenTerminalInPaneReach ==
  ASSUME TypeOK, LayoutInv, ReachInv, NEW w \in Label, NEW p \in PaneId, NEW split \in BOOLEAN,
         OpenTerminalInPane(w, p, split)
  PROVE  ReachInv'
<1> DEFINE t == NextTerminal
           c == activeCluster[w]
<1>1. t \in Terminal
  BY NextTerminalType DEF OpenTerminalInPane, TypeOK
<1>2. /\ terminals' = terminals \cup {t}
      /\ clusterOf' = [clusterOf EXCEPT ![t] = c]
      /\ UNCHANGED <<windows, clusters, spawning>>
  BY DEF OpenTerminalInPane, AddTerminalInPane
<1>3. c \in LiveClusters
  BY DEF OpenTerminalInPane, LayoutInv, ShowsItsOwn, LiveClusters
<1>4. \A u \in terminals' : clusterOf'[u] = c \/ (u \in terminals /\ clusterOf'[u] = clusterOf[u])
  BY <1>1, <1>2 DEF TypeOK, TerminalsType
<1> HIDE DEF t, c
<1> QED BY <1>2, <1>3, <1>4, ReachGiven

LEMMA MoveTerminalReach ==
  ASSUME TypeOK, LayoutInv, ReachInv, NEW t \in Terminal, NEW w \in Label, MoveTerminal(t, w)
  PROVE  ReachInv'
<1> DEFINE c == activeCluster[w]
<1>1. /\ clusterOf' = [u \in Terminal |-> IF u = t /\ u \in terminals THEN c ELSE clusterOf[u]]
      /\ UNCHANGED <<windows, clusters, terminals, spawning>>
  BY DEF MoveTerminal
<1>2. c \in LiveClusters
  BY DEF MoveTerminal, LayoutInv, ShowsItsOwn, LiveClusters
<1>3. \A u \in terminals' : clusterOf'[u] = c \/ (u \in terminals /\ clusterOf'[u] = clusterOf[u])
  BY <1>1 DEF TypeOK, TerminalsType
<1> HIDE DEF c
<1> QED BY <1>1, <1>2, <1>3, ReachGiven

LEMMA CloseTerminalReach ==
  ASSUME TypeOK, ReachInv, NEW t \in Terminal, CloseTerminal(t)
  PROVE  ReachInv'
<1>1. LiveClusters' = LiveClusters
  BY DEF CloseTerminal, LiveClusters
<1>2. \A u \in terminals' : u \in terminals /\ clusterOf'[u] = clusterOf[u]
  BY DEF CloseTerminal, TypeOK, TerminalsType
<1> QED BY <1>1, <1>2 DEF ReachInv, TerminalsReachable, CloseTerminal

(* A restart gives a terminal whose cluster is gone a live one, and keeps  *)
(* none where there is no cluster.                                         *)
LEMMA RestartReach ==
  ASSUME TypeOK, Restart
  PROVE  ReachInv'
<1>1. LiveClusters' = LiveClusters /\ spawning' = {}
  BY DEF Restart, LiveClusters
<1>2. terminals' \subseteq KeptTerminals /\ (LiveClusters = {} => terminals' = {})
  BY DEF Restart
<1>3. KeptTerminals \subseteq Terminal
  BY DEF KeptTerminals, TypeOK, TerminalsType
<1>4. PICK fallback \in LiveClusters \cup {None} :
        /\ (fallback = None) = (LiveClusters = {})
        /\ clusterOf' = [t \in Terminal |->
             IF t \notin KeptTerminals THEN None
             ELSE IF clusterOf[t] \in LiveClusters THEN clusterOf[t] ELSE fallback]
  BY DEF Restart
<1>5. LiveClusters # {} => fallback \in LiveClusters
  BY <1>4
<1>6. \A t \in KeptTerminals : clusterOf'[t] \in LiveClusters \/ clusterOf'[t] = fallback
  BY <1>3, <1>4
<1> QED BY <1>1, <1>2, <1>5, <1>6 DEF ReachInv, TerminalsReachable

(* Everything else leaves the terminals and the clusters as they are. *)
LEMMA ReachNext ==
  ASSUME ~WorkerSpawns, TypeOK, LayoutInv, ReachInv, [Next]_vars
  PROVE  ReachInv'
<1>1. ASSUME NEW t \in Terminal, SplitTerminal(t) PROVE ReachInv'
  <2> DEFINE c == clusterOf[t]
  <2>1. AddTerminal(c, t)
    BY <1>1 DEF SplitTerminal
  <2> HIDE DEF c
  <2> QED BY <2>1, AddTerminalReach
<1>2. ASSUME NEW w \in Label, CreateTerminal(w) PROVE ReachInv'
  <2> DEFINE c == activeCluster[w]
             t == NextTerminal
  <2>1. AddTerminal(c, t)
    BY <1>2 DEF CreateTerminal
  <2> HIDE DEF c, t
  <2> QED BY <2>1, AddTerminalReach
<1>3. ASSUME NEW c \in ClusterId, NEW p \in PaneId, WorkerSpawn(c, p) PROVE FALSE
  BY <1>3 DEF WorkerSpawn
<1>4. ASSUME NEW x \in spawning PROVE FALSE
  BY <1>4 DEF ReachInv
<1>5. ASSUME UNCHANGED <<windows, clusters, terminals, clusterOf, spawning>> PROVE ReachInv'
  BY <1>5, ReachStep DEF LiveClusters
<1>6. CASE \E w \in Label, c \in ClusterId \cup {None} : SetActiveCluster(w, c)
  BY <1>5, <1>6 DEF SetActiveCluster
<1>7. ASSUME NEW app \in Apps, NEW w \in Label, NEW p \in PaneId \cup {None}, NEW split \in BOOLEAN,
             OpenInstance(app, w, p, split)
      PROVE  ReachInv'
  BY <1>5, <1>7 DEF OpenInstance
<1>8. CASE \E s \in Surface : CloseInstance(s)
  BY <1>5, <1>8 DEF CloseInstance
<1>9. CASE \E w \in Label, c \in ClusterId : ActivateInstance(w, c)
  BY <1>5, <1>9 DEF ActivateInstance
<1>10. ASSUME NEW s \in Surface, NEW w \in Label, NEW c \in ClusterId, NEW p \in PaneId,
              MoveInstance(s, w, c, p)
       PROVE  ReachInv'
  BY <1>5, <1>10 DEF MoveInstance
<1>11. ASSUME NEW s \in Surface, NEW w \in Label, NEW c \in ClusterId, NEW p \in PaneId,
              SplitWithInstance(s, w, c, p)
       PROVE  ReachInv'
  BY <1>5, <1>11 DEF SplitWithInstance
<1>12. CASE \E c \in ClusterId, t \in Terminal \cup {NoSurface} : SetActiveTerminal(c, t)
  BY <1>5, <1>12 DEF SetActiveTerminal
<1>13. CASE UNCHANGED vars
  BY <1>5, <1>13 DEF vars
<1> QED BY <1>1, <1>2, <1>3, <1>4, <1>6, <1>7, <1>8, <1>9, <1>10, <1>11, <1>12, <1>13,
           AddClusterReach, NewWindowReach, CloseClusterReach, MoveClusterReach,
           CloseWindowReach, DetachInstanceReach, OpenTerminalInPaneReach,
           CloseTerminalReach, MoveTerminalReach, RestartReach DEF Next

(* Every terminal names a live cluster through any sequence of closes,     *)
(* moves, merges, stale drops and restarts, as long as every terminal is   *)
(* opened on the main thread; a worker that opens one while its cluster    *)
(* closes leaves it with none.                                             *)
THEOREM TerminalsAlwaysReachable ==
  ASSUME ~WorkerSpawns
  PROVE  Spec => []TerminalsReachable
<1>1. Init => ReachInv
  BY DEF Init, ReachInv, TerminalsReachable
<1>2. TypeOK /\ LayoutInv /\ ReachInv /\ [Next]_vars => ReachInv'
  BY ReachNext
<1>3. ReachInv => TerminalsReachable
  BY DEF ReachInv
<1> QED BY <1>1, <1>2, <1>3, LayoutHolds, PTL DEF Spec

=============================================================================
