-------------------------- MODULE OpenFiles_proofs --------------------------
(* Proofs about the Viewer's open files, for any files, sessions and bounds:   *)
(* what is drawn clean was stored, no save replaces what its buffer does not   *)
(* know, and unsaved work leaves only when its user lets it go, each without   *)
(* the races of `Races` it cannot stand.                                      *)
EXTENDS OpenFiles, FiniteSetTheorems, TLAPS

-----------------------------------------------------------------------------
(* Tabs, buffers, saves and the viewer belong together, whatever races.        *)

Told == {"viewer", "overwrite"}
SaveTable == [Paths -> Saves \cup {None}]
TabTable == [Paths -> Tabs \cup {None}]
DocTable == [Paths -> Documents \cup {None}]

\* a save in flight holds a buffer that is there, or none
FitDocs(svs, ds) == \A q \in Paths : svs[q] # None /\ svs[q].doc # None => ds[svs[q].doc] # None
\* a save that will tell the viewer is of the file it shows
FitTold(svs, shown, edits) ==
    \A q \in Paths : svs[q] # None /\ svs[q].callers \cap Told # {} => q = shown /\ edits
\* a buffer has a tab, and so has the question whether to close over it
FitTabs(ts, ds) ==
    \A q \in Paths : /\ ds[q] # None => ts[q] # None
                     /\ ts[q] # None /\ ts[q].asks = "closing" => ds[q] # None
\* the viewer shows what is open, with the buffer it edits
FitPane(pn, shown, ts, ds) ==
    /\ shown = None <=> pn.at = "empty"
    /\ shown # None => ts[shown] # None
    /\ pn.at \in {"editing", "conflict"} => ds[shown] # None
    /\ pn.at \in {"timed", "read"} => pn.mtime # None
    /\ pn.at = "read" => pn.text # None

Shape ==
    /\ FitDocs(saving, docs) /\ FitTold(saving, active, Editing)
    /\ FitTabs(tabs, docs) /\ FitPane(pane, active, tabs, docs)
Base == TypeOK /\ Shape

-----------------------------------------------------------------------------
(* Patches of records.                                                        *)

\* a save as it goes on: only whose buffer it holds and whom it tells may change
Same(s, t) ==
    /\ t.text = s.text /\ t.base = s.base /\ t.knows = s.knows
    /\ t.at = s.at /\ t.mtime = s.mtime /\ t.found = s.found

LEMMA SaveFollows ==
  ASSUME NEW s \in Saves, NEW doc \in Paths \cup {None}, NEW t, t = [s EXCEPT !.doc = doc]
  PROVE  t \in Saves /\ t # None /\ t.doc = doc /\ t.callers = s.callers /\ Same(s, t)
<1>1. t \in Saves /\ t.doc = doc /\ t.callers = s.callers /\ Same(s, t)
  BY DEF Saves, Same
<1> QED BY <1>1, NoneIsNothing

LEMMA SaveTells ==
  ASSUME NEW s \in Saves, NEW callers \in SUBSET {"viewer", "overwrite", "close"}, NEW t,
         t = [s EXCEPT !.callers = callers]
  PROVE  t \in Saves /\ t # None /\ t.doc = s.doc /\ t.callers = callers /\ Same(s, t)
<1>1. t \in Saves /\ t.doc = s.doc /\ t.callers = callers /\ Same(s, t)
  BY DEF Saves, Same
<1> QED BY <1>1, NoneIsNothing

LEMMA SaveMoves ==
  ASSUME NEW s \in Saves, NEW at \in {"sent", "checked", "replaced", "written", "stale", "failed"}, NEW t,
         t = [s EXCEPT !.at = at]
  PROVE  /\ t \in Saves /\ t # None /\ t.at = at /\ t.doc = s.doc /\ t.callers = s.callers
         /\ t.text = s.text /\ t.base = s.base /\ t.knows = s.knows /\ t.mtime = s.mtime /\ t.found = s.found
<1>1. /\ t \in Saves /\ t.at = at /\ t.doc = s.doc /\ t.callers = s.callers
      /\ t.text = s.text /\ t.base = s.base /\ t.knows = s.knows /\ t.mtime = s.mtime /\ t.found = s.found
  BY DEF Saves
<1> QED BY <1>1, NoneIsNothing

\* what a step that writes nothing leaves as it is of the saves in flight
Carries(svs, new) ==
    \A q \in Paths :
       /\ new[q] = None <=> svs[q] = None
       /\ svs[q] # None => Same(svs[q], new[q]) /\ new[q].callers \subseteq svs[q].callers
SameDocs(svs, new) == \A q \in Paths : svs[q] # None => new[q].doc = svs[q].doc
SameCallers(svs, new) == \A q \in Paths : svs[q] # None => new[q].callers = svs[q].callers
DocsFollow(svs, new, p, to) ==
    \A q \in Paths : svs[q] # None => new[q].doc = (IF svs[q].doc = p THEN to ELSE svs[q].doc)

(* A save that follows its buffer changes in nothing else. *)
LEMMA FollowsCarries ==
  ASSUME NEW svs \in SaveTable, NEW p \in Paths, NEW to \in Paths \cup {None}
  PROVE  /\ Follows(svs, p, to) \in SaveTable /\ Carries(svs, Follows(svs, p, to))
         /\ SameCallers(svs, Follows(svs, p, to)) /\ DocsFollow(svs, Follows(svs, p, to), p, to)
<1> DEFINE new == Follows(svs, p, to)
<1>1. \A q \in Paths : new[q] = IF svs[q] # None /\ svs[q].doc = p THEN [svs[q] EXCEPT !.doc = to] ELSE svs[q]
  BY DEF Follows
<1>2. new = [q \in Paths |-> new[q]]
  BY DEF Follows
<1> HIDE DEF new
<1>3. ASSUME NEW q \in Paths
      PROVE  /\ new[q] \in Saves \cup {None} /\ (new[q] = None <=> svs[q] = None)
             /\ svs[q] # None =>
                  /\ Same(svs[q], new[q])
                  /\ new[q].callers = svs[q].callers
                  /\ new[q].doc = (IF svs[q].doc = p THEN to ELSE svs[q].doc)
  <2>1. CASE svs[q] # None /\ svs[q].doc = p
    <3>1. svs[q] \in Saves /\ new[q] = [svs[q] EXCEPT !.doc = to]
      BY <1>1, <2>1 DEF SaveTable
    <3>2. new[q] \in Saves /\ new[q] # None /\ new[q].doc = to /\ new[q].callers = svs[q].callers
          /\ Same(svs[q], new[q])
      BY <3>1, SaveFollows
    <3> QED BY <2>1, <3>2
  <2>2. CASE ~(svs[q] # None /\ svs[q].doc = p)
    BY <1>1, <2>2 DEF SaveTable, Same
  <2> QED BY <2>1, <2>2
<1>4. new \in SaveTable
  BY <1>2, <1>3 DEF SaveTable
<1> QED BY <1>3, <1>4 DEF new, Carries, SameCallers, DocsFollow

(* A viewer that goes leaves its saves to go on. *)
LEMMA UnmountedCarries ==
  ASSUME NEW svs \in SaveTable
  PROVE  /\ Unmounted(svs) \in SaveTable /\ Carries(svs, Unmounted(svs)) /\ SameDocs(svs, Unmounted(svs))
         /\ \A q \in Paths : svs[q] # None => Unmounted(svs)[q].callers \cap Told = {}
<1> DEFINE new == Unmounted(svs)
<1>1. \A q \in Paths : new[q] = IF svs[q] = None THEN None
                                ELSE [svs[q] EXCEPT !.callers = svs[q].callers \ Told]
  BY DEF Unmounted, Told
<1>2. new = [q \in Paths |-> new[q]]
  BY DEF Unmounted
<1> HIDE DEF new
<1>3. ASSUME NEW q \in Paths
      PROVE  /\ new[q] \in Saves \cup {None} /\ (new[q] = None <=> svs[q] = None)
             /\ svs[q] # None =>
                  /\ Same(svs[q], new[q])
                  /\ new[q].callers \subseteq svs[q].callers /\ new[q].callers \cap Told = {}
                  /\ new[q].doc = svs[q].doc
  <2>1. CASE svs[q] # None
    <3>1. svs[q] \in Saves /\ new[q] = [svs[q] EXCEPT !.callers = svs[q].callers \ Told]
      BY <1>1, <2>1 DEF SaveTable
    <3>2. svs[q].callers \ Told \in SUBSET {"viewer", "overwrite", "close"}
      BY <3>1 DEF Saves
    <3>3. new[q] \in Saves /\ new[q] # None /\ new[q].doc = svs[q].doc
          /\ new[q].callers = svs[q].callers \ Told /\ Same(svs[q], new[q])
      BY <3>1, <3>2, SaveTells
    <3> QED BY <2>1, <3>3
  <2>2. CASE svs[q] = None
    BY <1>1, <2>2
  <2> QED BY <2>1, <2>2
<1>4. new \in SaveTable
  BY <1>2, <1>3 DEF SaveTable
<1> QED BY <1>3, <1>4 DEF new, Carries, SameDocs

(* Nothing carries on as itself, and what carries on twice carries on. *)
LEMMA CarriesOn ==
  ASSUME NEW a \in SaveTable, NEW b \in SaveTable, NEW c \in SaveTable
  PROVE  Carries(a, a) /\ SameDocs(a, a) /\ (Carries(a, b) /\ Carries(b, c) => Carries(a, c))
BY DEF Carries, SameDocs, Same

-----------------------------------------------------------------------------
(* What the viewer shows next.                                                *)

(* A viewer that has just been mounted edits a buffer that is there, or asks. *)
LEMMA MountedFits ==
  ASSUME NEW p \in Paths \cup {None}, NEW ds, NEW ts, p # None => ts[p] # None
  PROVE  Mounted(p, ds) \in Panes /\ FitPane(Mounted(p, ds), p, ts, ds)
BY NoneIsNothing DEF Mounted, Pane, Panes, Times, FitPane

(* Showing a file leaves the viewer as it is or mounts a new one, and the     *)
(* saves of the old one tell nobody.                                          *)
LEMMA ShowsFits ==
  ASSUME TypeOK, Shape, NEW p \in Paths \cup {None}, NEW again \in BOOLEAN, NEW svs \in SaveTable,
         Shows(p, again, svs), p # None => tabs'[p] # None,
         Editing /\ p = active /\ ~again => docs'[p] # None, FitTold(svs, active, Editing)
  PROVE  /\ active' \in Paths \cup {None} /\ pane' \in Panes /\ saving' \in SaveTable
         /\ FitPane(pane', active', tabs', docs') /\ FitTold(saving', active', Editing')
         /\ Carries(svs, saving') /\ SameDocs(svs, saving')
         /\ active' = p /\ ((p = active /\ ~again /\ pane' = pane) \/ pane' = Mounted(p, docs'))
<1>1. CASE p = active /\ ~again
  <2>1. active' = active /\ pane' = pane /\ saving' = svs
    BY <1>1 DEF Shows
  <2>2. Carries(svs, saving') /\ SameDocs(svs, saving')
    BY <2>1, CarriesOn
  <2>3. FitPane(pane', active', tabs', docs')
    BY <1>1, <2>1 DEF Shape, FitPane, Editing
  <2>4. FitTold(saving', active', Editing')
    BY <2>1 DEF Editing
  <2> QED BY <1>1, <2>1, <2>2, <2>3, <2>4 DEF TypeOK
<1>2. CASE ~(p = active /\ ~again)
  <2>1. active' = p /\ pane' = Mounted(p, docs') /\ saving' = Unmounted(svs)
    BY <1>2 DEF Shows
  <2>2. Mounted(p, docs') \in Panes /\ FitPane(Mounted(p, docs'), p, tabs', docs')
    BY MountedFits
  <2>3. /\ saving' \in SaveTable /\ Carries(svs, saving') /\ SameDocs(svs, saving')
        /\ \A q \in Paths : svs[q] # None => saving'[q].callers \cap Told = {}
    BY <2>1, UnmountedCarries
  <2>4. FitTold(saving', active', Editing')
    BY <2>3 DEF FitTold, Carries
  <2> QED BY <2>1, <2>2, <2>3, <2>4
<1> QED BY <1>1, <1>2

(* A tab patched keeps its place, and mostly what it asks. *)
LEMMA Promoted ==
  ASSUME NEW ts \in TabTable, NEW ps \in SUBSET Paths
  PROVE  /\ promote(ts, ps) \in TabTable
         /\ \A q \in Paths : (promote(ts, ps)[q] = None <=> ts[q] = None)
                             /\ (ts[q] # None => promote(ts, ps)[q].asks = ts[q].asks)
<1> DEFINE new == promote(ts, ps)
<1>1. \A q \in Paths : new[q] = IF q \in ps /\ ts[q] # None THEN [ts[q] EXCEPT !.preview = FALSE] ELSE ts[q]
  BY DEF promote
<1>2. new = [q \in Paths |-> new[q]]
  BY DEF promote
<1> HIDE DEF new
<1>3. ASSUME NEW q \in Paths
      PROVE  /\ new[q] \in Tabs \cup {None} /\ (new[q] = None <=> ts[q] = None)
             /\ ts[q] # None => new[q].asks = ts[q].asks
  <2>1. CASE q \in ps /\ ts[q] # None
    <3>1. ts[q] \in Tabs /\ new[q] = [ts[q] EXCEPT !.preview = FALSE]
      BY <1>1, <2>1 DEF TabTable
    <3>2. new[q] \in Tabs /\ new[q].asks = ts[q].asks
      BY <3>1 DEF Tabs
    <3> QED BY <2>1, <3>2, NoneIsNothing
  <2>2. CASE ~(q \in ps /\ ts[q] # None)
    BY <1>1, <2>2 DEF TabTable
  <2> QED BY <2>1, <2>2
<1>4. new \in TabTable
  BY <1>2, <1>3 DEF TabTable
<1> QED BY <1>3, <1>4 DEF new

\* ts and new have the same tabs
SameTabs(ts, new) == \A q \in Paths : new[q] = None <=> ts[q] = None

(* One tab asks something, or nothing any more. *)
LEMMA NoticedTabs ==
  ASSUME NEW ts \in TabTable, NEW p \in Paths, NEW asks \in {"nothing", "closing", "failed", "changed"}
  PROVE  /\ Noticed(ts, p, asks) \in TabTable /\ SameTabs(ts, Noticed(ts, p, asks))
         /\ \A q \in Paths \ {p} : Noticed(ts, p, asks)[q] = ts[q]
         /\ ts[p] # None => Noticed(ts, p, asks)[p].asks = asks
<1>1. CASE ts[p] = None
  BY <1>1 DEF Noticed, SameTabs
<1>2. CASE ts[p] # None
  <2> DEFINE t == [ts[p] EXCEPT !.asks = asks]
  <2>1. ts[p] \in Tabs
    BY <1>2 DEF TabTable
  <2>2. t \in Tabs /\ t.asks = asks
    BY <2>1 DEF Tabs
  <2>3. Noticed(ts, p, asks) = [ts EXCEPT ![p] = t]
    BY <1>2 DEF Noticed
  <2> DEFINE new == Noticed(ts, p, asks)
  <2> HIDE DEF t, new
  <2>4. new = [ts EXCEPT ![p] = t]
    BY <2>3 DEF new
  <2>5. new \in TabTable /\ SameTabs(ts, new) /\ new[p] = t /\ \A q \in Paths \ {p} : new[q] = ts[q]
    BY <1>2, <2>2, <2>4, NoneIsNothing DEF TabTable, SameTabs
  <2> QED BY <2>2, <2>5 DEF new
<1> QED BY <1>1, <1>2

-----------------------------------------------------------------------------
(* Steps that write nothing: buffers go or stay, and the viewer shows one.     *)

View(svs) ==
    /\ \A q \in Paths : docs'[q] \in {docs[q], None}
    /\ Carries(svs, saving') /\ \A q \in Paths : svs[q] # None => saving'[q].doc \in {svs[q].doc, None}
    /\ \/ active' = active /\ pane' = pane /\ (active # None => docs'[active] = docs[active])
       \/ pane' = Mounted(active', docs')

Fits ==
    /\ tabs' \in TabTable /\ docs' \in DocTable /\ saving' \in SaveTable
    /\ active' \in Paths \cup {None} /\ pane' \in Panes /\ Shape'

(* What a buffer leaves behind when it goes. *)
LEMMA RemovalFits ==
  ASSUME Base, NEW p \in Paths, NEW svs \in SaveTable, NEW next \in Paths \cup {None}, NEW again \in BOOLEAN,
         FitDocs(svs, docs), FitTold(svs, active, Editing),
         docs' = [docs EXCEPT ![p] = None], tabs' \in TabTable, FitTabs(tabs', docs'),
         next # None => tabs'[next] # None, next = active /\ ~again => active # p,
         Shows(next, again, Follows(svs, p, None))
  PROVE  Fits /\ View(svs)
<1> DEFINE left == Follows(svs, p, None)
<1>1. /\ left \in SaveTable /\ Carries(svs, left)
      /\ SameCallers(svs, left) /\ DocsFollow(svs, left, p, None)
  BY FollowsCarries
<1>2. Shows(next, again, left)
  OBVIOUS
<1> HIDE DEF left
<1>3. docs' \in DocTable /\ docs'[p] = None /\ \A q \in Paths \ {p} : docs'[q] = docs[q]
  BY DEF Base, TypeOK, DocTable
<1>4. FitTold(left, active, Editing)
  BY <1>1 DEF FitTold, SameCallers, Carries
<1>5. Editing /\ next = active /\ ~again => docs'[next] # None
  BY <1>3, NoneIsNothing DEF Base, Shape, FitPane, Editing
<1>6. /\ active' \in Paths \cup {None} /\ pane' \in Panes /\ saving' \in SaveTable
      /\ FitPane(pane', active', tabs', docs') /\ FitTold(saving', active', Editing')
      /\ Carries(left, saving') /\ SameDocs(left, saving')
      /\ active' = next /\ ((next = active /\ ~again /\ pane' = pane) \/ pane' = Mounted(next, docs'))
  BY <1>1, <1>2, <1>4, <1>5, ShowsFits DEF Base
<1>7. Carries(svs, saving')
  BY <1>1, <1>6, CarriesOn
<1>8. \A q \in Paths : svs[q] # None =>
        saving'[q].doc = (IF svs[q].doc = p THEN None ELSE svs[q].doc)
  BY <1>1, <1>6 DEF SameDocs, DocsFollow, Carries
<1>9. FitDocs(saving', docs')
  <2>1. ASSUME NEW q \in Paths, saving'[q] # None, saving'[q].doc # None
        PROVE  docs'[saving'[q].doc] # None
    <3>1. svs[q] # None /\ svs[q].doc # p /\ saving'[q].doc = svs[q].doc /\ svs[q].doc # None
      BY <1>7, <1>8, <2>1 DEF Carries
    <3>2. docs[svs[q].doc] # None
      BY <3>1 DEF FitDocs
    <3>3. svs[q].doc \in Paths
      BY <3>1 DEF SaveTable, Saves
    <3> QED BY <1>3, <3>1, <3>2, <3>3
  <2> QED BY <2>1 DEF FitDocs
<1>10. active # None /\ next = active /\ ~again => docs'[active] = docs[active]
  BY <1>3 DEF Base, TypeOK
<1>11. View(svs)
  BY <1>3, <1>6, <1>7, <1>8, <1>10 DEF View
<1> QED BY <1>3, <1>6, <1>9, <1>11 DEF Fits, Shape

(* A tab that closes. *)
LEMMA DropFits ==
  ASSUME Base, NEW p \in Paths, NEW svs \in SaveTable,
         FitDocs(svs, docs), FitTold(svs, active, Editing), drop(p, svs)
  PROVE  /\ Fits /\ View(svs)
         /\ \A q \in Paths : tabs'[q] \in {tabs[q], None} /\ (q # p => docs'[q] = docs[q])
<1>1. CASE tabs[p] = None
  <2>1. UNCHANGED <<tabs, docs, active, pane>> /\ saving' = svs
    BY <1>1 DEF drop
  <2>2. Carries(svs, saving') /\ FitTold(saving', active', Editing')
    BY <2>1, CarriesOn DEF Editing
  <2> QED BY <2>1, <2>2 DEF Base, TypeOK, Fits, View, Shape, TabTable, DocTable
<1>2. CASE tabs[p] # None
  <2>1. docs' = [docs EXCEPT ![p] = None] /\ tabs' = [tabs EXCEPT ![p] = None]
    BY <1>2 DEF drop
  <2>2. PICK next \in Paths \cup {None} :
          /\ IF active # p THEN next = active
             ELSE IF \A q \in Paths : tabs'[q] = None THEN next = None
             ELSE next # None /\ tabs'[next] # None
          /\ Shows(next, FALSE, Follows(svs, p, None))
    BY <1>2 DEF drop
  <2>3. /\ tabs' \in TabTable /\ tabs'[p] = None /\ \A q \in Paths \ {p} : tabs'[q] = tabs[q]
        /\ docs'[p] = None /\ \A q \in Paths \ {p} : docs'[q] = docs[q]
    BY <2>1 DEF Base, TypeOK, TabTable, DocTable
  <2>4. FitTabs(tabs', docs')
    BY <2>3 DEF Base, Shape, FitTabs
  <2>5. next # None => tabs'[next] # None
    BY <2>2, <2>3 DEF Base, Shape, FitPane
  <2>6. next = active => active # p
    BY <2>2, <2>3, NoneIsNothing
  <2>7. Fits /\ View(svs)
    BY <2>1, <2>2, <2>3, <2>4, <2>5, <2>6, RemovalFits
  <2> QED BY <2>3, <2>7
<1> QED BY <1>1, <1>2

(* A tab that reads its file again. *)
LEMMA ReloadFits ==
  ASSUME Base, NEW p \in Paths, tabs[p] # None, docs' = [docs EXCEPT ![p] = None],
         tabs' \in TabTable, SameTabs(tabs, tabs'), tabs'[p].asks = "nothing",
         \A q \in Paths \ {p} : tabs'[q] = tabs[q],
         Shows(active, p = active, Follows(saving, p, None))
  PROVE  Fits /\ View(saving) /\ \A q \in Paths : q # p => docs'[q] = docs[q]
<1>1. docs'[p] = None /\ \A q \in Paths \ {p} : docs'[q] = docs[q]
  BY DEF Base, TypeOK
<1>2. FitTabs(tabs', docs')
  BY <1>1 DEF Base, Shape, FitTabs, SameTabs
<1>3. active # None => tabs'[active] # None
  BY DEF Base, Shape, FitPane, SameTabs, TypeOK
<1>4. /\ saving \in SaveTable /\ FitDocs(saving, docs) /\ FitTold(saving, active, Editing)
      /\ active \in Paths \cup {None} /\ (p = active) \in BOOLEAN
  BY DEF Base, TypeOK, Shape, SaveTable
<1>5. Fits /\ View(saving)
  BY <1>2, <1>3, <1>4, RemovalFits
<1> QED BY <1>1, <1>5

\* what a step that writes nothing does, for whichever invariant
ViewStep ==
    /\ Base' /\ View(saving) /\ UNCHANGED <<disk, held, clock, moving>>
    /\ \A q \in Paths : tabs[q] = None /\ tabs'[q] # None => NotTaken(q)
    /\ Answers \/ dropUnder \/ \A q \in Paths : isDirty(q) => docs'[q] = docs[q]

LEMMA GestureTyped ==
  ASSUME TypeOK, NEW kind, Gesture(kind)
  PROVE  gestures' \in [kinds : SUBSET AllKinds, left : Nat]
BY DEF TypeOK, Gesture

LEMMA CallsTyped ==
  ASSUME NEW ts \in TabTable, NEW p \in Paths
  PROVE  restat(p) \in Calls /\ poll(ts) \subseteq Calls
<1>1. restat(p) \in Calls
  BY DEF restat, Call, Calls, Tab, Times
<1>2. ASSUME NEW q \in Paths, ts[q] # None
      PROVE  Call("poll", q, ts[q]) \in Calls
  BY <1>2 DEF TabTable, Tabs, Call, Calls, Times
<1> QED BY <1>1, <1>2 DEF poll

LEMMA TabIsNew ==
  ASSUME NEW preview \in BOOLEAN
  PROVE  Tab(preview) \in Tabs /\ Tab(preview) # None /\ Tab(preview).asks = "nothing"
<1>1. Tab(preview) \in Tabs /\ Tab(preview).asks = "nothing"
  BY DEF Tab, Tabs, Times
<1> QED BY <1>1, NoneIsNothing

(* Another tab shows, and every buffer stays. *)
LEMMA OtherTabFits ==
  ASSUME Base, NEW p \in Paths, tabs' \in TabTable, docs' = docs, FitTabs(tabs', docs'),
         tabs'[p] # None, Shows(p, FALSE, saving)
  PROVE  Fits /\ View(saving)
<1>1. saving \in SaveTable /\ FitTold(saving, active, Editing) /\ docs \in DocTable
  BY DEF Base, TypeOK, Shape, SaveTable, DocTable
<1>2. Editing /\ p = active => docs'[p] # None
  BY DEF Base, Shape, FitPane, Editing
<1>3. /\ active' \in Paths \cup {None} /\ pane' \in Panes /\ saving' \in SaveTable
      /\ FitPane(pane', active', tabs', docs') /\ FitTold(saving', active', Editing')
      /\ Carries(saving, saving') /\ SameDocs(saving, saving')
      /\ active' = p /\ ((p = active /\ pane' = pane) \/ pane' = Mounted(p, docs'))
  <2>1. TypeOK /\ Shape /\ p \in Paths \cup {None} /\ FALSE \in BOOLEAN
        /\ Shows(p, FALSE, saving) /\ (p # None => tabs'[p] # None)
        /\ (Editing /\ p = active /\ ~FALSE => docs'[p] # None)
    BY <1>2 DEF Base
  <2> QED BY <1>1, <2>1, ShowsFits
<1>4. FitDocs(saving', docs')
  BY <1>3 DEF Base, Shape, FitDocs, Carries, SameDocs
<1>5. View(saving)
  BY <1>3 DEF View, SameDocs
<1> QED BY <1>1, <1>3, <1>4, <1>5 DEF Fits, Shape

LEMMA OpenAgainViews ==
  ASSUME Base, NEW p \in Paths, NEW flag \in BOOLEAN, OpenAgain(p, flag) \/ activate(p, flag)
  PROVE  ViewStep
<1>1. /\ docs' = docs /\ Shows(p, FALSE, saving) /\ UNCHANGED <<disk, held, moving, deleting, clock>>
      /\ tabs' = tabs \/ tabs' = promote(tabs, {p})
      /\ tabs[p] # None /\ (stats' = stats \cup {restat(p)} \/ stats' = stats \cup poll(tabs'))
      /\ Gesture("open") \/ Gesture("look")
  BY DEF OpenAgain, activate, Asks, files, idle
<1>2. tabs \in TabTable /\ {p} \in SUBSET Paths
  BY DEF Base, TypeOK, TabTable
<1>3. tabs' \in TabTable /\ SameTabs(tabs, tabs') /\ \A q \in Paths : tabs[q] # None => tabs'[q].asks = tabs[q].asks
  BY <1>1, <1>2, Promoted DEF SameTabs
<1>4. FitTabs(tabs', docs') /\ tabs'[p] # None
  BY <1>1, <1>3 DEF Base, Shape, FitTabs, SameTabs
<1>5. Fits /\ View(saving)
  BY <1>1, <1>3, <1>4, OtherTabFits
<1>6. stats' \subseteq Calls
  BY <1>1, <1>3, CallsTyped DEF Base, TypeOK
<1>7. Base'
  BY <1>1, <1>5, <1>6, GestureTyped DEF Base, TypeOK, Fits, TabTable, DocTable, SaveTable
<1> QED BY <1>1, <1>3, <1>5, <1>7 DEF ViewStep, SameTabs

LEMMA OpenBesideViews ==
  ASSUME Base, NEW p \in Paths, NEW flag \in BOOLEAN, OpenBeside(p, flag)
  PROVE  ViewStep
<1>1. /\ docs' = docs /\ Shows(p, FALSE, saving) /\ UNCHANGED <<disk, held, moving, deleting, clock>>
      /\ tabs' = [promote(tabs, Paths) EXCEPT ![p] = Tab(flag)] /\ NotTaken(p)
      /\ tabs[p] = None /\ stats' = stats \cup {restat(p)} /\ Gesture("open")
  BY DEF OpenBeside, Asks, files, idle
<1>2. tabs \in TabTable /\ Paths \in SUBSET Paths
  BY DEF Base, TypeOK, TabTable
<1> DEFINE ts == promote(tabs, Paths)
<1>3. ts \in TabTable /\ \A q \in Paths : (ts[q] = None <=> tabs[q] = None) /\ (tabs[q] # None => ts[q].asks = tabs[q].asks)
  BY <1>2, Promoted
<1>4. tabs' = [ts EXCEPT ![p] = Tab(flag)]
  BY <1>1
<1> HIDE DEF ts
<1>5. Tab(flag) \in Tabs /\ Tab(flag) # None /\ Tab(flag).asks = "nothing"
  BY TabIsNew
<1>6. tabs' \in TabTable /\ tabs'[p] = Tab(flag) /\ \A q \in Paths \ {p} : tabs'[q] = ts[q]
  BY <1>3, <1>4, <1>5 DEF TabTable
<1>7. FitTabs(tabs', docs')
  BY <1>1, <1>3, <1>5, <1>6 DEF Base, Shape, FitTabs
<1>8. Fits /\ View(saving)
  BY <1>1, <1>5, <1>6, <1>7, OtherTabFits
<1>9. stats' \subseteq Calls
  BY <1>1, <1>2, CallsTyped DEF Base, TypeOK
<1>10. Base'
  BY <1>1, <1>8, <1>9, GestureTyped DEF Base, TypeOK, Fits, TabTable, DocTable, SaveTable
<1> QED BY <1>1, <1>3, <1>6, <1>8, <1>10 DEF ViewStep

LEMMA OpenInSlotViews ==
  ASSUME Base, NEW p \in Paths, OpenInSlot(p)
  PROVE  ViewStep
<1>1. /\ UNCHANGED <<disk, held, moving, deleting, clock>> /\ NotTaken(p)
      /\ tabs[p] = None /\ stats' = stats \cup {restat(p)} /\ Gesture("open")
  BY DEF OpenInSlot, Asks, files, idle
<1>2. PICK slot \in Paths :
        /\ isSpare(slot) /\ docs' = [docs EXCEPT ![slot] = None]
        /\ tabs' = [tabs EXCEPT ![slot] = None, ![p] = Tab(TRUE)]
        /\ Shows(p, FALSE, Follows(saving, slot, None))
  BY DEF OpenInSlot
<1>3. slot # p /\ ~isDirty(slot) /\ tabs[slot] # None
  BY <1>1, <1>2 DEF isSpare
<1>4. Tab(TRUE) \in Tabs /\ Tab(TRUE) # None /\ Tab(TRUE).asks = "nothing"
  BY TabIsNew
<1>5. /\ tabs' \in TabTable /\ tabs'[p] = Tab(TRUE) /\ tabs'[slot] = None
      /\ \A q \in Paths \ {p, slot} : tabs'[q] = tabs[q]
  BY <1>2, <1>3, <1>4 DEF Base, TypeOK, TabTable
<1>6. docs'[slot] = None /\ \A q \in Paths \ {slot} : docs'[q] = docs[q]
  BY <1>2 DEF Base, TypeOK
<1>7. FitTabs(tabs', docs')
  BY <1>1, <1>4, <1>5, <1>6 DEF Base, Shape, FitTabs
<1>8. saving \in SaveTable /\ FitDocs(saving, docs) /\ FitTold(saving, active, Editing)
  BY DEF Base, TypeOK, Shape, SaveTable
<1>9. p # active
  BY <1>1, NoneIsNothing DEF Base, Shape, FitPane
<1>10. Fits /\ View(saving)
  BY <1>2, <1>4, <1>5, <1>7, <1>8, <1>9, RemovalFits
<1>11. stats' \subseteq Calls
  BY <1>1, CallsTyped DEF Base, TypeOK, TabTable
<1>12. Base'
  BY <1>1, <1>10, <1>11, GestureTyped DEF Base, TypeOK, Fits, TabTable, DocTable, SaveTable
<1> QED BY <1>1, <1>3, <1>5, <1>6, <1>10, <1>12 DEF ViewStep, isDirty

LEMMA TabThere ==
  ASSUME NEW t \in Tabs
  PROVE  t # None
BY NoneIsNothing

(* The tabs are patched, and nobody asks to close what has no buffer. *)
LEMMA TabsFit ==
  ASSUME Base, tabs' \in TabTable, SameTabs(tabs, tabs'), UNCHANGED <<active, docs, pane, saving>>,
         \A q \in Paths : tabs'[q] # None /\ tabs'[q].asks = "closing" => tabs[q].asks = "closing" \/ docs[q] # None
  PROVE  Fits /\ View(saving)
<1>1. saving \in SaveTable /\ docs \in DocTable /\ tabs \in TabTable
  BY DEF Base, TypeOK, SaveTable, DocTable, TabTable
<1>2. Carries(saving, saving')
  BY <1>1, CarriesOn
<1>3. View(saving)
  BY <1>2 DEF View
<1>4. FitDocs(saving', docs') /\ FitTold(saving', active', Editing')
  BY DEF Base, Shape, Editing
<1>5. FitTabs(tabs', docs')
  BY DEF Base, Shape, FitTabs, SameTabs
<1>6. FitPane(pane', active', tabs', docs')
  BY DEF Base, Shape, FitPane, SameTabs, TypeOK
<1> QED BY <1>1, <1>3, <1>4, <1>5, <1>6 DEF Fits, Shape, Base, TypeOK

LEMMA ViewIsBase ==
  ASSUME Base, Fits, UNCHANGED <<disk, held, clock, moving>>, stats' \subseteq Calls,
         gestures' \in [kinds : SUBSET AllKinds, left : Nat], deleting' \in Deletes \cup {None}
  PROVE  Base'
BY DEF Base, TypeOK, Fits, TabTable, DocTable, SaveTable

LEMMA UserNoticesViews ==
  ASSUME Base, NEW p \in Paths, Focus \/ KeepEditing(p) \/ KeepMine(p)
  PROVE  ViewStep
<1>1. tabs \in TabTable
  BY DEF Base, TypeOK, TabTable
<1>2. /\ UNCHANGED <<disk, held, active, docs, pane, saving, moving, clock>>
      /\ deleting' \in Deletes \cup {None} /\ stats' \subseteq Calls /\ gestures' \in [kinds : SUBSET AllKinds, left : Nat]
      /\ \/ tabs' = tabs
         \/ tabs[p] # None /\ tabs' = Noticed(tabs, p, "nothing")
         \/ tabs[p] # None /\ tabs' = [tabs EXCEPT ![p].asks = "nothing", ![p].mtime = tabs[p].observed]
  <2>1. CASE Focus
    BY <1>1, <2>1, CallsTyped, GestureTyped DEF Focus, Asks, Base, TypeOK, files, idle
  <2>2. CASE KeepEditing(p)
    BY <2>2, GestureTyped DEF KeepEditing, Asking, Base, TypeOK, files, idle
  <2>3. CASE KeepMine(p)
    BY <2>3, GestureTyped DEF KeepMine, Asking, Base, TypeOK, files, idle
  <2> QED BY <2>1, <2>2, <2>3
<1>3. /\ tabs' \in TabTable /\ SameTabs(tabs, tabs')
      /\ \A q \in Paths : tabs'[q] # None /\ tabs'[q].asks = "closing" => tabs[q].asks = "closing"
  <2>1. CASE tabs' = tabs
    BY <1>1, <2>1 DEF SameTabs
  <2>2. CASE tabs[p] # None /\ tabs' = Noticed(tabs, p, "nothing")
    <3>1. /\ Noticed(tabs, p, "nothing") \in TabTable /\ SameTabs(tabs, Noticed(tabs, p, "nothing"))
          /\ \A q \in Paths \ {p} : Noticed(tabs, p, "nothing")[q] = tabs[q]
          /\ Noticed(tabs, p, "nothing")[p].asks = "nothing"
      BY <1>1, <2>2, NoticedTabs
    <3> QED BY <2>2, <3>1
  <2>3. CASE tabs[p] # None /\ tabs' = [tabs EXCEPT ![p].asks = "nothing", ![p].mtime = tabs[p].observed]
    <3> DEFINE t == [tabs[p] EXCEPT !.asks = "nothing", !.mtime = tabs[p].observed]
    <3>1. tabs[p] \in Tabs
      BY <1>1, <2>3 DEF TabTable
    <3>2. t \in Tabs /\ t.asks = "nothing"
      BY <3>1 DEF Tabs
    <3>3. tabs' = [tabs EXCEPT ![p] = t]
      BY <1>1, <2>3 DEF TabTable
    <3> HIDE DEF t
    <3> QED BY <1>1, <2>3, <3>2, <3>3, TabThere DEF TabTable, SameTabs
  <2> QED BY <1>2, <2>1, <2>2, <2>3
<1>4. Fits /\ View(saving)
  BY <1>2, <1>3, TabsFit
<1>5. Base'
  BY <1>2, <1>4, ViewIsBase
<1> QED BY <1>2, <1>3, <1>4, <1>5 DEF ViewStep, SameTabs, isDirty

\* a delete up to its answer, which the editor does not yet feel
DeleteStep ==
    \/ \E p \in Paths : DeleteAsked(p) \/ DeleteUnasked(p)
    \/ DeleteConfirmed \/ DeleteCancelled \/ DeleteFailed

LEMMA DeleteViews ==
  ASSUME Base, DeleteStep
  PROVE  ViewStep
<1>1. tabs \in TabTable
  BY DEF Base, TypeOK, TabTable
<1>2. /\ UNCHANGED <<disk, held, tabs, active, docs, pane, saving, stats, moving, clock>>
      /\ deleting' \in Deletes \cup {None} /\ gestures' \in [kinds : SUBSET AllKinds, left : Nat]
  <2>1. ASSUME NEW p \in Paths, NEW at \in {"asked", "sent"}, Delete(p, at, None)
        PROVE  /\ UNCHANGED <<disk, held, tabs, active, docs, pane, saving, stats, moving, clock>>
               /\ deleting' \in Deletes \cup {None} /\ gestures' \in [kinds : SUBSET AllKinds, left : Nat]
    <3>1. [path |-> p, at |-> at, named |-> None] \in Deletes
      BY DEF Deletes, Times
    <3> QED BY <2>1, <3>1, GestureTyped DEF Delete, files, Base, TypeOK
  <2>2. CASE DeleteConfirmed
    <3>1. deleting \in Deletes /\ deleting.path \in Paths
      BY <2>2 DEF DeleteConfirmed, Base, TypeOK, Deletes
    <3> DEFINE named == IF isDirty(deleting.path) THEN docs[deleting.path].text ELSE None
    <3>2. named \in Times
      BY <3>1 DEF isDirty, Base, TypeOK, Documents, Times
    <3>3. deleting' = [deleting EXCEPT !.at = "sent", !.named = named]
      BY <2>2 DEF DeleteConfirmed
    <3> HIDE DEF named
    <3>4. deleting' \in Deletes
      BY <3>1, <3>2, <3>3 DEF Deletes
    <3> QED BY <2>2, <3>4 DEF DeleteConfirmed, files, bounds, Base, TypeOK
  <2>3. CASE DeleteCancelled \/ DeleteFailed
    BY <2>3 DEF DeleteCancelled, DeleteFailed, files, bounds, Base, TypeOK
  <2> QED BY <2>1, <2>2, <2>3 DEF DeleteStep, DeleteAsked, DeleteUnasked
<1>3. Fits /\ View(saving)
  BY <1>1, <1>2, TabsFit DEF SameTabs
<1>4. Base'
  BY <1>2, <1>3, ViewIsBase DEF Base, TypeOK
<1> QED BY <1>2, <1>3, <1>4 DEF ViewStep

(* What an answered stat call may write into its tab. *)
LEMMA FoundTabs ==
  ASSUME Base, NEW call \in stats
  PROVE  /\ call \in Calls /\ Found(call) \in TabTable /\ SameTabs(tabs, Found(call))
         /\ \A q \in Paths : tabs[q] # None => Found(call)[q].asks = tabs[q].asks
<1>1. tabs \in TabTable /\ call \in Calls
  BY DEF Base, TypeOK, TabTable
<1>2. call.path \in Paths
  BY <1>1 DEF Calls
<1>3. CASE tabs[call.path] # None /\ call.missing
  <2> DEFINE t == [tabs[call.path] EXCEPT !.missing = FALSE]  new == Found(call)
  <2>1. tabs[call.path] \in Tabs
    BY <1>1, <1>2, <1>3 DEF TabTable
  <2>2. t \in Tabs /\ t.asks = tabs[call.path].asks
    BY <2>1 DEF Tabs
  <2>3. new = [tabs EXCEPT ![call.path] = t]
    BY <1>3 DEF Found
  <2> HIDE DEF t, new
  <2>4. /\ new \in TabTable /\ SameTabs(tabs, new) /\ new[call.path] = t
        /\ \A q \in Paths \ {call.path} : new[q] = tabs[q]
    BY <1>1, <1>2, <1>3, <2>2, <2>3, TabThere DEF TabTable, SameTabs
  <2>5. \A q \in Paths : tabs[q] # None => new[q].asks = tabs[q].asks
    BY <2>2, <2>4
  <2> QED BY <1>1, <2>4, <2>5 DEF new
<1>4. CASE ~(tabs[call.path] # None /\ call.missing)
  BY <1>1, <1>4 DEF Found, SameTabs
<1> QED BY <1>3, <1>4

LEMMA StatViews ==
  ASSUME Base, NEW call \in stats,
         stat_at(call) \/ Restated(call) \/ PolledGone(call) \/ PolledSame(call) \/ PolledDirty(call)
  PROVE  ViewStep
<1>1. tabs \in TabTable /\ call \in Calls /\ stats \subseteq Calls
  BY DEF Base, TypeOK, TabTable
<1>2. call.path \in Paths /\ call.mtime \in Times
  BY <1>1 DEF Calls
<1>3. UNCHANGED <<disk, held, active, docs, pane, saving, moving, deleting, clock, gestures>>
  BY DEF stat_at, Restated, PolledGone, PolledSame, PolledDirty, files, idle, bounds
<1>4. mtime_at(call.path) \in Times
  BY <1>2 DEF mtime_at, Base, TypeOK, Files, Times
<1>5. stats' \subseteq Calls
  <2>1. CASE stat_at(call)
    <3>1. [call EXCEPT !.told = TRUE, !.mtime = mtime_at(call.path)] \in Calls
      BY <1>1, <1>4 DEF Calls
    <3> QED BY <1>1, <2>1, <3>1 DEF stat_at
  <2>2. CASE ~stat_at(call)
    BY <1>1, <2>2 DEF Restated, PolledGone, PolledSame, PolledDirty
  <2> QED BY <2>1, <2>2
<1>6. /\ tabs' \in TabTable /\ SameTabs(tabs, tabs')
      /\ \A q \in Paths : tabs'[q] # None /\ tabs'[q].asks = "closing" => tabs[q].asks = "closing"
  <2>1. CASE tabs' = tabs
    BY <1>1, <2>1 DEF SameTabs
  <2>2. CASE Restated(call) /\ tabs[call.path] # None
    <3> DEFINE t == [tabs[call.path] EXCEPT !.mtime = call.mtime, !.missing = Gone(call),
                                            !.preview = tabs[call.path].preview /\ ~Gone(call)]
    <3>1. tabs[call.path] \in Tabs
      BY <1>1, <1>2, <2>2 DEF TabTable
    <3>2. t \in Tabs /\ t.asks = tabs[call.path].asks
      BY <1>2, <3>1 DEF Tabs, Gone
    <3>3. tabs' = [tabs EXCEPT ![call.path] = t]
      BY <1>1, <1>2, <2>2 DEF Restated, TabTable
    <3> HIDE DEF t
    <3>4. tabs' \in TabTable /\ SameTabs(tabs, tabs') /\ tabs'[call.path] = t
          /\ \A q \in Paths \ {call.path} : tabs'[q] = tabs[q]
      BY <1>1, <1>2, <2>2, <3>2, <3>3, TabThere DEF TabTable, SameTabs
    <3> QED BY <3>2, <3>4
  <2>3. CASE PolledGone(call) /\ tabs[call.path] # None
    <3> DEFINE t == [tabs[call.path] EXCEPT !.missing = TRUE, !.preview = FALSE]
    <3>1. tabs[call.path] \in Tabs
      BY <1>1, <1>2, <2>3 DEF TabTable
    <3>2. t \in Tabs /\ t.asks = tabs[call.path].asks
      BY <3>1 DEF Tabs
    <3>3. tabs' = [tabs EXCEPT ![call.path] = t]
      BY <1>1, <1>2, <2>3 DEF PolledGone, TabTable
    <3> HIDE DEF t
    <3>4. tabs' \in TabTable /\ SameTabs(tabs, tabs') /\ tabs'[call.path] = t
          /\ \A q \in Paths \ {call.path} : tabs'[q] = tabs[q]
      BY <1>1, <1>2, <2>3, <3>2, <3>3, TabThere DEF TabTable, SameTabs
    <3> QED BY <3>2, <3>4
  <2>4. CASE PolledSame(call)
    <3>1. tabs' = Found(call)
      BY <2>4 DEF PolledSame
    <3> QED BY <3>1, FoundTabs DEF SameTabs
  <2>5. CASE PolledDirty(call)
    <3> DEFINE ts == Noticed(Found(call), call.path, "changed")
               t == [ts[call.path] EXCEPT !.observed = call.mtime]
    <3>1. tabs' = [ts EXCEPT ![call.path].observed = call.mtime]
      BY <2>5 DEF PolledDirty
    <3>2. docs[call.path] # None
      BY <2>5 DEF PolledDirty, MayReload, isDirty
    <3>3. tabs[call.path] # None
      BY <1>2, <3>2 DEF Base, Shape, FitTabs
    <3>4. Found(call) \in TabTable /\ Found(call)[call.path] # None
      BY <1>2, <3>3, FoundTabs DEF SameTabs
    <3>5. /\ ts \in TabTable /\ SameTabs(Found(call), ts) /\ ts[call.path].asks = "changed"
          /\ \A q \in Paths \ {call.path} : ts[q] = Found(call)[q]
      BY <1>2, <3>4, NoticedTabs
    <3>6. ts[call.path] # None
      BY <1>2, <3>4, <3>5 DEF SameTabs
    <3> HIDE DEF ts
    <3>7. ts[call.path] \in Tabs
      BY <1>2, <3>5, <3>6 DEF TabTable
    <3>8. t \in Tabs /\ t.asks = "changed"
      BY <1>2, <3>5, <3>7 DEF Tabs
    <3>9. tabs' = [ts EXCEPT ![call.path] = t]
      BY <1>2, <3>1, <3>5 DEF TabTable
    <3> HIDE DEF t
    <3>10. tabs' \in TabTable /\ SameTabs(ts, tabs') /\ tabs'[call.path] = t
           /\ \A q \in Paths \ {call.path} : tabs'[q] = ts[q]
      BY <1>2, <3>5, <3>6, <3>8, <3>9, TabThere DEF TabTable, SameTabs
    <3>11. SameTabs(tabs, tabs')
      BY <3>5, <3>10, FoundTabs DEF SameTabs
    <3>12. ASSUME NEW q \in Paths, tabs'[q] # None, tabs'[q].asks = "closing"
           PROVE  tabs[q].asks = "closing"
      <4>1. q # call.path /\ tabs'[q] = Found(call)[q] /\ tabs[q] # None
        BY <3>5, <3>8, <3>10, <3>11, <3>12 DEF SameTabs
      <4> QED BY <3>12, <4>1, FoundTabs
    <3> QED BY <3>10, <3>11, <3>12
  <2>6. tabs' = tabs \/ Restated(call) \/ PolledGone(call) \/ PolledSame(call) \/ PolledDirty(call)
    BY DEF stat_at
  <2>7. (Restated(call) \/ PolledGone(call)) /\ tabs[call.path] = None => tabs' = tabs
    BY DEF Restated, PolledGone
  <2> QED BY <2>1, <2>2, <2>3, <2>4, <2>5, <2>6, <2>7
<1>7. Fits /\ View(saving)
  BY <1>3, <1>6, TabsFit
<1>8. Base'
  BY <1>3, <1>5, <1>7, ViewIsBase DEF Base, TypeOK
<1> QED BY <1>3, <1>6, <1>7, <1>8 DEF ViewStep, SameTabs, isDirty

(* A tab is closed, by its user or with its file. *)
LEMMA ClosesViews ==
  ASSUME Base, NEW p \in Paths, close(p) \/ DiscardAndClose(p)
  PROVE  ViewStep
<1>1. /\ UNCHANGED <<disk, held, moving, deleting, clock, stats>> /\ Gesture("close") /\ tabs[p] # None
      /\ \/ isDirty(p) /\ tabs' = Noticed(tabs, p, "closing") /\ UNCHANGED <<active, docs, pane, saving>>
         \/ drop(p, saving) /\ (Answers \/ ~isDirty(p))
  <2>1. CASE close(p)
    BY <2>1 DEF close, files, idle
  <2>2. CASE DiscardAndClose(p)
    BY <2>2 DEF DiscardAndClose, Asking, files, idle, Answers
  <2> QED BY <2>1, <2>2
<1>2. tabs \in TabTable /\ saving \in SaveTable /\ FitDocs(saving, docs) /\ FitTold(saving, active, Editing)
  BY DEF Base, TypeOK, Shape, TabTable, SaveTable
<1>3. /\ Fits /\ View(saving)
      /\ \A q \in Paths : tabs[q] = None => tabs'[q] = None
      /\ Answers \/ \A q \in Paths : isDirty(q) => docs'[q] = docs[q]
  <2>1. CASE isDirty(p) /\ tabs' = Noticed(tabs, p, "closing") /\ UNCHANGED <<active, docs, pane, saving>>
    <3>1. /\ tabs' \in TabTable /\ SameTabs(tabs, tabs')
          /\ \A q \in Paths \ {p} : tabs'[q] = tabs[q]
      <4>1. /\ Noticed(tabs, p, "closing") \in TabTable /\ SameTabs(tabs, Noticed(tabs, p, "closing"))
            /\ \A q \in Paths \ {p} : Noticed(tabs, p, "closing")[q] = tabs[q]
        BY <1>2, NoticedTabs
      <4> QED BY <2>1, <4>1
    <3>2. docs[p] # None
      BY <2>1 DEF isDirty
    <3>3. \A q \in Paths : tabs'[q] # None /\ tabs'[q].asks = "closing" => tabs[q].asks = "closing" \/ docs[q] # None
      BY <3>1, <3>2
    <3>4. Fits /\ View(saving)
      BY <2>1, <3>1, <3>3, TabsFit
    <3> QED BY <2>1, <3>1, <3>4 DEF SameTabs
  <2>2. CASE drop(p, saving) /\ (Answers \/ ~isDirty(p))
    <3>1. /\ Fits /\ View(saving)
          /\ \A q \in Paths : tabs'[q] \in {tabs[q], None} /\ (q # p => docs'[q] = docs[q])
      BY <1>2, <2>2, DropFits
    <3>2. Answers \/ \A q \in Paths : isDirty(q) => docs'[q] = docs[q]
      BY <2>2, <3>1
    <3> QED BY <3>1, <3>2
  <2> QED BY <1>1, <2>1, <2>2
<1>4. Base'
  BY <1>1, <1>3, ViewIsBase, GestureTyped DEF Base, TypeOK
<1> QED BY <1>1, <1>3, <1>4 DEF ViewStep

LEMMA DropUnderViews ==
  ASSUME Base, dropUnder
  PROVE  ViewStep /\ deleting.path \in Paths /\ \A q \in Paths : q # deleting.path => docs'[q] = docs[q]
<1>1. /\ UNCHANGED <<disk, held, moving, clock, stats, gestures>> /\ deleting' = None
      /\ deleting.path \in Paths /\ drop(deleting.path, saving)
  BY DEF dropUnder, files, bounds, Base, TypeOK, Deletes
<1>2. saving \in SaveTable /\ FitDocs(saving, docs) /\ FitTold(saving, active, Editing)
  BY DEF Base, TypeOK, Shape, SaveTable
<1>3. /\ Fits /\ View(saving)
      /\ \A q \in Paths : tabs'[q] \in {tabs[q], None} /\ (q # deleting.path => docs'[q] = docs[q])
  BY <1>1, <1>2, DropFits
<1>4. Base'
  BY <1>1, <1>3, ViewIsBase DEF Base, TypeOK
<1> QED BY <1>1, <1>3, <1>4 DEF ViewStep

(* A tab reads its file again, because its user or a poll says so. *)
LEMMA ReloadsView ==
  ASSUME Base, NEW p \in Paths, ReloadFromDisk(p)
  PROVE  ViewStep
<1>1. /\ UNCHANGED <<disk, held, moving, deleting, clock>> /\ Gesture("answer") /\ stats' = stats \cup {restat(p)}
      /\ reload(p) /\ Answers
      /\ tabs[p] # None
  BY NoneIsNothing DEF ReloadFromDisk, files, idle, Asks, Answers, Asking, Base, Shape, FitPane
<1>2. tabs \in TabTable
  BY DEF Base, TypeOK, TabTable
<1>3. docs' = [docs EXCEPT ![p] = None] /\ Shows(active, p = active, Follows(saving, p, None))
      /\ tabs' = [tabs EXCEPT ![p].asks = "nothing"]
  BY <1>1 DEF reload
<1>4. tabs' = Noticed(tabs, p, "nothing")
  BY <1>1, <1>3 DEF Noticed
<1>5. /\ Noticed(tabs, p, "nothing") \in TabTable /\ SameTabs(tabs, Noticed(tabs, p, "nothing"))
      /\ \A q \in Paths \ {p} : Noticed(tabs, p, "nothing")[q] = tabs[q]
      /\ Noticed(tabs, p, "nothing")[p].asks = "nothing"
  BY <1>1, <1>2, NoticedTabs
<1>6. tabs' \in TabTable /\ SameTabs(tabs, tabs') /\ tabs'[p].asks = "nothing" /\ \A q \in Paths \ {p} : tabs'[q] = tabs[q]
  BY <1>4, <1>5
<1>7. Fits /\ View(saving)
  BY <1>1, <1>3, <1>6, ReloadFits
<1>8. stats' \subseteq Calls
  BY <1>1, <1>2, CallsTyped DEF Base, TypeOK
<1>9. Base'
  BY <1>1, <1>7, <1>8, ViewIsBase, GestureTyped DEF Base, TypeOK
<1> QED BY <1>1, <1>6, <1>7, <1>9 DEF ViewStep, SameTabs

LEMMA PolledCleanViews ==
  ASSUME Base, NEW call \in stats, PolledClean(call)
  PROVE  ViewStep
<1> DEFINE p == call.path
<1>1. /\ UNCHANGED <<disk, held, moving, deleting, clock, gestures>> /\ ~isDirty(p)
      /\ tabs[p] = None => UNCHANGED <<tabs, docs, active, pane, saving>>
      /\ tabs[p] # None =>
           /\ docs' = [docs EXCEPT ![p] = None]
           /\ tabs' = Noticed(Found(call), p, "nothing")
           /\ Shows(active, p = active, Follows(saving, p, None))
      /\ stats' \subseteq stats \cup {restat(p)}
  BY DEF PolledClean, files, idle, bounds, MayReload
<1>2. tabs \in TabTable /\ p \in Paths
  BY DEF Base, TypeOK, TabTable, Calls
<1> HIDE DEF p
<1>3. /\ Fits /\ View(saving) /\ \A q \in Paths : tabs[q] = None => tabs'[q] = None
      /\ \A q \in Paths : q # p => docs'[q] = docs[q]
  <2>1. CASE tabs[p] = None
    <3>1. Fits /\ View(saving)
      BY <1>1, <1>2, <2>1, TabsFit DEF SameTabs
    <3> QED BY <1>1, <2>1, <3>1
  <2>2. CASE tabs[p] # None
    <3>1. /\ Found(call) \in TabTable /\ SameTabs(tabs, Found(call))
      BY FoundTabs
    <3>2. \A q \in Paths \ {p} : Found(call)[q] = tabs[q]
      BY <1>2 DEF Found, p, TabTable
    <3> DEFINE ts == Found(call)
    <3>3. ts[p] # None
      BY <1>2, <2>2, <3>1 DEF SameTabs
    <3>4. tabs' = Noticed(ts, p, "nothing") /\ ts \in TabTable /\ SameTabs(tabs, ts) /\ \A q \in Paths \ {p} : ts[q] = tabs[q]
      BY <1>1, <2>2, <3>1, <3>2
    <3> HIDE DEF ts
    <3>5. /\ Noticed(ts, p, "nothing") \in TabTable /\ SameTabs(ts, Noticed(ts, p, "nothing"))
          /\ \A q \in Paths \ {p} : Noticed(ts, p, "nothing")[q] = ts[q]
          /\ Noticed(ts, p, "nothing")[p].asks = "nothing"
      <4>1. ts \in TabTable /\ p \in Paths /\ "nothing" \in {"nothing", "closing", "failed", "changed"}
        BY <1>2, <3>4
      <4> HIDE DEF Noticed, SameTabs, TabTable
      <4> QED BY <3>3, <4>1, NoticedTabs
    <3>6. /\ tabs' \in TabTable /\ SameTabs(tabs, tabs') /\ tabs'[p].asks = "nothing"
          /\ \A q \in Paths \ {p} : tabs'[q] = tabs[q]
      BY <3>4, <3>5 DEF SameTabs
    <3>7. Fits /\ View(saving) /\ \A q \in Paths : q # p => docs'[q] = docs[q]
      BY <1>1, <1>2, <2>2, <3>6, ReloadFits
    <3> QED BY <3>6, <3>7 DEF SameTabs
  <2> QED BY <2>1, <2>2
<1>4. stats' \subseteq Calls
  BY <1>1, <1>2, CallsTyped DEF Base, TypeOK
<1>5. Base'
  BY <1>1, <1>3, <1>4, ViewIsBase DEF Base, TypeOK
<1> QED BY <1>1, <1>3, <1>5 DEF ViewStep

-----------------------------------------------------------------------------
(* The other steps keep types and shape.                                      *)

\* the tree and the writers outside, as the editor sees them
FileStep == \/ rename_at \/ delete_at
            \/ \E p \in Paths : OutsideWrite(p) \/ OutsideDelete(p)
            \/ \E from, to \in Paths : RenameAsked(from, to)

LEMMA FileStepFits ==
  ASSUME Base, FileStep
  PROVE  Base' /\ UNCHANGED <<tabs, active, docs, pane, saving>>
<1>1. UNCHANGED <<tabs, active, docs, pane, saving>>
  BY DEF FileStep, rename_at, delete_at, OutsideWrite, OutsideDelete, RenameAsked
<1>2. Shape'
  BY <1>1 DEF Base, Shape, Editing
<1>3. TypeOK'
  <2>1. CASE rename_at
    <3>1. moving \in Renames
      BY <2>1 DEF rename_at, Base, TypeOK
    <3>2. moving.from \in Paths /\ moving.to \in Paths /\ [moving EXCEPT !.done = TRUE] \in Renames
      BY <3>1 DEF Renames
    <3>3. disk' \in [Paths -> Files \cup {None}] /\ held' \in [Paths -> SUBSET Nat]
      <4> DEFINE from == moving.from  to == moving.to
      <4>1. from \in Paths /\ to \in Paths /\ disk \in [Paths -> Files \cup {None}] /\ held \in [Paths -> SUBSET Nat]
        BY <3>2 DEF Base, TypeOK
      <4>2. \/ disk' = [disk EXCEPT ![to] = disk[from], ![from] = None] /\ held' = [held EXCEPT ![to] = held[to] \cup held[from]]
            \/ UNCHANGED <<disk, held>>
        BY <2>1 DEF rename_at, files
      <4> HIDE DEF from, to
      <4> QED BY <4>1, <4>2
    <3> QED BY <1>1, <2>1, <3>2, <3>3 DEF rename_at, Base, TypeOK, bounds
  <2>2. CASE delete_at
    <3>1. deleting \in Deletes
      BY <2>2 DEF delete_at, Base, TypeOK
    <3>2. deleting.path \in Paths /\ [deleting EXCEPT !.at = "done"] \in Deletes
      BY <3>1 DEF Deletes
    <3> QED BY <1>1, <2>2, <3>2 DEF delete_at, Base, TypeOK, bounds
  <2>3. ASSUME NEW p \in Paths, OutsideWrite(p)
        PROVE  TypeOK'
    <3>1. clock + 1 \in Nat
      BY DEF Base, TypeOK
    <3>2. [text |-> clock + 1, mtime |-> clock + 1] \in Files
      BY <3>1 DEF Files
    <3>3. disk' \in [Paths -> Files \cup {None}]
      BY <2>3, <3>2 DEF OutsideWrite, Base, TypeOK
    <3>4. held' \in [Paths -> SUBSET Nat]
      BY <2>3, <3>1 DEF OutsideWrite, Base, TypeOK
    <3> QED BY <1>1, <2>3, <3>1, <3>3, <3>4 DEF OutsideWrite, Base, TypeOK, idle
  <2>4. ASSUME NEW p \in Paths, OutsideDelete(p)
        PROVE  TypeOK'
    BY <1>1, <2>4, GestureTyped DEF OutsideDelete, Base, TypeOK, idle
  <2>5. ASSUME NEW from \in Paths, NEW to \in Paths, RenameAsked(from, to)
        PROVE  TypeOK'
    <3>1. [from |-> from, to |-> to, done |-> FALSE] \in Renames
      BY <2>5 DEF RenameAsked, Renames
    <3> QED BY <1>1, <2>5, <3>1, GestureTyped DEF RenameAsked, Base, TypeOK, files
  <2> QED BY <2>1, <2>2, <2>3, <2>4, <2>5 DEF FileStep
<1> QED BY <1>1, <1>2, <1>3 DEF Base

(* The viewer reads its file: the time, the bytes, and the buffer of both. *)
LEMMA ReadFits ==
  ASSUME Base, ReadStep
  PROVE  Base' /\ active \in Paths /\ docs \in DocTable
         /\ UNCHANGED <<disk, held, tabs, active, saving, stats, moving, deleting, clock, gestures>>
<1>1. UNCHANGED <<disk, held, tabs, active, saving, stats, moving, deleting, clock, gestures>>
      /\ pane.at \in {"asked", "timed", "read"}
  BY DEF ReadStep, ReadTime, ReadBytes, ReadAnswered, files, idle, bounds
<1>2. active \in Paths /\ tabs[active] # None
  BY <1>1 DEF Base, TypeOK, Shape, FitPane
<1>3. /\ pane' \in Panes /\ docs' \in DocTable /\ FitPane(pane', active', tabs', docs')
      /\ \A q \in Paths : docs[q] # None => docs'[q] # None
      /\ \A q \in Paths : docs'[q] # None => docs[q] # None \/ q = active
  <2>1. CASE ReadTime
    <3>1. docs' = docs /\ pane' = IF disk[active] # None THEN [pane EXCEPT !.at = "timed", !.mtime = disk[active].mtime] ELSE Pane("failed")
      BY <2>1 DEF ReadTime, exists, mtime_at
    <3>2. CASE disk[active] # None
      <4>1. disk[active].mtime \in Nat
        BY <1>2, <3>2 DEF Base, TypeOK, Files
      <4>2. pane' \in Panes /\ pane'.at = "timed" /\ pane'.mtime \in Nat
        BY <3>1, <3>2, <4>1 DEF Base, TypeOK, Panes, Times
      <4>3. pane'.mtime # None
        BY <4>2, NoneIsNothing
      <4> QED BY <1>1, <1>2, <3>1, <4>2, <4>3, NoneIsNothing DEF FitPane, Base, TypeOK, DocTable
    <3>3. CASE disk[active] = None
      BY <1>1, <1>2, <3>1, <3>3, NoneIsNothing DEF FitPane, Base, TypeOK, DocTable, Pane, Panes, Times
    <3> QED BY <3>2, <3>3
  <2>2. CASE ReadBytes
    <3>1. docs' = docs /\ pane' = IF disk[active] # None THEN [pane EXCEPT !.at = "read", !.text = disk[active].text] ELSE Pane("failed")
      BY <2>2 DEF ReadBytes, exists
    <3>2. CASE disk[active] # None
      <4>1. disk[active].text \in Nat /\ pane.mtime # None
        BY <1>2, <2>2, <3>2 DEF Base, TypeOK, Files, ReadBytes, Shape, FitPane
      <4>2. pane' \in Panes /\ pane'.at = "read" /\ pane'.text \in Nat /\ pane'.mtime = pane.mtime
        BY <3>1, <3>2, <4>1 DEF Base, TypeOK, Panes, Times
      <4>3. pane'.text # None
        BY <4>2, NoneIsNothing
      <4> QED BY <1>1, <1>2, <3>1, <4>1, <4>2, <4>3, NoneIsNothing DEF FitPane, Base, TypeOK, DocTable
    <3>3. CASE disk[active] = None
      BY <1>1, <1>2, <3>1, <3>3, NoneIsNothing DEF FitPane, Base, TypeOK, DocTable, Pane, Panes, Times
    <3> QED BY <3>2, <3>3
  <2>3. CASE ReadAnswered
    <3>1. docs' = [docs EXCEPT ![active] = Document(pane.text, pane.mtime)] /\ pane' = Pane("editing")
      BY <2>3 DEF ReadAnswered
    <3>2. pane.text \in Nat /\ pane.mtime \in Times
      BY <2>3 DEF ReadAnswered, Base, TypeOK, Shape, FitPane, Panes, Times
    <3>3. Document(pane.text, pane.mtime) \in Documents
      BY <3>2 DEF Document, Documents
    <3>4. Document(pane.text, pane.mtime) # None
      BY <3>3, NoneIsNothing
    <3> HIDE DEF Document
    <3>5. docs' \in DocTable /\ docs'[active] # None /\ \A q \in Paths \ {active} : docs'[q] = docs[q]
      BY <1>2, <3>1, <3>3, <3>4 DEF Base, TypeOK, DocTable
    <3>6. pane' \in Panes /\ pane'.at = "editing"
      BY <3>1 DEF Pane, Panes, Times
    <3> QED BY <1>1, <1>2, <3>5, <3>6, NoneIsNothing DEF FitPane
  <2> QED BY <2>1, <2>2, <2>3 DEF ReadStep
<1>4. FitDocs(saving', docs')
  BY <1>1, <1>3 DEF Base, Shape, FitDocs, TypeOK, Saves
<1>5. FitTold(saving', active', Editing')
  BY <1>1 DEF Base, Shape, FitTold, Editing
<1>6. FitTabs(tabs', docs')
  BY <1>1, <1>2, <1>3 DEF Base, Shape, FitTabs
<1>7. TypeOK'
  BY <1>1, <1>3 DEF Base, TypeOK, DocTable
<1> QED BY <1>1, <1>2, <1>3, <1>4, <1>5, <1>6, <1>7 DEF Base, Shape, TypeOK, DocTable

(* The user types, or takes it back. *)
LEMMA EditFits ==
  ASSUME Base, Type \/ Undo
  PROVE  /\ Base' /\ active \in Paths /\ docs[active] # None
         /\ \A q \in Paths \ {active} : docs'[q] = docs[q]
         /\ docs'[active] = [docs[active] EXCEPT !.text = docs'[active].text]
         /\ SameTabs(tabs, tabs') /\ UNCHANGED <<disk, held, active, pane, saving, moving>>
<1>1. /\ UNCHANGED <<disk, held, active, pane, saving, stats, moving, deleting>>
      /\ Editing /\ clock' \in Nat /\ gestures' \in [kinds : SUBSET AllKinds, left : Nat]
      /\ tabs' = promote(tabs, {active}) \/ tabs' = tabs
  <2>1. CASE Type
    <3>1. /\ Editing /\ clock' = clock + 1 /\ tabs' = promote(tabs, {active})
          /\ UNCHANGED <<files, active, pane, saving, stats, idle, gestures>>
      BY <2>1 DEF Type
    <3>2. clock' \in Nat
      BY <3>1 DEF Base, TypeOK
    <3> QED BY <3>1, <3>2 DEF files, idle, Base, TypeOK
  <2>2. CASE Undo
    BY <2>2, GestureTyped DEF Undo, files, idle, Base, TypeOK
  <2> QED BY <2>1, <2>2
<1>2. active \in Paths /\ docs[active] # None
  BY <1>1 DEF Base, TypeOK, Shape, FitPane, Editing
<1>3. docs[active] \in Documents /\ tabs \in TabTable
  BY <1>2 DEF Base, TypeOK, TabTable
<1>4. \E text \in Nat : docs' = [docs EXCEPT ![active] = [docs[active] EXCEPT !.text = text]]
  <2>1. CASE Type
    <3>1. docs' = [docs EXCEPT ![active].text = clock + 1]
      BY <2>1 DEF Type
    <3>2. clock + 1 \in Nat
      BY DEF Base, TypeOK
    <3> QED BY <1>2, <3>1, <3>2 DEF Base, TypeOK
  <2>2. CASE Undo
    <3>1. docs[active].saved \in Nat
      BY <1>3 DEF Documents
    <3> QED BY <1>2, <2>2, <3>1 DEF Undo, Base, TypeOK
  <2> QED BY <2>1, <2>2
<1>5. PICK text \in Nat : docs' = [docs EXCEPT ![active] = [docs[active] EXCEPT !.text = text]]
  BY <1>4
<1> DEFINE d == [docs[active] EXCEPT !.text = text]
<1>6. d \in Documents /\ d.text = text
  BY <1>3 DEF Documents
<1>7. d # None
  BY <1>6, NoneIsNothing
<1>8. docs' = [docs EXCEPT ![active] = d]
  BY <1>5
<1>9. d = [docs[active] EXCEPT !.text = d.text]
  BY <1>6
<1> HIDE DEF d
<1>10. docs' \in DocTable /\ docs'[active] = d /\ \A q \in Paths \ {active} : docs'[q] = docs[q]
  BY <1>2, <1>6, <1>8 DEF Base, TypeOK, DocTable
<1>11. /\ tabs' \in TabTable /\ SameTabs(tabs, tabs')
       /\ \A q \in Paths : tabs[q] # None => tabs'[q].asks = tabs[q].asks
  <2>1. {active} \in SUBSET Paths
    BY <1>2
  <2> QED BY <1>1, <1>3, <2>1, Promoted DEF SameTabs
<1>12. FitDocs(saving', docs')
  BY <1>1, <1>2, <1>7, <1>10 DEF Base, Shape, FitDocs, TypeOK, Saves
<1>13. FitTold(saving', active', Editing')
  BY <1>1 DEF Base, Shape, Editing
<1>14. FitTabs(tabs', docs')
  BY <1>2, <1>7, <1>10, <1>11 DEF Base, Shape, FitTabs, SameTabs
<1>15. FitPane(pane', active', tabs', docs')
  BY <1>1, <1>2, <1>7, <1>10, <1>11 DEF Base, Shape, FitPane, SameTabs
<1>16. Base'
  BY <1>1, <1>10, <1>11, <1>12, <1>13, <1>14, <1>15 DEF Base, Shape, TypeOK, DocTable, TabTable
<1> QED BY <1>1, <1>2, <1>9, <1>10, <1>11, <1>16

\* the save of a path that one caller joins or begins
Begun(s, p, caller, d) ==
    IF s # None THEN [s EXCEPT !.callers = s.callers \cup {caller}]
    ELSE [doc |-> p, text |-> d.text, base |-> d.base, knows |-> d.knows,
          at |-> "sent", mtime |-> None, found |-> None, callers |-> {caller}]

LEMMA BegunFits ==
  ASSUME NEW s \in Saves \cup {None}, NEW p \in Paths, NEW d \in Documents,
         NEW caller \in {"viewer", "overwrite", "close"}, NEW t, t = Begun(s, p, caller, d)
  PROVE  /\ t \in Saves /\ t # None
         /\ s # None => Same(s, t) /\ t.doc = s.doc /\ t.callers = s.callers \cup {caller}
         /\ s = None => /\ t.doc = p /\ t.text = d.text /\ t.base = d.base /\ t.knows = d.knows
                        /\ t.at = "sent" /\ t.mtime = None /\ t.found = None /\ t.callers = {caller}
<1>1. CASE s # None
  <2>1. s \in Saves /\ s.callers \cup {caller} \in SUBSET {"viewer", "overwrite", "close"}
    BY <1>1 DEF Saves
  <2>2. t = [s EXCEPT !.callers = s.callers \cup {caller}]
    BY <1>1 DEF Begun
  <2>3. t \in Saves /\ t # None /\ t.doc = s.doc /\ t.callers = s.callers \cup {caller} /\ Same(s, t)
    BY <2>1, <2>2, SaveTells
  <2> QED BY <1>1, <2>3
<1>2. CASE s = None
  <2>1. t = [doc |-> p, text |-> d.text, base |-> d.base, knows |-> d.knows,
             at |-> "sent", mtime |-> None, found |-> None, callers |-> {caller}]
    BY <1>2 DEF Begun
  <2>2. t \in Saves
    BY <2>1 DEF Saves, Documents, Times
  <2>3. t # None
    BY <2>2, NoneIsNothing
  <2> QED BY <1>2, <2>1, <2>2, <2>3
<1> QED BY <1>1, <1>2

\* what a save begun or joined does to the saves in flight
Saving(p, caller, d) ==
    /\ saving' \in SaveTable /\ \A q \in Paths \ {p} : saving'[q] = saving[q]
    /\ saving'[p] # None
    /\ saving[p] # None => Same(saving[p], saving'[p]) /\ saving'[p].doc = saving[p].doc
                           /\ saving'[p].callers = saving[p].callers \cup {caller}
    /\ saving[p] = None => /\ saving'[p].doc = p /\ saving'[p].text = d.text /\ saving'[p].base = d.base
                           /\ saving'[p].knows = d.knows /\ saving'[p].at = "sent"
                           /\ saving'[p].callers = {caller}

LEMMA SaveBegins ==
  ASSUME TypeOK, NEW p \in Paths, NEW d \in Documents, NEW caller \in {"viewer", "overwrite", "close"},
         saving' = [saving EXCEPT ![p] = Begun(saving[p], p, caller, d)]
  PROVE  Saving(p, caller, d)
<1> DEFINE s == saving[p]  t == Begun(saving[p], p, caller, d)
<1>1. s \in Saves \cup {None} /\ t = Begun(s, p, caller, d)
  BY DEF TypeOK
<1>2. saving' = [saving EXCEPT ![p] = t]
  OBVIOUS
<1> HIDE DEF t
<1>3. /\ t \in Saves /\ t # None
      /\ s # None => Same(s, t) /\ t.doc = s.doc /\ t.callers = s.callers \cup {caller}
      /\ s = None => /\ t.doc = p /\ t.text = d.text /\ t.base = d.base /\ t.knows = d.knows
                     /\ t.at = "sent" /\ t.mtime = None /\ t.found = None /\ t.callers = {caller}
  <2> HIDE DEF s
  <2> QED BY <1>1, BegunFits
<1>4. /\ saving' \in SaveTable /\ saving'[p] = t
      /\ \A q \in Paths \ {p} : saving'[q] = saving[q]
  BY <1>2, <1>3 DEF TypeOK, SaveTable
<1> QED BY <1>3, <1>4 DEF Saving

LEMMA SavingFits ==
  ASSUME Base, NEW p \in Paths, NEW caller \in {"viewer", "overwrite", "close"}, NEW d,
         Saving(p, caller, d), docs[p] # None, caller = "close" \/ (p = active /\ Editing),
         \A q \in Paths : docs'[q] = None <=> docs[q] = None,
         SameTabs(tabs, tabs'), \A q \in Paths : tabs'[q] # None /\ tabs'[q].asks = "closing" => tabs[q].asks = "closing",
         UNCHANGED <<active, pane>>
  PROVE  Shape'
<1>1. FitDocs(saving', docs')
  <2>1. ASSUME NEW q \in Paths, saving'[q] # None, saving'[q].doc # None
        PROVE  docs'[saving'[q].doc] # None
    <3>1. CASE saving[q] # None
      <4>1. saving'[q].doc = saving[q].doc /\ saving[q] \in Saves
        BY <3>1 DEF Saving, Base, TypeOK
      <4>2. saving[q].doc \in Paths
        BY <2>1, <4>1 DEF Saves
      <4> QED BY <2>1, <3>1, <4>1, <4>2 DEF Base, Shape, FitDocs
    <3>2. CASE saving[q] = None
      <4>1. q = p /\ saving'[q].doc = p
        BY <2>1, <3>2 DEF Saving
      <4> QED BY <4>1
    <3> QED BY <3>1, <3>2
  <2> QED BY <2>1 DEF FitDocs
<1>2. FitTold(saving', active', Editing')
  <2>1. ASSUME NEW q \in Paths, saving'[q] # None, saving'[q].callers \cap Told # {}
        PROVE  q = active /\ Editing
    <3>1. CASE q = p
      BY <2>1, <3>1 DEF Saving, Base, Shape, FitTold, Told
    <3>2. CASE q # p
      BY <2>1, <3>2 DEF Saving, Base, Shape, FitTold
    <3> QED BY <3>1, <3>2
  <2> QED BY <2>1 DEF FitTold, Editing
<1>3. FitTabs(tabs', docs')
  BY DEF Base, Shape, FitTabs, SameTabs
<1>4. FitPane(pane', active', tabs', docs')
  BY DEF Base, TypeOK, Shape, FitPane, SameTabs
<1> QED BY <1>1, <1>2, <1>3, <1>4 DEF Shape

LEMMA SaveFits ==
  ASSUME Base, Save
  PROVE  /\ Base' /\ active \in Paths /\ docs[active] \in Documents /\ Saving(active, "viewer", docs[active])
         /\ CanSave(active) /\ UNCHANGED <<disk, held, tabs, active, docs, pane, moving, clock>>
<1>1. /\ Gesture("save") /\ Editing /\ CanSave(active) /\ saveDocument(active, "viewer", docs)
      /\ UNCHANGED <<disk, held, tabs, active, docs, pane, stats, moving, deleting, clock>>
  BY DEF Save, files, idle
<1>2. active \in Paths /\ docs[active] # None
  BY <1>1 DEF Base, TypeOK, Shape, FitPane, Editing
<1>3. docs[active] \in Documents
  BY <1>2 DEF Base, TypeOK
<1>4. saving' = [saving EXCEPT ![active] = Begun(saving[active], active, "viewer", docs[active])]
  BY <1>1, <1>2 DEF saveDocument, Begun, Base, TypeOK
<1>5. Saving(active, "viewer", docs[active])
  BY <1>2, <1>3, <1>4, SaveBegins DEF Base
<1>6. Shape'
  BY <1>1, <1>2, <1>5, SavingFits DEF SameTabs
<1>7. TypeOK'
  BY <1>1, <1>5, GestureTyped DEF Saving, Base, TypeOK, SaveTable
<1> QED BY <1>1, <1>2, <1>3, <1>5, <1>6, <1>7 DEF Base

LEMMA OverwriteFits ==
  ASSUME Base, Overwrite
  PROVE  /\ Base' /\ active \in Paths /\ docs[active] \in Documents /\ docs'[active] \in Documents
         /\ Saving(active, "overwrite", docs'[active]) /\ CanSave(active)
         /\ \A q \in Paths \ {active} : docs'[q] = docs[q]
         /\ docs'[active].text = docs[active].text /\ docs'[active].saved = docs[active].saved
         /\ docs'[active].base = pane.mtime /\ pane.at = "conflict"
         /\ docs'[active].knows = docs[active].knows \cup ({pane.text} \ {None})
         /\ (pane.mtime # None \/ "overwrite of a deleted file" \in Races)
         /\ UNCHANGED <<disk, held, tabs, active, pane, moving, clock>>
<1> DEFINE d == [docs[active] EXCEPT !.base = pane.mtime, !.knows = docs[active].knows \cup ({pane.text} \ {None})]
<1>1. /\ Gesture("save") /\ pane.at = "conflict" /\ CanSave(active) /\ saveDocument(active, "overwrite", docs')
      /\ pane.mtime # None \/ "overwrite of a deleted file" \in Races
      /\ docs' = [docs EXCEPT ![active].base = pane.mtime, ![active].knows = @ \cup ({pane.text} \ {None})]
      /\ UNCHANGED <<disk, held, tabs, active, pane, stats, moving, deleting, clock>>
  BY DEF Overwrite, files, idle
<1>2. active \in Paths /\ docs[active] # None /\ Editing
  BY <1>1 DEF Base, TypeOK, Shape, FitPane, Editing
<1>3. docs[active] \in Documents /\ pane.mtime \in Times /\ pane.text \in Times
  BY <1>2 DEF Base, TypeOK, Panes
<1>4. /\ d \in Documents /\ d.text = docs[active].text /\ d.saved = docs[active].saved
      /\ d.base = pane.mtime /\ d.knows = docs[active].knows \cup ({pane.text} \ {None})
  BY <1>3 DEF Documents, Times
<1>5. docs' = [docs EXCEPT ![active] = d]
  BY <1>1, <1>2, <1>3 DEF Base, TypeOK
<1>6. d # None
  BY <1>4, NoneIsNothing
<1> HIDE DEF d
<1>7. docs' \in DocTable /\ docs'[active] = d /\ \A q \in Paths \ {active} : docs'[q] = docs[q]
  BY <1>2, <1>4, <1>5 DEF Base, TypeOK, DocTable
<1>8. saving' = [saving EXCEPT ![active] = Begun(saving[active], active, "overwrite", d)]
  BY <1>1, <1>2, <1>7 DEF saveDocument, Begun, Base, TypeOK
<1>9. Saving(active, "overwrite", d)
  BY <1>2, <1>4, <1>8, SaveBegins DEF Base
<1>10. Shape'
  BY <1>1, <1>2, <1>6, <1>7, <1>9, SavingFits DEF SameTabs
<1>11. TypeOK'
  BY <1>1, <1>7, <1>9, GestureTyped DEF Saving, Base, TypeOK, SaveTable, DocTable
<1> QED BY <1>1, <1>2, <1>3, <1>4, <1>7, <1>9, <1>10, <1>11 DEF Base, Saving

LEMMA SaveAndCloseFits ==
  ASSUME Base, NEW p \in Paths, SaveAndClose(p)
  PROVE  /\ Base' /\ docs[p] \in Documents /\ Saving(p, "close", docs[p]) /\ CanSave(p)
         /\ saving[p] # None => saving[p].text = docs[p].text \/ "closing over an older save" \in Races
         /\ SameTabs(tabs, tabs') /\ UNCHANGED <<disk, held, active, docs, pane, moving, clock>>
<1>1. /\ Gesture("close") /\ tabs[p] # None /\ tabs[p].asks = "closing" /\ CanSave(p)
      /\ saving[p] # None => saving[p].text = docs[p].text \/ "closing over an older save" \in Races
      /\ tabs' = Noticed(tabs, p, "nothing") /\ saveDocument(p, "close", docs)
      /\ UNCHANGED <<disk, held, active, docs, pane, stats, moving, deleting, clock>>
  BY DEF SaveAndClose, Asking, files, idle
<1>2. docs[p] # None
  BY <1>1 DEF Base, Shape, FitTabs
<1>3. docs[p] \in Documents /\ tabs \in TabTable
  BY <1>2 DEF Base, TypeOK, TabTable
<1>4. saving' = [saving EXCEPT ![p] = Begun(saving[p], p, "close", docs[p])]
  BY <1>1 DEF saveDocument, Begun, Base, TypeOK
<1>5. Saving(p, "close", docs[p])
  BY <1>3, <1>4, SaveBegins DEF Base
<1>6. /\ tabs' \in TabTable /\ SameTabs(tabs, tabs')
      /\ \A q \in Paths : tabs'[q] # None /\ tabs'[q].asks = "closing" => tabs[q].asks = "closing"
  <2>1. /\ Noticed(tabs, p, "nothing") \in TabTable /\ SameTabs(tabs, Noticed(tabs, p, "nothing"))
        /\ \A q \in Paths \ {p} : Noticed(tabs, p, "nothing")[q] = tabs[q]
        /\ Noticed(tabs, p, "nothing")[p].asks = "nothing"
    BY <1>1, <1>3, NoticedTabs
  <2> QED BY <1>1, <2>1
<1>7. Shape'
  BY <1>1, <1>2, <1>5, <1>6, SavingFits
<1>8. TypeOK'
  BY <1>1, <1>5, <1>6, GestureTyped DEF Saving, Base, TypeOK, SaveTable, TabTable
<1> QED BY <1>1, <1>3, <1>5, <1>6, <1>7, <1>8 DEF Base

\* a write that goes on keeps what it was sent with
Goes(p, at, mtime, found) ==
    /\ saving[p] \in Saves /\ saving' \in SaveTable /\ saving'[p] \in Saves /\ saving'[p] # None
    /\ \A q \in Paths \ {p} : saving'[q] = saving[q]
    /\ saving'[p].doc = saving[p].doc /\ saving'[p].callers = saving[p].callers
    /\ saving'[p].text = saving[p].text /\ saving'[p].base = saving[p].base /\ saving'[p].knows = saving[p].knows
    /\ saving'[p].at = at /\ saving'[p].mtime = mtime /\ saving'[p].found = found

LEMMA SaveGoesOn ==
  ASSUME TypeOK, NEW p \in Paths, saving[p] # None, NEW mtime \in Times, NEW found \in Times,
         NEW at \in {"sent", "checked", "replaced", "written", "stale", "failed"},
         saving' = [saving EXCEPT ![p] = [saving[p] EXCEPT !.at = at, !.mtime = mtime, !.found = found]]
  PROVE  Goes(p, at, mtime, found)
<1> DEFINE t == [saving[p] EXCEPT !.at = at, !.mtime = mtime, !.found = found]
<1>1. saving[p] \in Saves
  BY DEF TypeOK
<1>2. /\ t \in Saves /\ t.doc = saving[p].doc /\ t.callers = saving[p].callers
      /\ t.text = saving[p].text /\ t.base = saving[p].base /\ t.knows = saving[p].knows
      /\ t.at = at /\ t.mtime = mtime /\ t.found = found
  BY <1>1 DEF Saves
<1>3. t # None
  BY <1>2, NoneIsNothing
<1>4. saving' = [saving EXCEPT ![p] = t]
  OBVIOUS
<1> HIDE DEF t
<1>5. saving' \in SaveTable /\ saving'[p] = t /\ \A q \in Paths \ {p} : saving'[q] = saving[q]
  BY <1>2, <1>4 DEF TypeOK, SaveTable
<1> QED BY <1>1, <1>2, <1>3, <1>5 DEF Goes

LEMMA WritesGoOn ==
  ASSUME Base, NEW p \in Paths
  PROVE  /\ WriteChecked(p) => Goes(p, "checked", saving[p].mtime, saving[p].found)
         /\ WriteStale(p) => Goes(p, "stale", mtime_at(p), IF exists(p) THEN disk[p].text ELSE None)
         /\ WriteReplaced(p) => Goes(p, "replaced", saving[p].mtime, saving[p].found)
         /\ WriteFailed(p) => Goes(p, "failed", saving[p].mtime, saving[p].found)
         /\ WriteStamped(p) => Goes(p, "written", mtime_at(p), saving[p].found)
<1>1. ASSUME saving[p] # None
      PROVE  saving[p] \in Saves /\ saving[p].mtime \in Times /\ saving[p].found \in Times
  BY <1>1 DEF Base, TypeOK, Saves
<1>2. mtime_at(p) \in Times /\ (IF exists(p) THEN disk[p].text ELSE None) \in Times
  BY DEF Base, TypeOK, mtime_at, exists, Files, Times
<1>3. ASSUME NEW at \in {"checked", "replaced", "failed"}, saving[p] # None, saving' = [saving EXCEPT ![p].at = at]
      PROVE  Goes(p, at, saving[p].mtime, saving[p].found)
  <2>1. saving' = [saving EXCEPT ![p] = [saving[p] EXCEPT !.at = at, !.mtime = saving[p].mtime, !.found = saving[p].found]]
    BY <1>1, <1>3 DEF Base, TypeOK, Saves
  <2> QED BY <1>1, <1>3, <2>1, SaveGoesOn DEF Base
<1>4. WriteChecked(p) => Goes(p, "checked", saving[p].mtime, saving[p].found)
  BY <1>3 DEF WriteChecked, Write, Writing
<1>5. WriteReplaced(p) => Goes(p, "replaced", saving[p].mtime, saving[p].found)
  BY <1>3 DEF WriteReplaced, Write, Writing
<1>6. WriteFailed(p) => Goes(p, "failed", saving[p].mtime, saving[p].found)
  BY <1>3 DEF WriteFailed, Write, Writing
<1>7. ASSUME WriteStale(p)
      PROVE  Goes(p, "stale", mtime_at(p), IF exists(p) THEN disk[p].text ELSE None)
  <2> DEFINE found == IF exists(p) THEN disk[p].text ELSE None
  <2>1. /\ saving[p] # None
        /\ saving' = [saving EXCEPT ![p].at = "stale", ![p].mtime = mtime_at(p), ![p].found = found]
    BY <1>7 DEF WriteStale, Writing
  <2>2. found \in Times
    BY <1>2
  <2> HIDE DEF found
  <2>3. saving' = [saving EXCEPT ![p] = [saving[p] EXCEPT !.at = "stale", !.mtime = mtime_at(p), !.found = found]]
    BY <1>1, <2>1 DEF Base, TypeOK, Saves
  <2>4. Goes(p, "stale", mtime_at(p), found)
    BY <1>2, <2>1, <2>2, <2>3, SaveGoesOn DEF Base
  <2> QED BY <2>4 DEF found
<1>8. ASSUME WriteStamped(p)
      PROVE  Goes(p, "written", mtime_at(p), saving[p].found)
  <2>1. saving[p] # None /\ saving' = [saving EXCEPT ![p].at = "written", ![p].mtime = mtime_at(p)]
    BY <1>8 DEF WriteStamped, Writing
  <2>2. saving' = [saving EXCEPT ![p] = [saving[p] EXCEPT !.at = "written", !.mtime = mtime_at(p), !.found = saving[p].found]]
    BY <1>1, <2>1 DEF Base, TypeOK, Saves
  <2> QED BY <1>1, <1>2, <2>1, <2>2, SaveGoesOn DEF Base
<1> QED BY <1>4, <1>5, <1>6, <1>7, <1>8

\* the steps of files/write before it answers
WriteMoves(p) == WriteChecked(p) \/ WriteStale(p) \/ WriteReplaced(p) \/ WriteFailed(p) \/ WriteStamped(p)

LEMMA WriteFits ==
  ASSUME Base, NEW p \in Paths, WriteMoves(p)
  PROVE  Base' /\ UNCHANGED <<tabs, active, docs, pane, stats, moving, deleting, gestures>>
<1>1. UNCHANGED <<tabs, active, docs, pane, stats, moving, deleting, gestures>>
  BY DEF WriteMoves, WriteChecked, WriteStale, WriteReplaced, WriteFailed, WriteStamped, idle, bounds
<1>2. /\ saving[p] \in Saves /\ saving' \in SaveTable /\ saving'[p] # None
      /\ \A q \in Paths \ {p} : saving'[q] = saving[q]
      /\ saving'[p].doc = saving[p].doc /\ saving'[p].callers = saving[p].callers
  BY WritesGoOn DEF WriteMoves, Goes
<1>3. saving[p] # None
  BY <1>2, NoneIsNothing
<1>4. FitDocs(saving', docs') /\ FitTold(saving', active', Editing')
  BY <1>1, <1>2, <1>3 DEF Base, Shape, FitDocs, FitTold, Editing
<1>5. disk' \in [Paths -> Files \cup {None}] /\ held' \in [Paths -> SUBSET Nat] /\ clock' \in Nat
  <2>1. CASE WriteReplaced(p)
    <3>1. clock + 1 \in Nat /\ saving[p].text \in Nat
      BY <1>2 DEF Base, TypeOK, Saves
    <3>2. [text |-> saving[p].text, mtime |-> clock + 1] \in Files
      BY <3>1 DEF Files
    <3>3. disk' \in [Paths -> Files \cup {None}]
      BY <2>1, <3>2 DEF WriteReplaced, Base, TypeOK
    <3>4. held' \in [Paths -> SUBSET Nat]
      BY <2>1, <3>1 DEF WriteReplaced, Base, TypeOK
    <3> QED BY <2>1, <3>1, <3>3, <3>4 DEF WriteReplaced
  <2>2. CASE ~WriteReplaced(p)
    BY <2>2 DEF WriteMoves, WriteChecked, WriteStale, WriteFailed, WriteStamped, Base, TypeOK, files, bounds
  <2> QED BY <2>1, <2>2
<1> QED BY <1>1, <1>2, <1>4, <1>5 DEF Base, TypeOK, Shape, SaveTable

\* the saves in flight without the one that has been answered
Ended(p) == [saving EXCEPT ![p] = None]

LEMMA EndedFits ==
  ASSUME Base, NEW p \in Paths
  PROVE  /\ Ended(p) \in SaveTable /\ Ended(p)[p] = None /\ \A q \in Paths \ {p} : Ended(p)[q] = saving[q]
         /\ FitDocs(Ended(p), docs) /\ FitTold(Ended(p), active, Editing)
<1>1. /\ Ended(p) \in SaveTable /\ Ended(p)[p] = None /\ \A q \in Paths \ {p} : Ended(p)[q] = saving[q]
  BY DEF Ended, Base, TypeOK, SaveTable
<1> QED BY <1>1 DEF Base, Shape, FitDocs, FitTold

\* what the answer to a save writes into the buffer it holds
StoresIn(save) ==
    /\ save.doc = None => docs' = docs
    /\ save.doc # None =>
         /\ \A q \in Paths \ {save.doc} : docs'[q] = docs[q]
         /\ docs'[save.doc] \in Documents /\ docs'[save.doc].text = docs[save.doc].text
         /\ docs'[save.doc].saved = save.text /\ docs'[save.doc].base = save.mtime
         /\ docs'[save.doc].knows = docs[save.doc].knows \cup {save.text}

\* the answer closes the tab its question was about, or is stored in the buffer
WrittenCloses(p) ==
    /\ "close" \in saving[p].callers /\ View(Ended(p))
    /\ \A q \in Paths : (tabs[q] = None => tabs'[q] = None) /\ (q # p => docs'[q] = docs[q])
WrittenStores(p) ==
    /\ StoresIn(saving[p]) /\ saving' = Ended(p) /\ active' = active /\ SameTabs(tabs, tabs')
    /\ pane' = pane \/ (pane.at = "conflict" /\ pane' = Pane("editing"))

LEMMA WrittenFits ==
  ASSUME Base, NEW p \in Paths, Written(p)
  PROVE  /\ Base' /\ saving[p] \in Saves /\ saving[p].at = "written"
         /\ UNCHANGED <<disk, held, moving, clock>>
         /\ WrittenCloses(p) \/ WrittenStores(p)
<1> DEFINE save == saving[p]
           stored == IF save.doc = None THEN docs
                     ELSE [docs EXCEPT ![save.doc].saved = save.text,
                                       ![save.doc].base = save.mtime, ![save.doc].knows = @ \cup {save.text}]
<1>1. /\ saving[p] # None /\ save.at = "written"
      /\ UNCHANGED <<disk, held, stats, moving, deleting, clock, gestures>>
      /\ \/ "close" \in save.callers /\ tabs[p] # None /\ drop(p, Ended(p))
         \/ /\ docs' = stored
            /\ tabs' = IF tabs[p] = None THEN tabs ELSE [tabs EXCEPT ![p].mtime = save.mtime, ![p].asks = "nothing"]
            /\ pane' = IF save.callers \cap {"viewer", "overwrite"} # {} /\ pane.at = "conflict" THEN Pane("editing") ELSE pane
            /\ saving' = Ended(p) /\ active' = active
  BY DEF Written, Writing, Ended, SavedAs, files, idle, bounds
<1>2. save \in Saves /\ save.doc \in Paths \cup {None} /\ save.text \in Nat /\ save.mtime \in Times
  BY <1>1 DEF Base, TypeOK, Saves
<1>3. /\ Ended(p) \in SaveTable /\ Ended(p)[p] = None /\ \A q \in Paths \ {p} : Ended(p)[q] = saving[q]
      /\ FitDocs(Ended(p), docs) /\ FitTold(Ended(p), active, Editing)
  BY EndedFits
<1>4. CASE "close" \in save.callers /\ tabs[p] # None /\ drop(p, Ended(p))
  <2> DEFINE svs == Ended(p)
  <2>1. svs \in SaveTable /\ FitDocs(svs, docs) /\ FitTold(svs, active, Editing) /\ drop(p, svs)
    BY <1>3, <1>4
  <2> HIDE DEF svs
  <2>2. /\ Fits /\ View(svs)
        /\ \A q \in Paths : tabs'[q] \in {tabs[q], None} /\ (q # p => docs'[q] = docs[q])
    BY <2>1, DropFits
  <2>3. WrittenCloses(p)
    BY <1>4, <2>2 DEF WrittenCloses, svs
  <2>4. Base'
    BY <1>1, <2>2, ViewIsBase DEF Base, TypeOK
  <2> QED BY <1>1, <1>2, <2>3, <2>4
<1>5. CASE /\ docs' = stored
           /\ tabs' = IF tabs[p] = None THEN tabs ELSE [tabs EXCEPT ![p].mtime = save.mtime, ![p].asks = "nothing"]
           /\ pane' = IF save.callers \cap {"viewer", "overwrite"} # {} /\ pane.at = "conflict" THEN Pane("editing") ELSE pane
           /\ saving' = Ended(p) /\ active' = active
  <2>1. docs' \in DocTable /\ StoresIn(save) /\ \A q \in Paths : docs'[q] = None <=> docs[q] = None
    <3>1. CASE save.doc = None
      BY <1>5, <3>1 DEF StoresIn, Base, TypeOK, DocTable
    <3>2. CASE save.doc # None
      <4> DEFINE at == save.doc
                 d == [docs[at] EXCEPT !.saved = save.text, !.base = save.mtime, !.knows = docs[at].knows \cup {save.text}]
      <4>1. at \in Paths /\ docs[at] # None
        BY <1>1, <1>2, <3>2 DEF Base, Shape, FitDocs
      <4>2. docs[at] \in Documents
        BY <4>1 DEF Base, TypeOK
      <4>3. /\ d \in Documents /\ d.text = docs[at].text /\ d.saved = save.text /\ d.base = save.mtime
            /\ d.knows = docs[at].knows \cup {save.text}
        BY <1>2, <4>2 DEF Documents
      <4>4. d # None
        BY <4>3, NoneIsNothing
      <4>5. docs' = [docs EXCEPT ![at] = d]
        BY <1>5, <3>2, <4>1, <4>2 DEF Base, TypeOK
      <4> HIDE DEF d
      <4>6. docs' \in DocTable /\ docs'[at] = d /\ \A q \in Paths \ {at} : docs'[q] = docs[q]
        BY <4>1, <4>3, <4>5 DEF Base, TypeOK, DocTable
      <4> QED BY <3>2, <4>1, <4>3, <4>4, <4>6 DEF StoresIn
    <3> QED BY <3>1, <3>2
  <2>2. /\ tabs' \in TabTable /\ SameTabs(tabs, tabs')
        /\ \A q \in Paths : tabs'[q] # None /\ tabs'[q].asks = "closing" => tabs[q].asks = "closing"
    <3>1. CASE tabs[p] = None
      BY <1>5, <3>1 DEF Base, TypeOK, TabTable, SameTabs
    <3>2. CASE tabs[p] # None
      <4> DEFINE t == [tabs[p] EXCEPT !.mtime = save.mtime, !.asks = "nothing"]
      <4>1. tabs[p] \in Tabs
        BY <3>2 DEF Base, TypeOK
      <4>2. t \in Tabs /\ t.asks = "nothing"
        BY <1>2, <4>1 DEF Tabs
      <4>3. tabs' = [tabs EXCEPT ![p] = t]
        BY <1>5, <3>2 DEF Base, TypeOK
      <4> HIDE DEF t
      <4> QED BY <3>2, <4>2, <4>3, TabThere DEF Base, TypeOK, TabTable, SameTabs
    <3> QED BY <3>1, <3>2
  <2>3. pane' \in Panes /\ (pane' = pane \/ (pane.at = "conflict" /\ pane' = Pane("editing")))
    BY <1>5 DEF Base, TypeOK, Pane, Panes, Times
  <2>4. pane'.at = pane.at \/ (pane.at = "conflict" /\ pane'.at = "editing")
    BY <2>3 DEF Pane
  <2>5. FitDocs(saving', docs')
    <3>1. ASSUME NEW q \in Paths, saving'[q] # None, saving'[q].doc # None
          PROVE  docs'[saving'[q].doc] # None
      <4>1. /\ saving'[q] = Ended(p)[q] /\ Ended(p)[q] # None /\ Ended(p)[q].doc # None
        BY <1>5, <3>1
      <4>2. Ended(p)[q] \in Saves
        BY <1>3, <4>1 DEF SaveTable
      <4>3. Ended(p)[q].doc \in Paths
        BY <4>1, <4>2 DEF Saves
      <4>4. docs[Ended(p)[q].doc] # None
        BY <1>3, <4>1 DEF FitDocs
      <4> QED BY <2>1, <4>1, <4>3, <4>4
    <3> QED BY <3>1 DEF FitDocs
  <2>6. FitTold(saving', active', Editing')
    BY <1>3, <1>5, <2>4 DEF FitTold, Editing
  <2>7. FitTabs(tabs', docs')
    BY <2>1, <2>2 DEF Base, Shape, FitTabs, SameTabs
  <2>8. FitPane(pane', active', tabs', docs')
    BY <1>5, <2>1, <2>2, <2>3, <2>4 DEF Base, TypeOK, Shape, FitPane, SameTabs
  <2>9. Base'
    BY <1>1, <1>3, <1>5, <2>1, <2>2, <2>3, <2>5, <2>6, <2>7, <2>8
       DEF Base, Shape, TypeOK, DocTable, TabTable, SaveTable
  <2>10. WrittenStores(p)
    BY <1>5, <2>1, <2>2, <2>3 DEF WrittenStores
  <2> QED BY <1>1, <1>2, <2>9, <2>10
<1> QED BY <1>1, <1>4, <1>5

(* A refused save is told to those who wait for it. *)
LEMMA RefusedFits ==
  ASSUME Base, NEW p \in Paths, WriteRefused(p)
  PROVE  /\ Base' /\ saving[p] \in Saves /\ saving' = Ended(p) /\ SameTabs(tabs, tabs')
         /\ UNCHANGED <<disk, held, active, docs, moving, clock>>
         /\ \/ pane' = pane
            \/ pane'.at = "failed" /\ active # None
            \/ /\ saving[p].at = "stale" /\ p = active /\ Editing
               /\ pane' = [at |-> "conflict", mtime |-> saving[p].mtime, text |-> saving[p].found]
<1> DEFINE save == saving[p]
<1>1. /\ saving[p] # None /\ saving' = Ended(p)
      /\ UNCHANGED <<disk, held, active, docs, stats, moving, deleting, clock, gestures>>
      /\ tabs' = IF "close" \in save.callers THEN Noticed(tabs, p, "failed") ELSE tabs
      /\ pane' = IF "overwrite" \in save.callers THEN Pane("failed")
                 ELSE IF "viewer" \in save.callers /\ save.at = "stale"
                   THEN [at |-> "conflict", mtime |-> save.mtime, text |-> save.found]
                 ELSE pane
  BY DEF WriteRefused, Writing, Ended, files, idle, bounds
<1>2. save \in Saves /\ save.mtime \in Times /\ save.found \in Times
  BY <1>1 DEF Base, TypeOK, Saves
<1>3. /\ Ended(p) \in SaveTable /\ Ended(p)[p] = None /\ \A q \in Paths \ {p} : Ended(p)[q] = saving[q]
      /\ FitDocs(Ended(p), docs) /\ FitTold(Ended(p), active, Editing)
  BY EndedFits
<1>4. /\ tabs' \in TabTable /\ SameTabs(tabs, tabs')
      /\ \A q \in Paths : tabs'[q] # None /\ tabs'[q].asks = "closing" => tabs[q].asks = "closing"
  <2>1. tabs \in TabTable /\ "failed" \in {"nothing", "closing", "failed", "changed"}
    BY DEF Base, TypeOK, TabTable
  <2>2. CASE tabs' = tabs
    BY <2>1, <2>2 DEF SameTabs
  <2>3. CASE tabs' = Noticed(tabs, p, "failed")
    <3>1. /\ Noticed(tabs, p, "failed") \in TabTable /\ SameTabs(tabs, Noticed(tabs, p, "failed"))
          /\ \A q \in Paths \ {p} : Noticed(tabs, p, "failed")[q] = tabs[q]
          /\ tabs[p] # None => Noticed(tabs, p, "failed")[p].asks = "failed"
      BY <2>1, NoticedTabs
    <3> QED BY <2>3, <3>1 DEF SameTabs
  <2> QED BY <1>1, <2>2, <2>3
<1>5. save.callers \cap Told # {} => p = active /\ Editing
  BY <1>1 DEF Base, Shape, FitTold
<1>6. \/ pane' = pane /\ pane' \in Panes
      \/ pane'.at = "failed" /\ pane' \in Panes /\ p = active /\ Editing
      \/ /\ save.at = "stale" /\ pane' = [at |-> "conflict", mtime |-> save.mtime, text |-> save.found]
         /\ pane' \in Panes /\ p = active /\ Editing
  <2>1. CASE "overwrite" \in save.callers
    BY <1>1, <1>5, <2>1 DEF Told, Pane, Panes, Times
  <2>2. CASE "overwrite" \notin save.callers /\ "viewer" \in save.callers /\ save.at = "stale"
    BY <1>1, <1>2, <1>5, <2>2 DEF Told, Panes
  <2>3. CASE "overwrite" \notin save.callers /\ ~("viewer" \in save.callers /\ save.at = "stale")
    BY <1>1, <2>3 DEF Base, TypeOK
  <2> QED BY <2>1, <2>2, <2>3
<1>7. FitTold(saving', active', Editing')
  BY <1>1, <1>3, <1>6 DEF FitTold, Editing, Base, Shape
<1>8. FitTabs(tabs', docs')
  BY <1>1, <1>4 DEF Base, Shape, FitTabs, SameTabs
<1>9. FitPane(pane', active', tabs', docs')
  BY <1>1, <1>4, <1>6, NoneIsNothing DEF Base, TypeOK, Shape, FitPane, SameTabs, Editing
<1>10. Base'
  BY <1>1, <1>3, <1>4, <1>6, <1>7, <1>8, <1>9 DEF Base, Shape, TypeOK, TabTable, SaveTable
<1>11. active # None \/ p # active
  BY NoneIsNothing
<1> QED BY <1>1, <1>2, <1>4, <1>6, <1>10, <1>11

\* the buffer of a renamed file moves with it, and the saves that hold it follow
Rekeyed(from, to) ==
    /\ docs[from] = None => docs' = docs
    /\ docs[from] # None => /\ docs'[to] = docs[from] /\ docs'[from] = None
                            /\ \A q \in Paths \ {from, to} : docs'[q] = docs[q]
    /\ Carries(saving, saving')
    /\ \A q \in Paths : saving[q] # None =>
         saving'[q].doc = IF docs[from] = None THEN saving[q].doc
                          ELSE IF saving[q].doc = to THEN None
                          ELSE IF saving[q].doc = from THEN to ELSE saving[q].doc
    /\ tabs'[from] = None /\ \A q \in Paths \ {from, to} : tabs'[q] = tabs[q]
    /\ active' = (IF active = from THEN to ELSE active)
    /\ (active # from /\ pane' = pane) \/ pane' = Mounted(active', docs')

LEMMA RekeyFits ==
  ASSUME Base, RenameHeard
  PROVE  /\ Base' /\ moving \in Renames /\ moving.done /\ moving' = None /\ UNCHANGED <<disk, held, clock>>
         /\ \/ UNCHANGED <<tabs, docs, active, pane, saving>>
            \/ tabs[moving.from] # None /\ Rekeyed(moving.from, moving.to)
<1> DEFINE from == moving.from  to == moving.to
           next == IF active = from THEN to ELSE active
           svs == IF docs[from] = None THEN saving ELSE Follows(Follows(saving, to, None), from, to)
<1>1. /\ moving # None /\ moving.done /\ moving' = None /\ UNCHANGED <<disk, held, deleting, clock, gestures>>
      /\ tabs[from] = None => UNCHANGED <<tabs, active, docs, pane, saving, stats>>
      /\ tabs[from] # None =>
           /\ docs' = rekey(docs, from, to)
           /\ tabs' = [tabs EXCEPT ![from] = None, ![to] = [tabs[from] EXCEPT !.missing = FALSE, !.asks = "nothing"]]
           /\ stats' = stats \cup {restat(to)}
           /\ Shows(next, FALSE, svs)
  BY DEF RenameHeard, files, bounds
<1>2. moving \in Renames
  BY <1>1 DEF Base, TypeOK
<1>3. from \in Paths /\ to \in Paths /\ from # to
  BY <1>2 DEF Renames
<1> HIDE DEF from, to
<1>4. CASE tabs[from] = None
  <2>1. UNCHANGED <<disk, held, deleting, clock, gestures, tabs, active, docs, pane, saving, stats>> /\ moving' = None
    BY <1>1, <1>4
  <2>2. Base'
    BY <2>1 DEF Base, TypeOK, Shape, Editing
  <2> QED BY <1>1, <1>2, <2>1, <2>2
<1>5. CASE tabs[from] # None
  <2> DEFINE t == [tabs[from] EXCEPT !.missing = FALSE, !.asks = "nothing"]
  <2>1. tabs[from] \in Tabs
    BY <1>3, <1>5 DEF Base, TypeOK
  <2>2. t \in Tabs /\ t.asks = "nothing"
    BY <2>1 DEF Tabs
  <2>3. tabs' = [tabs EXCEPT ![from] = None, ![to] = t]
    BY <1>1, <1>5
  <2>4. t # None
    BY <2>2, TabThere
  <2> HIDE DEF t
  <2>5. /\ tabs' \in TabTable /\ tabs'[from] = None /\ tabs'[to] = t
        /\ \A q \in Paths \ {from, to} : tabs'[q] = tabs[q]
    BY <1>3, <2>2, <2>3 DEF Base, TypeOK, TabTable
  <2>6. /\ docs' \in DocTable
        /\ docs[from] = None => docs' = docs
        /\ docs[from] # None => /\ docs'[to] = docs[from] /\ docs'[from] = None
                                /\ \A q \in Paths \ {from, to} : docs'[q] = docs[q]
    <3>1. docs' = IF docs[from] = None THEN docs ELSE [docs EXCEPT ![to] = docs[from], ![from] = None]
      BY <1>1, <1>5 DEF rekey
    <3>2. docs \in DocTable
      BY DEF Base, TypeOK, DocTable
    <3> QED BY <1>3, <3>1, <3>2 DEF DocTable
  <2>7. saving \in SaveTable
    BY DEF Base, TypeOK, SaveTable
  <2>8. /\ svs \in SaveTable /\ Carries(saving, svs) /\ SameCallers(saving, svs)
        /\ \A q \in Paths : saving[q] # None =>
             svs[q].doc = IF docs[from] = None THEN saving[q].doc
                          ELSE IF saving[q].doc = to THEN None
                          ELSE IF saving[q].doc = from THEN to ELSE saving[q].doc
    <3>1. CASE docs[from] = None
      BY <2>7, <3>1, CarriesOn DEF SameCallers
    <3>2. CASE docs[from] # None
      <4> DEFINE a == Follows(saving, to, None)  b == Follows(a, from, to)
      <4>1. a \in SaveTable /\ Carries(saving, a) /\ SameCallers(saving, a) /\ DocsFollow(saving, a, to, None)
        BY <1>3, <2>7, FollowsCarries
      <4> HIDE DEF a
      <4>2. b \in SaveTable /\ Carries(a, b) /\ SameCallers(a, b) /\ DocsFollow(a, b, from, to)
        BY <1>3, <4>1, FollowsCarries
      <4>3. svs = b
        BY <3>2 DEF a
      <4> HIDE DEF b, svs
      <4>4. Carries(saving, b)
        BY <2>7, <4>1, <4>2, CarriesOn
      <4>5. SameCallers(saving, b)
        BY <4>1, <4>2 DEF SameCallers, Carries
      <4>6. \A q \in Paths : saving[q] # None =>
               b[q].doc = IF saving[q].doc = to THEN None
                          ELSE IF saving[q].doc = from THEN to ELSE saving[q].doc
        <5>1. ASSUME NEW q \in Paths, saving[q] # None
              PROVE  b[q].doc = IF saving[q].doc = to THEN None
                                ELSE IF saving[q].doc = from THEN to ELSE saving[q].doc
          <6>1. a[q].doc = (IF saving[q].doc = to THEN None ELSE saving[q].doc) /\ a[q] # None
            BY <4>1, <5>1 DEF DocsFollow, Carries
          <6>2. b[q].doc = (IF a[q].doc = from THEN to ELSE a[q].doc)
            BY <4>2, <6>1 DEF DocsFollow
          <6>3. from # None
            BY <1>3, NoneIsNothing
          <6> QED BY <1>3, <6>1, <6>2, <6>3
        <5> QED BY <5>1
      <4> QED BY <3>2, <4>2, <4>3, <4>4, <4>5, <4>6
    <3> QED BY <3>1, <3>2
  <2>9. Shows(next, FALSE, svs)
    BY <1>1, <1>5
  <2>10. next \in Paths \cup {None} /\ (next # None => tabs'[next] # None) /\ (next = active => active # from)
    <3>1. active \in Paths \cup {None} /\ (active # None => tabs[active] # None)
      BY DEF Base, TypeOK, Shape, FitPane
    <3> QED BY <1>3, <2>4, <2>5, <3>1
  <2>11. FitTold(svs, active, Editing)
    BY <2>8 DEF Base, Shape, FitTold, SameCallers, Carries
  <2> HIDE DEF svs
  <2>12. Editing /\ next = active => docs'[next] # None
    BY <1>3, <2>6, <2>10, NoneIsNothing DEF Base, TypeOK, Shape, FitPane, Editing
  <2> HIDE DEF next
  <2>13. /\ active' \in Paths \cup {None} /\ pane' \in Panes /\ saving' \in SaveTable
         /\ FitPane(pane', active', tabs', docs') /\ FitTold(saving', active', Editing')
         /\ Carries(svs, saving') /\ SameDocs(svs, saving')
         /\ active' = next /\ ((next = active /\ pane' = pane) \/ pane' = Mounted(next, docs'))
    <3>1. TypeOK /\ Shape /\ FALSE \in BOOLEAN
      BY DEF Base
    <3> QED BY <2>8, <2>9, <2>10, <2>11, <2>12, <3>1, ShowsFits
  <2>14. Carries(saving, saving')
    BY <2>7, <2>8, <2>13, CarriesOn
  <2>15. \A q \in Paths : saving[q] # None =>
           saving'[q].doc = IF docs[from] = None THEN saving[q].doc
                            ELSE IF saving[q].doc = to THEN None
                            ELSE IF saving[q].doc = from THEN to ELSE saving[q].doc
    BY <2>8, <2>13 DEF SameDocs, Carries
  <2>16. FitDocs(saving', docs')
    <3>1. ASSUME NEW q \in Paths, saving'[q] # None, saving'[q].doc # None
          PROVE  docs'[saving'[q].doc] # None
      <4>1. saving[q] # None
        BY <2>14, <3>1 DEF Carries
      <4>2. saving[q] \in Saves
        BY <2>7, <4>1 DEF SaveTable
      <4>3. saving[q].doc \in Paths \cup {None} /\ (saving[q].doc # None => docs[saving[q].doc] # None)
        BY <4>1, <4>2 DEF Saves, Base, Shape, FitDocs
      <4>4. saving'[q].doc = IF docs[from] = None THEN saving[q].doc
                             ELSE IF saving[q].doc = to THEN None
                             ELSE IF saving[q].doc = from THEN to ELSE saving[q].doc
        BY <2>15, <4>1
      <4> QED BY <1>3, <2>6, <3>1, <4>3, <4>4
    <3> QED BY <3>1 DEF FitDocs
  <2>17. FitTabs(tabs', docs')
    <3>1. ASSUME NEW q \in Paths
          PROVE  /\ docs'[q] # None => tabs'[q] # None
                 /\ tabs'[q] # None /\ tabs'[q].asks = "closing" => docs'[q] # None
      <4>1. /\ docs[q] # None => tabs[q] # None
            /\ tabs[q] # None /\ tabs[q].asks = "closing" => docs[q] # None
        BY DEF Base, Shape, FitTabs
      <4>2. CASE q = from
        BY <1>3, <2>4, <2>5, <2>6, <4>1, <4>2
      <4>3. CASE q = to
        BY <2>2, <2>4, <2>5, <4>3
      <4>4. CASE q # from /\ q # to
        BY <2>5, <2>6, <4>1, <4>4
      <4> QED BY <4>2, <4>3, <4>4
    <3> QED BY <3>1 DEF FitTabs
  <2>18. stats' \subseteq Calls
    BY <1>1, <1>3, <1>5, CallsTyped DEF Base, TypeOK, TabTable
  <2>19. Base'
    BY <1>1, <2>5, <2>6, <2>13, <2>16, <2>17, <2>18 DEF Base, Shape, TypeOK, TabTable, DocTable, SaveTable
  <2>20. Rekeyed(from, to)
    BY <2>5, <2>6, <2>10, <2>13, <2>14, <2>15 DEF Rekeyed, next
  <2> QED BY <1>1, <1>2, <1>5, <2>19, <2>20 DEF from, to
<1> QED BY <1>4, <1>5

(* Every step is one of these. *)
LEMMA StepKinds ==
  ASSUME Base, Next
  PROVE  \/ ViewStep \/ FileStep \/ ReadStep \/ Type \/ Undo \/ Save \/ Overwrite \/ RenameHeard
         \/ \E p \in Paths : SaveAndClose(p) \/ WriteMoves(p) \/ Written(p) \/ WriteRefused(p)
<1>1. CASE UserStep
  <2>1. ASSUME NEW p \in Paths, NEW flag \in BOOLEAN, OpenAgain(p, flag) \/ OpenBeside(p, flag) \/ activate(p, flag)
        PROVE  ViewStep
    BY <2>1, OpenAgainViews, OpenBesideViews
  <2>2. ASSUME NEW p \in Paths, OpenInSlot(p) \/ close(p) \/ DiscardAndClose(p) \/ ReloadFromDisk(p)
        PROVE  ViewStep
    BY <2>2, OpenInSlotViews, ClosesViews, ReloadsView
  <2>3. ASSUME NEW p \in Paths, KeepEditing(p) \/ KeepMine(p)
        PROVE  ViewStep
    BY <2>3, UserNoticesViews
  <2>4. CASE Focus
    <3>1. CASE Paths = {}
      <4>1. Focus => ViewStep
        <5>1. tabs \in TabTable /\ saving \in SaveTable
          BY DEF Base, TypeOK, TabTable, SaveTable
        <5>2. /\ UNCHANGED <<disk, held, tabs, active, docs, pane, saving, moving, deleting, clock>>
              /\ stats' \subseteq Calls /\ gestures' \in [kinds : SUBSET AllKinds, left : Nat]
          BY <2>4, <3>1, <5>1, GestureTyped DEF Focus, Asks, Base, TypeOK, files, idle, poll
        <5>3. Fits /\ View(saving)
          BY <5>1, <5>2, TabsFit DEF SameTabs
        <5>4. Base'
          BY <5>2, <5>3, ViewIsBase DEF Base, TypeOK
        <5> QED BY <3>1, <5>2, <5>3, <5>4 DEF ViewStep
      <4> QED BY <2>4, <4>1
    <3>2. CASE Paths # {}
      BY <2>4, <3>2, UserNoticesViews
    <3> QED BY <3>1, <3>2
  <2>5. DeleteStep => ViewStep
    BY DeleteViews
  <2> QED BY <1>1, <2>1, <2>2, <2>3, <2>4, <2>5 DEF UserStep, FileStep, DeleteStep
<1>2. CASE StatStep
  BY <1>2, StatViews, PolledCleanViews DEF StatStep
<1>3. CASE ReadStep \/ WriteStep
  BY <1>3 DEF WriteStep, WriteMoves
<1>4. CASE TreeStep \/ Outside
  BY <1>4, DropUnderViews, DeleteViews DEF TreeStep, Outside, FileStep, DeleteStep
<1> QED BY <1>1, <1>2, <1>3, <1>4 DEF Next

LEMMA BaseKept ==
  ASSUME Base, [Next]_vars
  PROVE  Base'
<1>1. CASE Next
  BY <1>1, StepKinds, FileStepFits, ReadFits, EditFits, SaveFits, OverwriteFits, SaveAndCloseFits, WriteFits,
     WrittenFits, RefusedFits, RekeyFits DEF ViewStep
<1>2. CASE UNCHANGED vars
  BY <1>2 DEF vars, Base, TypeOK, Shape, Editing
<1> QED BY <1>1, <1>2

LEMMA BaseInit ==
  ASSUME Init
  PROVE  Base
<1>1. Cardinality(Paths) \in Nat /\ 1..Cardinality(Paths) \subseteq Nat
  BY BoundsAreNat, FS_CardinalityType
<1>2. PICK number \in [Paths -> 1..Cardinality(Paths)] :
        /\ disk = [p \in Paths |-> [text |-> number[p], mtime |-> number[p]]]
        /\ held = [p \in Paths |-> {number[p]}]
  BY DEF Init
<1>3. \A p \in Paths : number[p] \in Nat
  BY <1>1, <1>2
<1>4. disk \in [Paths -> Files \cup {None}] /\ held \in [Paths -> SUBSET Nat]
  BY <1>2, <1>3 DEF Files
<1>5. /\ tabs \in [Paths -> Tabs \cup {None}] /\ active \in Paths \cup {None}
      /\ docs \in [Paths -> Documents \cup {None}] /\ pane \in Panes
      /\ saving \in [Paths -> Saves \cup {None}] /\ stats \subseteq Calls
      /\ moving \in Renames \cup {None} /\ deleting \in Deletes \cup {None}
      /\ clock \in Nat /\ gestures \in [kinds : SUBSET AllKinds, left : Nat]
  BY <1>1, SessionsKnown DEF Init, Pane, Panes, Times
<1>6. Shape
  BY DEF Init, Shape, FitDocs, FitTold, FitTabs, FitPane, Pane, Editing
<1> QED BY <1>4, <1>5, <1>6 DEF Base, TypeOK

(* Every variable holds what its declaration says, whatever races: a save in    *)
(* flight is of a buffer that is there or of none, and the viewer, its tab and   *)
(* its buffer belong together (useOpenFiles.ts, DocumentStore.ts).              *)
THEOREM OpenFilesTypeCorrect == Spec => [](TypeOK /\ Shape)
<1>1. Base /\ [Next]_vars => Base'
  BY BaseKept
<1>2. Init => Base
  BY BaseInit
<1>3. Spec => []Base
  BY <1>1, <1>2, PTL DEF Spec
<1> QED BY <1>3, PTL DEF Base

-----------------------------------------------------------------------------
(* Saves stay with their files while no rename and no save overlap.            *)

RenamesAlone == Races \cap {"rename during a save", "writer during a rename"} = {}

\* a save holds its own file's buffer or none, and a file under a rename is not being saved;
\* once renamed, the new path has held what the old one did
Stay ==
    /\ \A p \in Paths : saving[p] # None => saving[p].doc \in {p, None}
    /\ moving # None => saving[moving.from] = None
    /\ moving # None /\ moving.done => disk[moving.from] = None /\ held[moving.from] \subseteq held[moving.to]

(* What the tree and the writers outside do to the disk. *)
LEMMA FileStepWrites ==
  ASSUME Base, FileStep
  PROVE  \/ /\ \E p \in Paths : OutsideWrite(p) /\ disk' = [disk EXCEPT ![p] = [text |-> clock + 1, mtime |-> clock + 1]]
                                /\ held' = [held EXCEPT ![p] = @ \cup {clock + 1}] /\ clock' = clock + 1
                                /\ Outlasts(p)
                                /\ (moving # None /\ moving.from = p => "writer during a rename" \in Races)
            /\ moving' = moving
         \/ /\ \E p \in Paths : disk' = [disk EXCEPT ![p] = None] /\ Outlasts(p)
            /\ UNCHANGED <<held, moving, clock>>
         \/ /\ rename_at /\ moving \in Renames /\ ~moving.done /\ moving' = [moving EXCEPT !.done = TRUE]
            /\ disk[moving.from] # None /\ disk[moving.to] = None
            /\ disk' = [disk EXCEPT ![moving.to] = disk[moving.from], ![moving.from] = None]
            /\ held' = [held EXCEPT ![moving.to] = @ \cup held[moving.from]] /\ clock' = clock
         \/ /\ \E from, to \in Paths : RenameAsked(from, to) /\ moving' = [from |-> from, to |-> to, done |-> FALSE]
                                       /\ moving = None
                                       /\ (saving[from] = None \/ "rename during a save" \in Races)
                                       /\ ((tabs[to] = None /\ saving[to] = None) \/ "rename onto a tab" \in Races)
            /\ UNCHANGED <<disk, held, clock>>
         \/ /\ moving' = moving \/ (moving' = None /\ ~moving.done)
            /\ UNCHANGED <<disk, held, clock>>
<1>1. CASE rename_at
  <2>1. moving \in Renames
    BY <1>1 DEF rename_at, Base, TypeOK
  <2> QED BY <1>1, <2>1 DEF rename_at, exists, files, bounds
<1>2. CASE delete_at
  <2>1. deleting.path \in Paths
    BY <1>2 DEF delete_at, Base, TypeOK, Deletes
  <2> QED BY <1>2, <2>1 DEF delete_at, bounds
<1>3. ASSUME NEW p \in Paths, OutsideWrite(p)
      PROVE  /\ OutsideWrite(p) /\ disk' = [disk EXCEPT ![p] = [text |-> clock + 1, mtime |-> clock + 1]]
             /\ held' = [held EXCEPT ![p] = @ \cup {clock + 1}] /\ clock' = clock + 1
             /\ Outlasts(p) /\ (moving # None /\ moving.from = p => "writer during a rename" \in Races)
             /\ moving' = moving
  BY <1>3 DEF OutsideWrite, idle
<1>4. ASSUME NEW p \in Paths, OutsideDelete(p)
      PROVE  disk' = [disk EXCEPT ![p] = None] /\ Outlasts(p) /\ UNCHANGED <<held, moving, clock>>
  BY <1>4 DEF OutsideDelete, idle
<1>5. ASSUME NEW from \in Paths, NEW to \in Paths, RenameAsked(from, to)
      PROVE  /\ moving' = [from |-> from, to |-> to, done |-> FALSE] /\ moving = None
             /\ (saving[from] = None \/ "rename during a save" \in Races)
             /\ ((tabs[to] = None /\ saving[to] = None) \/ "rename onto a tab" \in Races)
             /\ UNCHANGED <<disk, held, clock>>
  BY <1>5 DEF RenameAsked, files
<1> QED BY <1>1, <1>2, <1>3, <1>4, <1>5 DEF FileStep

LEMMA StayKept ==
  ASSUME RenamesAlone, Base, Stay, [Next]_vars
  PROVE  Stay'
<1>1. moving # None => moving \in Renames /\ moving.from \in Paths /\ moving.to \in Paths /\ moving.from # moving.to
  BY DEF Base, TypeOK, Renames
<1>2. CASE ViewStep
  <2>1. Carries(saving, saving') /\ \A q \in Paths : saving[q] # None => saving'[q].doc \in {saving[q].doc, None}
    BY <1>2 DEF ViewStep, View
  <2> QED BY <1>1, <1>2, <2>1 DEF ViewStep, Carries, Stay
<1>3. CASE FileStep
  <2>1. saving' = saving
    BY <1>3, FileStepFits
  <2>2. disk \in [Paths -> Files \cup {None}] /\ held \in [Paths -> SUBSET Nat]
    BY DEF Base, TypeOK
  <2>3. CASE rename_at /\ moving \in Renames /\ moving' = [moving EXCEPT !.done = TRUE]
    <3>1. /\ moving # None /\ moving'.from = moving.from /\ moving'.to = moving.to
          /\ disk' = [disk EXCEPT ![moving.to] = disk[moving.from], ![moving.from] = None]
          /\ held' = [held EXCEPT ![moving.to] = @ \cup held[moving.from]]
      BY <2>3, NoneIsNothing DEF rename_at, Renames, files
    <3> QED BY <1>1, <2>1, <2>2, <3>1 DEF Stay
  <2>4. ASSUME NEW p \in Paths, disk' = [disk EXCEPT ![p] = [text |-> clock + 1, mtime |-> clock + 1]],
               held' = [held EXCEPT ![p] = @ \cup {clock + 1}], moving' = moving,
               moving # None /\ moving.from = p => "writer during a rename" \in Races
        PROVE  Stay'
    BY <1>1, <2>1, <2>2, <2>4 DEF Stay, RenamesAlone
  <2>5. ASSUME NEW p \in Paths, disk' = [disk EXCEPT ![p] = None], UNCHANGED <<held, moving>>
        PROVE  Stay'
    BY <1>1, <2>1, <2>2, <2>5 DEF Stay
  <2>6. ASSUME NEW from \in Paths, NEW to \in Paths, moving' = [from |-> from, to |-> to, done |-> FALSE],
               saving[from] = None \/ "rename during a save" \in Races
        PROVE  Stay'
    BY <2>1, <2>6 DEF Stay, RenamesAlone
  <2>7. moving' \in {moving, None} /\ UNCHANGED <<disk, held>> => Stay'
    BY <2>1 DEF Stay
  <2> QED BY <1>3, <2>3, <2>4, <2>5, <2>6, <2>7, FileStepWrites
<1>4. CASE ReadStep
  BY <1>4, ReadFits DEF Stay
<1>5. CASE Type \/ Undo
  BY <1>5, EditFits DEF Stay
<1>6. ASSUME NEW p \in Paths, NEW caller, NEW d, Saving(p, caller, d), CanSave(p), UNCHANGED <<disk, held, moving>>
      PROVE  Stay'
  <2>1. moving # None => p # moving.from
    BY <1>6 DEF CanSave, RenamesAlone
  <2>2. \A q \in Paths : saving'[q] # None => saving'[q].doc \in {q, None}
    BY <1>6 DEF Saving, Stay
  <2>3. moving' # None => saving'[moving'.from] = None
    BY <1>1, <1>6, <2>1 DEF Saving, Stay
  <2> QED BY <1>6, <2>2, <2>3 DEF Stay
<1>7. CASE Save
  BY <1>6, <1>7, SaveFits
<1>8. CASE Overwrite
  BY <1>6, <1>8, OverwriteFits
<1>9. ASSUME NEW p \in Paths, SaveAndClose(p)
      PROVE  Stay'
  BY <1>6, <1>9, SaveAndCloseFits
<1>10. ASSUME NEW p \in Paths, WriteMoves(p)
       PROVE  Stay'
  <2>1. /\ saving[p] \in Saves /\ saving'[p] # None /\ \A q \in Paths \ {p} : saving'[q] = saving[q]
        /\ saving'[p].doc = saving[p].doc
    BY <1>10, WritesGoOn DEF WriteMoves, Goes
  <2>2. saving[p] # None /\ moving' = moving
    BY <1>10, <2>1, NoneIsNothing, WriteFits
  <2>3. moving # None => moving.from # p
    BY <2>2 DEF Stay
  <2>4. \A q \in Paths \ {p} : disk'[q] = disk[q] /\ held'[q] = held[q]
    BY <1>10 DEF WriteMoves, WriteChecked, WriteStale, WriteReplaced, WriteFailed, WriteStamped, files, Base, TypeOK
  <2>5. held[p] \subseteq held'[p]
    BY <1>10 DEF WriteMoves, WriteChecked, WriteStale, WriteReplaced, WriteFailed, WriteStamped, files, Base, TypeOK
  <2>6. \A q \in Paths : saving'[q] # None => saving'[q].doc \in {q, None}
    BY <2>1, <2>2 DEF Stay
  <2>7. moving' # None => saving'[moving'.from] = None
    BY <1>1, <2>1, <2>2, <2>3 DEF Stay
  <2>8. moving' # None /\ moving'.done => disk'[moving'.from] = None /\ held'[moving'.from] \subseteq held'[moving'.to]
    BY <1>1, <2>2, <2>3, <2>4, <2>5 DEF Stay
  <2> QED BY <2>6, <2>7, <2>8 DEF Stay
<1>11. ASSUME NEW p \in Paths, saving' = Ended(p), UNCHANGED <<disk, held, moving>>
       PROVE  Stay'
  <2>1. Ended(p)[p] = None /\ \A q \in Paths \ {p} : Ended(p)[q] = saving[q]
    BY EndedFits
  <2> QED BY <1>1, <1>11, <2>1 DEF Stay
<1>12. ASSUME NEW p \in Paths, Written(p)
       PROVE  Stay'
  <2>1. CASE WrittenStores(p)
    BY <1>11, <1>12, <2>1, WrittenFits DEF WrittenStores
  <2>2. CASE WrittenCloses(p)
    <3>1. /\ Carries(Ended(p), saving')
          /\ \A q \in Paths : Ended(p)[q] # None => saving'[q].doc \in {Ended(p)[q].doc, None}
      BY <2>2 DEF WrittenCloses, View
    <3>2. Ended(p)[p] = None /\ \A q \in Paths \ {p} : Ended(p)[q] = saving[q]
      BY EndedFits
    <3>3. UNCHANGED <<disk, held, moving>>
      BY <1>12, WrittenFits
    <3>4. \A q \in Paths : saving'[q] # None => saving[q] # None /\ saving'[q].doc \in {saving[q].doc, None}
      BY <3>1, <3>2 DEF Carries
    <3>5. \A q \in Paths : saving[q] = None => saving'[q] = None
      BY <3>4
    <3> QED BY <1>1, <3>3, <3>4, <3>5 DEF Stay
  <2> QED BY <1>12, <2>1, <2>2, WrittenFits
<1>13. ASSUME NEW p \in Paths, WriteRefused(p)
       PROVE  Stay'
  BY <1>11, <1>13, RefusedFits
<1>14. CASE RenameHeard
  <2>1. moving # None /\ moving' = None
    BY <1>14, RekeyFits DEF RenameHeard
  <2>2. CASE saving' = saving
    BY <2>1, <2>2 DEF Stay
  <2>3. CASE Rekeyed(moving.from, moving.to)
    <3>1. ASSUME NEW q \in Paths, saving'[q] # None
          PROVE  saving'[q].doc \in {q, None}
      <4>1. saving[q] # None
        BY <2>3, <3>1 DEF Rekeyed, Carries
      <4>2. q # moving.from /\ saving[q].doc \in {q, None} /\ moving.from # None
        BY <1>1, <2>1, <4>1, NoneIsNothing DEF Stay
      <4>3. saving'[q].doc \in {saving[q].doc, None} \/ saving[q].doc = moving.from
        BY <2>3, <4>1 DEF Rekeyed
      <4> QED BY <4>2, <4>3
    <3> QED BY <2>1, <3>1 DEF Stay
  <2> QED BY <1>14, <2>2, <2>3, RekeyFits
<1>15. CASE UNCHANGED vars
  BY <1>15 DEF vars, Stay
<1> QED BY <1>2, <1>3, <1>4, <1>5, <1>7, <1>8, <1>9, <1>10, <1>12, <1>13, <1>14, <1>15, StepKinds

-----------------------------------------------------------------------------
(* What is drawn clean has been on the disk.                                   *)

\* the disk, the saved versions, what is read and what has been written are all texts that were held
HeldOnDisk == \A p \in Paths : disk[p] # None => disk[p].text \in held[p]
HeldInDocs == \A p \in Paths : docs[p] # None => docs[p].saved \in held[p]
HeldInPane == pane.at = "read" => pane.text \in held[active]
HeldWritten == \A p \in Paths : saving[p] # None /\ saving[p].at \in {"replaced", "written"} => saving[p].text \in held[p]
Stored == HeldOnDisk /\ HeldInDocs /\ HeldInPane /\ HeldWritten

(* A file that holds more has still held what it did. *)
LEMMA HeldGrows ==
  ASSUME Base, [Next]_vars, NEW p \in Paths
  PROVE  held[p] \subseteq held'[p]
<1>1. held \in [Paths -> SUBSET Nat]
  BY DEF Base, TypeOK
<1>2. CASE FileStep
  <2>1. ASSUME NEW q \in Paths, held' = [held EXCEPT ![q] = @ \cup {clock + 1}]
        PROVE  held[p] \subseteq held'[p]
    BY <1>1, <2>1
  <2>2. ASSUME moving \in Renames, held' = [held EXCEPT ![moving.to] = @ \cup held[moving.from]]
        PROVE  held[p] \subseteq held'[p]
    BY <1>1, <2>2 DEF Renames
  <2> QED BY <1>2, <2>1, <2>2, FileStepWrites
<1>3. ASSUME NEW q \in Paths, WriteMoves(q)
      PROVE  held[p] \subseteq held'[p]
  BY <1>1, <1>3 DEF WriteMoves, WriteChecked, WriteStale, WriteReplaced, WriteFailed, WriteStamped, files
<1>4. CASE UNCHANGED vars
  BY <1>4 DEF vars
<1> QED BY <1>2, <1>3, <1>4, StepKinds, ReadFits, EditFits, SaveFits, OverwriteFits, SaveAndCloseFits,
       WrittenFits, RefusedFits, RekeyFits DEF ViewStep

LEMMA MountedReadsNothing ==
  ASSUME NEW p, NEW ds
  PROVE  Mounted(p, ds).at \in {"empty", "asked", "editing"} /\ (Mounted(p, ds).at = "editing" => ds[p] # None)
BY DEF Mounted, Pane

LEMMA HeldOnDiskKept ==
  ASSUME Base, Stored, [Next]_vars
  PROVE  HeldOnDisk'
<1>1. disk \in [Paths -> Files \cup {None}] /\ held \in [Paths -> SUBSET Nat]
  BY DEF Base, TypeOK
<1>2. CASE FileStep
  <2>1. ASSUME NEW q \in Paths, disk' = [disk EXCEPT ![q] = [text |-> clock + 1, mtime |-> clock + 1]],
               held' = [held EXCEPT ![q] = @ \cup {clock + 1}]
        PROVE  HeldOnDisk'
    BY <1>1, <2>1 DEF Stored, HeldOnDisk
  <2>2. ASSUME NEW q \in Paths, disk' = [disk EXCEPT ![q] = None], held' = held
        PROVE  HeldOnDisk'
    BY <1>1, <2>2 DEF Stored, HeldOnDisk
  <2>3. ASSUME moving \in Renames, held' = [held EXCEPT ![moving.to] = @ \cup held[moving.from]],
               disk' = [disk EXCEPT ![moving.to] = disk[moving.from], ![moving.from] = None], disk[moving.from] # None
        PROVE  HeldOnDisk'
    <3>1. moving.from \in Paths /\ moving.to \in Paths /\ moving.from # moving.to
      BY <2>3 DEF Renames
    <3> QED BY <1>1, <2>3, <3>1 DEF Stored, HeldOnDisk
  <2>4. UNCHANGED <<disk, held>> => HeldOnDisk'
    BY DEF Stored, HeldOnDisk
  <2> QED BY <1>2, <2>1, <2>2, <2>3, <2>4, FileStepWrites
<1>3. ASSUME NEW q \in Paths, WriteMoves(q)
      PROVE  HeldOnDisk'
  <2>1. CASE WriteReplaced(q)
    BY <1>1, <2>1 DEF WriteReplaced, Stored, HeldOnDisk
  <2>2. CASE ~WriteReplaced(q)
    BY <1>3, <2>2 DEF WriteMoves, WriteChecked, WriteStale, WriteFailed, WriteStamped, files, Stored, HeldOnDisk
  <2> QED BY <2>1, <2>2
<1>4. UNCHANGED <<disk, held>> => HeldOnDisk'
  BY DEF Stored, HeldOnDisk
<1> QED BY <1>2, <1>3, <1>4, StepKinds, ReadFits, EditFits, SaveFits, OverwriteFits, SaveAndCloseFits,
       WrittenFits, RefusedFits, RekeyFits DEF ViewStep, vars

LEMMA StoredKept ==
  ASSUME RenamesAlone, Base, Stay, Stored, [Next]_vars
  PROVE  Stored'
<1>1. \A q \in Paths : held[q] \subseteq held'[q]
  BY HeldGrows
<1>2. HeldOnDisk'
  BY HeldOnDiskKept
<1>3. docs \in DocTable /\ saving \in SaveTable /\ active \in Paths \cup {None}
  BY DEF Base, TypeOK, DocTable, SaveTable
<1>4. active # None => active \in Paths
  BY <1>3
<1>5. pane.at = "read" => active \in Paths
  BY <1>3 DEF Base, Shape, FitPane
<1>6. ASSUME \A q \in Paths : docs'[q] # None => docs[q] # None /\ docs'[q].saved = docs[q].saved
      PROVE  HeldInDocs'
  BY <1>1, <1>6 DEF Stored, HeldInDocs
<1>7. ASSUME (pane' = pane /\ active' = active) \/ pane'.at # "read"
      PROVE  HeldInPane'
  BY <1>1, <1>5, <1>7 DEF Stored, HeldInPane
<1>8. ASSUME \A q \in Paths : saving'[q] # None =>
               saving[q] # None /\ saving'[q].text = saving[q].text /\ saving'[q].at = saving[q].at
      PROVE  HeldWritten'
  BY <1>1, <1>8 DEF Stored, HeldWritten
<1>9. Carries(saving, saving') => HeldWritten'
  BY <1>8 DEF Carries, Same
<1>10. CASE ViewStep
  <2>1. View(saving)
    BY <1>10 DEF ViewStep
  <2>2. \A q \in Paths : docs'[q] # None => docs'[q] = docs[q]
    BY <2>1 DEF View
  <2>3. (pane' = pane /\ active' = active) \/ pane'.at # "read"
    BY <2>1, MountedReadsNothing DEF View
  <2> QED BY <1>2, <1>6, <1>7, <1>9, <2>1, <2>2, <2>3 DEF View, Stored
<1>11. CASE FileStep
  <2>1. UNCHANGED <<docs, active, pane, saving>>
    BY <1>11, FileStepFits
  <2> QED BY <1>2, <1>6, <1>7, <1>8, <2>1 DEF Stored
<1>12. CASE ReadStep
  <2>1. UNCHANGED <<disk, held, active, saving>> /\ active \in Paths
    BY <1>12, ReadFits
  <2>2. HeldWritten'
    BY <1>8, <2>1
  <2>3. CASE ReadTime
    <3>1. docs' = docs /\ pane'.at \in {"timed", "failed"}
      BY <2>3 DEF ReadTime, Pane, Base, TypeOK, Panes
    <3> QED BY <1>2, <1>6, <1>7, <2>2, <3>1 DEF Stored
  <2>4. CASE ReadBytes
    <3>1. docs' = docs /\ (pane'.at = "failed" \/ (disk[active] # None /\ pane'.text = disk[active].text))
      BY <2>4 DEF ReadBytes, exists, Pane, Base, TypeOK, Panes
    <3>2. HeldInPane'
      BY <2>1, <3>1 DEF HeldInPane, Stored, HeldOnDisk
    <3> QED BY <1>2, <1>6, <2>2, <3>1, <3>2 DEF Stored
  <2>5. CASE ReadAnswered
    <3>1. pane.at = "read" /\ docs' = [docs EXCEPT ![active] = Document(pane.text, pane.mtime)] /\ pane'.at # "read"
      BY <2>5 DEF ReadAnswered, Pane
    <3>2. docs'[active].saved = pane.text /\ \A q \in Paths \ {active} : docs'[q] = docs[q]
      BY <1>3, <2>1, <3>1 DEF Document, DocTable
    <3>3. HeldInDocs'
      BY <2>1, <3>1, <3>2 DEF Stored, HeldInDocs, HeldInPane
    <3> QED BY <1>2, <1>7, <2>2, <3>1, <3>3 DEF Stored
  <2> QED BY <1>12, <2>3, <2>4, <2>5 DEF ReadStep
<1>13. CASE Type \/ Undo
  <2>1. /\ active \in Paths /\ docs[active] # None /\ \A q \in Paths \ {active} : docs'[q] = docs[q]
        /\ docs'[active] = [docs[active] EXCEPT !.text = docs'[active].text]
        /\ UNCHANGED <<active, pane, saving>>
    BY <1>13, EditFits
  <2>2. docs'[active].saved = docs[active].saved
    BY <1>3, <2>1 DEF DocTable, Documents
  <2> QED BY <1>2, <1>6, <1>7, <1>8, <2>1, <2>2 DEF Stored
<1>14. ASSUME NEW p \in Paths, NEW caller, NEW d, Saving(p, caller, d), UNCHANGED <<active, pane>>,
              \A q \in Paths : docs'[q] # None => docs[q] # None /\ docs'[q].saved = docs[q].saved
       PROVE  Stored'
  <2>1. HeldWritten'
    BY <1>1, <1>14 DEF Saving, Same, Stored, HeldWritten
  <2> QED BY <1>2, <1>6, <1>7, <1>14, <2>1 DEF Stored
<1>15. CASE Save
  BY <1>14, <1>15, SaveFits
<1>16. CASE Overwrite
  <2>1. docs[active] # None
    BY <1>16, OverwriteFits, NoneIsNothing
  <2> QED BY <1>14, <1>16, <2>1, OverwriteFits
<1>17. ASSUME NEW p \in Paths, SaveAndClose(p)
       PROVE  Stored'
  BY <1>14, <1>17, SaveAndCloseFits
<1>18. ASSUME NEW p \in Paths, WriteMoves(p)
       PROVE  Stored'
  <2>1. UNCHANGED <<active, docs, pane>>
    BY <1>18, WriteFits
  <2>2. \A q \in Paths \ {p} : saving'[q] = saving[q]
    BY <1>18, WritesGoOn DEF WriteMoves, Goes
  <2>3. saving'[p].at \in {"replaced", "written"} => saving'[p].text \in held'[p]
    <3>1. CASE WriteReplaced(p)
      <4>1. saving'[p].text = saving[p].text
        BY <3>1, WritesGoOn DEF Goes
      <4> QED BY <3>1, <4>1 DEF WriteReplaced, Base, TypeOK
    <3>2. CASE WriteStamped(p)
      <4>1. saving'[p].text = saving[p].text /\ saving[p] # None /\ saving[p].at = "replaced"
        BY <3>2, WritesGoOn DEF Goes, WriteStamped, Writing
      <4> QED BY <1>1, <4>1 DEF Stored, HeldWritten
    <3>3. CASE WriteChecked(p) \/ WriteStale(p) \/ WriteFailed(p)
      BY <3>3, WritesGoOn DEF Goes
    <3> QED BY <1>18, <3>1, <3>2, <3>3 DEF WriteMoves
  <2>4. HeldWritten'
    BY <1>1, <2>2, <2>3 DEF Stored, HeldWritten
  <2> QED BY <1>2, <1>6, <1>7, <2>1, <2>4 DEF Stored
<1>19. ASSUME NEW p \in Paths, Written(p)
       PROVE  Stored'
  <2>1. Ended(p)[p] = None /\ \A q \in Paths \ {p} : Ended(p)[q] = saving[q]
    BY EndedFits
  <2>2. UNCHANGED <<disk, held>> /\ saving[p] \in Saves /\ saving[p].at = "written" /\ saving[p] # None
    BY <1>19, WrittenFits, NoneIsNothing
  <2>3. CASE WrittenCloses(p)
    <3>1. /\ \A q \in Paths : docs'[q] \in {docs[q], None}
          /\ Carries(Ended(p), saving')
          /\ (active' = active /\ pane' = pane) \/ pane' = Mounted(active', docs')
      BY <2>3 DEF WrittenCloses, View
    <3>2. HeldWritten'
      BY <1>8, <2>1, <3>1 DEF Carries, Same
    <3>3. HeldInPane'
      BY <1>7, <3>1, MountedReadsNothing
    <3> QED BY <1>2, <1>6, <3>1, <3>2, <3>3 DEF Stored
  <2>4. CASE WrittenStores(p)
    <3>1. /\ StoresIn(saving[p]) /\ saving' = Ended(p) /\ active' = active
          /\ pane' = pane \/ pane' = Pane("editing")
      BY <2>4 DEF WrittenStores
    <3>2. HeldWritten'
      BY <1>8, <2>1, <3>1
    <3>3. HeldInPane'
      BY <1>7, <3>1 DEF Pane
    <3>4. HeldInDocs'
      <4>1. CASE saving[p].doc = None
        BY <1>6, <3>1, <4>1 DEF StoresIn
      <4>2. CASE saving[p].doc # None
        <5>1. saving[p].doc = p /\ saving[p].text \in held[p]
          BY <2>2, <4>2 DEF Stay, Stored, HeldWritten
        <5>2. docs'[p].saved = saving[p].text /\ \A q \in Paths \ {p} : docs'[q] = docs[q]
          BY <3>1, <4>2, <5>1 DEF StoresIn
        <5> QED BY <2>2, <5>1, <5>2 DEF Stored, HeldInDocs
      <4> QED BY <4>1, <4>2
    <3> QED BY <1>2, <3>2, <3>3, <3>4 DEF Stored
  <2> QED BY <1>19, <2>3, <2>4, WrittenFits
<1>20. ASSUME NEW p \in Paths, WriteRefused(p)
       PROVE  Stored'
  <2>1. Ended(p)[p] = None /\ \A q \in Paths \ {p} : Ended(p)[q] = saving[q]
    BY EndedFits
  <2>2. /\ saving' = Ended(p) /\ UNCHANGED <<active, docs>>
        /\ pane' = pane \/ pane'.at \in {"failed", "conflict"}
    BY <1>20, RefusedFits
  <2>3. HeldWritten'
    BY <1>8, <2>1, <2>2
  <2> QED BY <1>2, <1>6, <1>7, <2>2, <2>3 DEF Stored
<1>21. CASE RenameHeard
  <2>1. moving \in Renames /\ moving.done /\ UNCHANGED <<disk, held>>
    BY <1>21, RekeyFits
  <2>2. moving.from \in Paths /\ moving.to \in Paths /\ moving.from # moving.to /\ moving # None
    BY <2>1, NoneIsNothing DEF Renames
  <2>3. held[moving.from] \subseteq held[moving.to]
    BY <2>1, <2>2 DEF Stay
  <2>4. CASE UNCHANGED <<docs, active, pane, saving>>
    BY <1>2, <1>6, <1>7, <1>8, <2>4 DEF Stored
  <2>5. CASE Rekeyed(moving.from, moving.to)
    <3> DEFINE from == moving.from  to == moving.to
    <3>1. HeldInDocs'
      <4>1. CASE docs[from] = None
        BY <1>6, <2>5, <4>1 DEF Rekeyed
      <4>2. CASE docs[from] # None
        <5>1. docs'[to] = docs[from] /\ docs'[from] = None /\ \A q \in Paths \ {from, to} : docs'[q] = docs[q]
          BY <2>5, <4>2 DEF Rekeyed
        <5> QED BY <2>1, <2>2, <2>3, <4>2, <5>1 DEF Stored, HeldInDocs
      <4> QED BY <4>1, <4>2
    <3>2. (pane' = pane /\ active' = active) \/ pane'.at # "read"
      BY <2>5, MountedReadsNothing DEF Rekeyed
    <3>3. HeldWritten'
      BY <1>9, <2>5 DEF Rekeyed
    <3> QED BY <1>2, <1>7, <3>1, <3>2, <3>3 DEF Stored
  <2> QED BY <1>21, <2>4, <2>5, RekeyFits
<1>22. CASE UNCHANGED vars
  BY <1>22 DEF vars, Stored, HeldOnDisk, HeldInDocs, HeldInPane, HeldWritten
<1> QED BY <1>10, <1>11, <1>12, <1>13, <1>15, <1>16, <1>17, <1>18, <1>19, <1>20, <1>21, <1>22, StepKinds

LEMMA StoredInit ==
  ASSUME Init
  PROVE  Stay /\ Stored
<1>1. PICK number \in [Paths -> 1..Cardinality(Paths)] :
        /\ disk = [p \in Paths |-> [text |-> number[p], mtime |-> number[p]]]
        /\ held = [p \in Paths |-> {number[p]}]
  BY DEF Init
<1>2. HeldOnDisk
  BY <1>1 DEF HeldOnDisk
<1>3. Stay /\ HeldInDocs /\ HeldInPane /\ HeldWritten
  BY DEF Init, Stay, HeldInDocs, HeldInPane, HeldWritten, Pane
<1> QED BY <1>2, <1>3 DEF Stored

(* While no rename overlaps a save or another writer of the file, a buffer drawn  *)
(* clean holds a text its file has held, whatever else races: typing during a    *)
(* save, polls, reloads, refused and overwriting saves (writeDocument, rekey).   *)
THEOREM CleanAlwaysStored ==
  ASSUME Races \cap {"rename during a save", "writer during a rename"} = {}
  PROVE  Spec => []CleanWasStored
<1>1. RenamesAlone
  BY DEF RenamesAlone
<1>2. Base /\ Stay /\ Stored /\ [Next]_vars => (Base /\ Stay /\ Stored)'
  BY <1>1, BaseKept, StayKept, StoredKept
<1>3. Init => Base /\ Stay /\ Stored
  BY BaseInit, StoredInit
<1>4. Stored => CleanWasStored
  BY DEF Stored, HeldInDocs, CleanWasStored, isDirty
<1>5. Spec => [](Base /\ Stay /\ Stored)
  BY <1>2, <1>3, PTL DEF Spec
<1> QED BY <1>4, <1>5, PTL

-----------------------------------------------------------------------------
(* Unsaved work leaves only when its user lets it go.                          *)

AskingAlone ==
    Races \cap {"rename during a save", "writer during a rename", "typing while a close saves",
                "closing over an older save", "rename onto a tab", "typing under a delete",
                "delete in another Viewer", "rename onto a delete"} = {}

\* the new path of a rename is nobody's, a viewer that reads has no buffer to lose,
\* a save that will close its tab has written, or will write, what is in the buffer,
\* nothing is renamed onto a file that is being deleted, and what a delete will
\* find in the buffer was named when it was confirmed, or is in the file
NewPathFree == moving # None => tabs[moving.to] = None /\ saving[moving.to] = None
ReadsIntoNothing == pane.at \in {"asked", "timed", "read"} => docs[active] = None
ClosesOverSaved ==
    \A p \in Paths : saving[p] # None /\ "close" \in saving[p].callers /\ docs[p] # None =>
       docs[p].text \in {saving[p].text} \cup held[p]
NothingOnto == deleting # None /\ moving # None => moving.to # deleting.path
NamedAsSent ==
    deleting # None /\ deleting.at # "asked" /\ docs[deleting.path] # None =>
      docs[deleting.path].text \in {deleting.named} \cup held[deleting.path]
Asked == NewPathFree /\ ReadsIntoNothing /\ ClosesOverSaved /\ NothingOnto /\ NamedAsSent

LEMMA NewPathStaysFree ==
  ASSUME AskingAlone, Base, Asked, [Next]_vars
  PROVE  NewPathFree'
<1>1. moving # None => moving \in Renames /\ moving.to \in Paths
  BY DEF Base, TypeOK, Renames
<1>2. ASSUME \A q \in Paths : (tabs[q] = None /\ saving[q] = None) => (tabs'[q] = None /\ saving'[q] = None),
             moving' = moving
      PROVE  NewPathFree'
  BY <1>1, <1>2 DEF Asked, NewPathFree
<1>3. CASE ViewStep
  <2>1. moving' = moving /\ Carries(saving, saving')
    BY <1>3 DEF ViewStep, View
  <2>2. moving # None => tabs'[moving.to] = None
    BY <1>1, <1>3 DEF ViewStep, NotTaken, AskingAlone, Asked, NewPathFree
  <2> QED BY <1>1, <2>1, <2>2 DEF Carries, Asked, NewPathFree
<1>4. CASE FileStep
  <2>1. UNCHANGED <<tabs, saving>>
    BY <1>4, FileStepFits
  <2>2. ASSUME moving \in Renames, moving' = [moving EXCEPT !.done = TRUE]
        PROVE  NewPathFree'
    <3>1. moving'.to = moving.to /\ moving # None
      BY <2>2, NoneIsNothing DEF Renames
    <3> QED BY <2>1, <3>1 DEF Asked, NewPathFree
  <2>3. ASSUME NEW from \in Paths, NEW to \in Paths, moving' = [from |-> from, to |-> to, done |-> FALSE],
               (tabs[to] = None /\ saving[to] = None) \/ "rename onto a tab" \in Races
        PROVE  NewPathFree'
    BY <2>1, <2>3 DEF AskingAlone, NewPathFree
  <2>4. moving' \in {moving, None} => NewPathFree'
    BY <2>1 DEF Asked, NewPathFree
  <2> QED BY <1>4, <2>2, <2>3, <2>4, FileStepWrites
<1>5. CASE ReadStep
  BY <1>2, <1>5, ReadFits
<1>6. CASE Type \/ Undo
  BY <1>2, <1>6, EditFits DEF SameTabs
<1>7. ASSUME NEW p \in Paths, NEW caller, NEW d, Saving(p, caller, d), docs[p] # None, SameTabs(tabs, tabs'), moving' = moving
      PROVE  NewPathFree'
  <2>1. tabs[p] # None
    BY <1>7 DEF Base, Shape, FitTabs
  <2> QED BY <1>2, <1>7, <2>1 DEF Saving, SameTabs
<1>8. CASE Save
  <2>1. docs[active] # None
    BY <1>8, SaveFits, NoneIsNothing
  <2> QED BY <1>7, <1>8, <2>1, SaveFits DEF SameTabs
<1>9. CASE Overwrite
  <2>1. docs[active] # None
    BY <1>9, OverwriteFits, NoneIsNothing
  <2> QED BY <1>7, <1>9, <2>1, OverwriteFits DEF SameTabs
<1>10. ASSUME NEW p \in Paths, SaveAndClose(p)
       PROVE  NewPathFree'
  <2>1. docs[p] # None
    BY <1>10, SaveAndCloseFits, NoneIsNothing
  <2> QED BY <1>7, <1>10, <2>1, SaveAndCloseFits
<1>11. ASSUME NEW p \in Paths, WriteMoves(p)
       PROVE  NewPathFree'
  <2>1. saving[p] # None /\ \A q \in Paths \ {p} : saving'[q] = saving[q]
    BY <1>11, WritesGoOn, NoneIsNothing DEF WriteMoves, Goes
  <2> QED BY <1>2, <1>11, <2>1, WriteFits
<1>12. ASSUME NEW p \in Paths, saving' = Ended(p), SameTabs(tabs, tabs'), moving' = moving
       PROVE  NewPathFree'
  BY <1>2, <1>12, EndedFits DEF SameTabs
<1>13. ASSUME NEW p \in Paths, Written(p)
       PROVE  NewPathFree'
  <2>1. CASE WrittenStores(p)
    BY <1>12, <1>13, <2>1, WrittenFits DEF WrittenStores
  <2>2. CASE WrittenCloses(p)
    <3>1. Carries(Ended(p), saving') /\ \A q \in Paths : tabs[q] = None => tabs'[q] = None
      BY <2>2 DEF WrittenCloses, View
    <3>2. \A q \in Paths : saving[q] = None => saving'[q] = None
      BY <3>1, EndedFits DEF Carries
    <3> QED BY <1>2, <1>13, <3>1, <3>2, WrittenFits
  <2> QED BY <1>13, <2>1, <2>2, WrittenFits
<1>14. ASSUME NEW p \in Paths, WriteRefused(p)
       PROVE  NewPathFree'
  BY <1>12, <1>14, RefusedFits
<1>15. RenameHeard => NewPathFree'
  BY RekeyFits DEF NewPathFree
<1>16. UNCHANGED vars => NewPathFree'
  BY DEF vars, Asked, NewPathFree
<1> QED BY <1>3, <1>4, <1>5, <1>6, <1>8, <1>9, <1>10, <1>11, <1>13, <1>14, <1>15, <1>16, StepKinds

LEMMA ReadsStayIntoNothing ==
  ASSUME AskingAlone, Base, Asked, [Next]_vars
  PROVE  ReadsIntoNothing'
<1>1. pane.at \in {"asked", "timed", "read"} => active \in Paths
  BY DEF Base, TypeOK, Shape, FitPane
<1>2. ASSUME pane'.at \in {"asked", "timed", "read"} => /\ pane.at \in {"asked", "timed", "read"} /\ active' = active
                                                      /\ docs'[active] = docs[active]
      PROVE  ReadsIntoNothing'
  BY <1>2 DEF Asked, ReadsIntoNothing
<1>3. ASSUME \/ active' = active /\ pane' = pane /\ (active # None => docs'[active] = docs[active])
             \/ pane' = Mounted(active', docs')
      PROVE  ReadsIntoNothing'
  <2>1. CASE active' = active /\ pane' = pane /\ (active # None => docs'[active] = docs[active])
    BY <1>1, <1>2, <2>1, NoneIsNothing
  <2>2. CASE pane' = Mounted(active', docs')
    BY <2>2 DEF Mounted, Pane, ReadsIntoNothing
  <2> QED BY <1>3, <2>1, <2>2
<1>4. CASE ViewStep
  BY <1>3, <1>4 DEF ViewStep, View
<1>5. CASE FileStep
  BY <1>2, <1>5, FileStepFits
<1>6. CASE ReadStep
  <2>1. active' = active /\ pane.at \in {"asked", "timed", "read"}
    BY <1>6, ReadFits DEF ReadStep, ReadTime, ReadBytes, ReadAnswered
  <2>2. docs' = docs \/ pane'.at = "editing"
    <3>1. ReadTime \/ ReadBytes => docs' = docs
      BY DEF ReadTime, ReadBytes
    <3>2. ReadAnswered => pane'.at = "editing"
      BY DEF ReadAnswered, Pane
    <3> QED BY <1>6, <3>1, <3>2 DEF ReadStep
  <2> QED BY <1>2, <2>1, <2>2
<1>7. CASE Type \/ Undo
  <2>1. Editing /\ pane' = pane
    BY <1>7, EditFits DEF Type, Undo
  <2> QED BY <1>2, <2>1 DEF Editing
<1>8. CASE Save
  BY <1>2, <1>8, SaveFits
<1>9. CASE Overwrite
  BY <1>2, <1>9, OverwriteFits
<1>10. ASSUME NEW p \in Paths, SaveAndClose(p)
       PROVE  ReadsIntoNothing'
  BY <1>2, <1>10, SaveAndCloseFits
<1>11. ASSUME NEW p \in Paths, WriteMoves(p)
       PROVE  ReadsIntoNothing'
  BY <1>2, <1>11, WriteFits
<1>12. ASSUME NEW p \in Paths, Written(p)
       PROVE  ReadsIntoNothing'
  <2>1. CASE WrittenCloses(p)
    BY <1>3, <2>1 DEF WrittenCloses, View
  <2>2. CASE WrittenStores(p)
    <3>1. StoresIn(saving[p]) /\ active' = active /\ (pane' = pane \/ pane'.at = "editing")
      BY <2>2 DEF WrittenStores, Pane
    <3>2. saving[p] # None
      BY <1>12, WrittenFits, NoneIsNothing
    <3>3. saving[p].doc # None => docs[saving[p].doc] # None
      BY <3>2 DEF Base, Shape, FitDocs
    <3>4. pane.at \in {"asked", "timed", "read"} => docs[active] = None
      BY DEF Asked, ReadsIntoNothing
    <3>5. pane.at \in {"asked", "timed", "read"} => docs'[active] = docs[active]
      BY <1>1, <3>1, <3>3, <3>4 DEF StoresIn
    <3> QED BY <1>2, <3>1, <3>5
  <2> QED BY <1>12, <2>1, <2>2, WrittenFits
<1>13. ASSUME NEW p \in Paths, WriteRefused(p)
       PROVE  ReadsIntoNothing'
  BY <1>2, <1>13, RefusedFits
<1>14. CASE RenameHeard
  <2>1. CASE UNCHANGED <<tabs, docs, active, pane, saving>>
    BY <1>2, <2>1
  <2>2. CASE Rekeyed(moving.from, moving.to)
    <3>1. moving \in Renames /\ moving # None /\ tabs[moving.to] = None
      BY <1>14, RekeyFits, NoneIsNothing DEF Asked, NewPathFree
    <3>2. active # moving.to \/ active = None
      BY <3>1 DEF Base, Shape, FitPane
    <3>3. \/ active # moving.from /\ active' = active /\ pane' = pane
          \/ pane' = Mounted(active', docs')
      BY <2>2 DEF Rekeyed
    <3>4. active # None /\ active # moving.from /\ active' = active => docs'[active] = docs[active]
      BY <2>2, <3>2 DEF Rekeyed, Base, TypeOK
    <3> QED BY <1>3, <3>3, <3>4
  <2> QED BY <1>14, <2>1, <2>2, RekeyFits
<1>15. UNCHANGED vars => ReadsIntoNothing'
  BY <1>2 DEF vars
<1> QED BY <1>4, <1>5, <1>6, <1>7, <1>8, <1>9, <1>10, <1>11, <1>12, <1>13, <1>14, <1>15, StepKinds

LEMMA ClosesStayOverSaved ==
  ASSUME AskingAlone, Base, Stored, Asked, [Next]_vars
  PROVE  ClosesOverSaved'
<1>1. \A q \in Paths : held[q] \subseteq held'[q]
  BY HeldGrows
<1>2. docs \in DocTable /\ saving \in SaveTable
  BY DEF Base, TypeOK, DocTable, SaveTable
<1>3. ASSUME \A q \in Paths : saving'[q] # None /\ "close" \in saving'[q].callers /\ docs'[q] # None =>
               \/ docs'[q].text \in held'[q]
               \/ docs'[q].text = saving'[q].text
               \/ /\ saving[q] # None /\ "close" \in saving[q].callers /\ saving'[q].text = saving[q].text
                  /\ docs[q] # None /\ docs'[q].text = docs[q].text
      PROVE  ClosesOverSaved'
  BY <1>1, <1>3 DEF Asked, ClosesOverSaved
<1>4. CASE ViewStep
  <2>1. Carries(saving, saving') /\ \A q \in Paths : docs'[q] \in {docs[q], None}
    BY <1>4 DEF ViewStep, View
  <2>2. \A q \in Paths : saving'[q] # None => /\ saving[q] # None /\ saving'[q].text = saving[q].text
                                              /\ saving'[q].callers \subseteq saving[q].callers
    BY <2>1 DEF Carries, Same
  <2> QED BY <1>3, <2>1, <2>2
<1>5. CASE FileStep
  BY <1>3, <1>5, FileStepFits
<1>6. CASE ReadStep
  <2>1. saving' = saving /\ active \in Paths
    BY <1>6, ReadFits
  <2>2. \/ docs' = docs
        \/ pane.at = "read" /\ docs' = [docs EXCEPT ![active] = Document(pane.text, pane.mtime)]
    BY <1>6 DEF ReadStep, ReadTime, ReadBytes, ReadAnswered
  <2>3. CASE docs' = docs
    BY <1>3, <2>1, <2>3
  <2>4. CASE pane.at = "read" /\ docs' = [docs EXCEPT ![active] = Document(pane.text, pane.mtime)]
    <3>1. docs'[active].text = pane.text /\ \A q \in Paths \ {active} : docs'[q] = docs[q]
      BY <1>2, <2>1, <2>4 DEF Document, DocTable
    <3>2. docs'[active].text \in held'[active]
      BY <1>1, <2>1, <2>4, <3>1 DEF Stored, HeldInPane
    <3> QED BY <1>3, <2>1, <3>1, <3>2
  <2> QED BY <2>2, <2>3, <2>4
<1>7. CASE Type \/ Undo
  <2>1. active \in Paths /\ docs[active] # None /\ saving' = saving /\ \A q \in Paths \ {active} : docs'[q] = docs[q]
    BY <1>7, EditFits
  <2>2. CASE Type
    <3>1. \A p \in Paths : saving[p] # None /\ active \in {p, saving[p].doc} => "close" \notin saving[p].callers
      BY <2>2 DEF Type, AskingAlone
    <3> QED BY <1>3, <2>1, <3>1
  <2>3. CASE Undo
    <3>1. docs[active] \in Documents /\ docs' = [docs EXCEPT ![active].text = docs[active].saved]
      BY <1>2, <2>1, <2>3 DEF Undo, DocTable
    <3>2. docs'[active].text = docs[active].saved
      BY <1>2, <2>1, <3>1 DEF Documents, DocTable
    <3>3. docs'[active].text \in held'[active]
      BY <1>1, <2>1, <3>2 DEF Stored, HeldInDocs
    <3> QED BY <1>3, <2>1, <3>3
  <2> QED BY <1>7, <2>2, <2>3
<1>8. ASSUME NEW p \in Paths, NEW d, Saving(p, "viewer", d) \/ Saving(p, "overwrite", d),
             \A q \in Paths : docs'[q] # None => docs[q] # None /\ docs'[q].text = docs[q].text
      PROVE  ClosesOverSaved'
  <2>1. \A q \in Paths : saving'[q] # None /\ "close" \in saving'[q].callers =>
          saving[q] # None /\ "close" \in saving[q].callers /\ saving'[q].text = saving[q].text
    BY <1>8 DEF Saving, Same
  <2> QED BY <1>3, <1>8, <2>1
<1>9. CASE Save
  BY <1>8, <1>9, SaveFits
<1>10. CASE Overwrite
  <2>1. docs[active] # None
    BY <1>10, OverwriteFits, NoneIsNothing
  <2> QED BY <1>8, <1>10, <2>1, OverwriteFits
<1>11. ASSUME NEW p \in Paths, SaveAndClose(p)
       PROVE  ClosesOverSaved'
  <2>1. /\ Saving(p, "close", docs[p]) /\ docs' = docs
        /\ saving[p] # None => saving[p].text = docs[p].text
    BY <1>11, SaveAndCloseFits DEF AskingAlone
  <2>2. saving'[p].text = docs[p].text
    BY <2>1 DEF Saving, Same
  <2> QED BY <1>3, <2>1, <2>2 DEF Saving
<1>12. ASSUME NEW p \in Paths, WriteMoves(p)
       PROVE  ClosesOverSaved'
  <2>1. /\ saving[p] # None /\ \A q \in Paths \ {p} : saving'[q] = saving[q]
        /\ saving'[p].text = saving[p].text /\ saving'[p].callers = saving[p].callers
    BY <1>12, WritesGoOn, NoneIsNothing DEF WriteMoves, Goes
  <2> QED BY <1>3, <1>12, <2>1, WriteFits
<1>13. ASSUME NEW p \in Paths, Written(p)
       PROVE  ClosesOverSaved'
  <2>1. Ended(p)[p] = None /\ \A q \in Paths \ {p} : Ended(p)[q] = saving[q]
    BY EndedFits
  <2>2. CASE WrittenCloses(p)
    <3>1. Carries(Ended(p), saving') /\ \A q \in Paths : docs'[q] \in {docs[q], None}
      BY <2>2 DEF WrittenCloses, View
    <3>2. \A q \in Paths : saving'[q] # None => /\ saving[q] # None /\ saving'[q].text = saving[q].text
                                                /\ saving'[q].callers \subseteq saving[q].callers
      BY <2>1, <3>1 DEF Carries, Same
    <3> QED BY <1>3, <3>1, <3>2
  <2>3. CASE WrittenStores(p)
    <3>1. saving' = Ended(p) /\ StoresIn(saving[p])
      BY <2>3 DEF WrittenStores
    <3>2. saving[p] # None
      BY <1>13, WrittenFits, NoneIsNothing
    <3>3. saving[p].doc # None => docs[saving[p].doc] # None
      BY <3>2 DEF Base, Shape, FitDocs
    <3>4. \A q \in Paths : docs'[q] # None => docs[q] # None /\ docs'[q].text = docs[q].text
      BY <3>1, <3>3 DEF StoresIn
    <3> QED BY <1>3, <2>1, <3>1, <3>4
  <2> QED BY <1>13, <2>2, <2>3, WrittenFits
<1>14. ASSUME NEW p \in Paths, WriteRefused(p)
       PROVE  ClosesOverSaved'
  <2>1. saving' = Ended(p) /\ docs' = docs
    BY <1>14, RefusedFits
  <2> QED BY <1>3, <2>1, EndedFits
<1>15. CASE RenameHeard
  <2>1. CASE UNCHANGED <<tabs, docs, active, pane, saving>>
    BY <1>3, <2>1
  <2>2. CASE Rekeyed(moving.from, moving.to)
    <3> DEFINE from == moving.from  to == moving.to
    <3>1. moving \in Renames /\ moving # None /\ saving[to] = None
      BY <1>15, RekeyFits, NoneIsNothing DEF Asked, NewPathFree
    <3>2. \A q \in Paths : saving'[q] # None => /\ saving[q] # None /\ saving'[q].text = saving[q].text
                                                /\ saving'[q].callers \subseteq saving[q].callers
      BY <2>2 DEF Rekeyed, Carries, Same
    <3>3. \A q \in Paths \ {to} : docs'[q] # None => docs'[q] = docs[q]
      BY <2>2 DEF Rekeyed
    <3>4. from \in Paths /\ to \in Paths
      BY <3>1 DEF Renames
    <3>5. saving'[to] = None
      BY <2>2, <3>1, <3>4 DEF Rekeyed, Carries
    <3> HIDE DEF from, to
    <3> QED BY <1>3, <3>2, <3>3, <3>4, <3>5
  <2> QED BY <1>15, <2>1, <2>2, RekeyFits
<1>16. UNCHANGED vars => ClosesOverSaved'
  BY <1>3 DEF vars
<1> QED BY <1>4, <1>5, <1>6, <1>7, <1>9, <1>10, <1>11, <1>12, <1>13, <1>14, <1>15, <1>16, StepKinds

(* A buffer keeps its text, or takes one its file has held, unless it is typed   *)
(* into or a file is renamed onto its path.                                      *)
LEMMA TextsStay ==
  ASSUME Base, Stored, [Next]_vars, NEW p \in Paths, docs'[p] # None
  PROVE  \/ docs'[p].text \in held'[p]
         \/ docs[p] # None /\ docs'[p].text = docs[p].text
         \/ Type /\ p = active
         \/ RenameHeard /\ moving \in Renames /\ p = moving.to
<1>1. held[p] \subseteq held'[p]
  BY HeldGrows
<1>2. docs \in DocTable
  BY DEF Base, TypeOK, DocTable
<1>3. docs'[p] = docs[p] => docs[p] # None /\ docs'[p].text = docs[p].text
  OBVIOUS
<1>4. ViewStep => docs'[p] = docs[p]
  BY DEF ViewStep, View
<1>5. FileStep => docs'[p] = docs[p]
  BY FileStepFits
<1>6. CASE ReadStep
  <2>1. active \in Paths
    BY <1>6, ReadFits
  <2>2. \/ docs' = docs
        \/ pane.at = "read" /\ docs' = [docs EXCEPT ![active] = Document(pane.text, pane.mtime)]
    BY <1>6 DEF ReadStep, ReadTime, ReadBytes, ReadAnswered
  <2>3. CASE docs' = docs
    BY <1>3, <2>3
  <2>4. CASE pane.at = "read" /\ docs' = [docs EXCEPT ![active] = Document(pane.text, pane.mtime)]
    <3>1. docs'[active].text = pane.text /\ \A q \in Paths \ {active} : docs'[q] = docs[q]
      BY <1>2, <2>1, <2>4 DEF Document, DocTable
    <3>2. p = active => docs'[p].text \in held'[p]
      BY <1>1, <2>4, <3>1 DEF Stored, HeldInPane
    <3> QED BY <1>3, <3>1, <3>2
  <2> QED BY <2>2, <2>3, <2>4
<1>7. CASE Type
  BY <1>3, <1>7, EditFits
<1>8. CASE Undo
  <2>1. active \in Paths /\ docs[active] # None /\ \A q \in Paths \ {active} : docs'[q] = docs[q]
    BY <1>8, EditFits
  <2>2. docs[active] \in Documents /\ docs' = [docs EXCEPT ![active].text = docs[active].saved]
    BY <1>2, <1>8, <2>1 DEF Undo, DocTable
  <2>3. docs'[active].text = docs[active].saved
    BY <1>2, <2>1, <2>2 DEF Documents, DocTable
  <2>4. p = active => docs'[p].text \in held'[p]
    BY <1>1, <2>1, <2>3 DEF Stored, HeldInDocs
  <2> QED BY <1>3, <2>1, <2>4
<1>9. Save => docs'[p] = docs[p]
  BY SaveFits
<1>10. CASE Overwrite
  <2>1. active \in Paths /\ docs[active] # None /\ docs'[active].text = docs[active].text
    BY <1>10, OverwriteFits, NoneIsNothing
  <2>2. p # active => docs'[p] = docs[p]
    BY <1>10, OverwriteFits
  <2> QED BY <1>3, <2>1, <2>2
<1>11. ASSUME NEW q \in Paths, SaveAndClose(q) \/ WriteMoves(q) \/ WriteRefused(q)
       PROVE  docs'[p] = docs[p]
  BY <1>11, SaveAndCloseFits, WriteFits, RefusedFits
<1>12. ASSUME NEW q \in Paths, Written(q)
       PROVE  docs[p] # None /\ docs'[p].text = docs[p].text
  <2>1. saving[q] # None
    BY <1>12, WrittenFits, NoneIsNothing
  <2>2. CASE WrittenCloses(q)
    BY <1>3, <2>2 DEF WrittenCloses, View
  <2>3. CASE WrittenStores(q)
    <3>1. saving[q].doc # None => docs[saving[q].doc] # None
      BY <2>1 DEF Base, Shape, FitDocs
    <3> QED BY <2>3, <3>1, NoneIsNothing DEF WrittenStores, StoresIn
  <2> QED BY <1>12, <2>2, <2>3, WrittenFits
<1>13. CASE RenameHeard
  <2>1. moving \in Renames /\ moving.from \in Paths /\ moving.to \in Paths
    BY <1>13, RekeyFits DEF Renames
  <2>2. p # moving.to => docs'[p] = docs[p]
    BY <1>13, <2>1, RekeyFits, NoneIsNothing DEF Rekeyed
  <2> QED BY <1>3, <1>13, <2>1, <2>2
<1>14. UNCHANGED vars => docs'[p] = docs[p]
  BY DEF vars
<1>15. CASE ViewStep \/ FileStep \/ ReadStep \/ Type \/ Undo \/ Save \/ Overwrite \/ RenameHeard \/ UNCHANGED vars
  BY <1>3, <1>4, <1>5, <1>6, <1>7, <1>8, <1>9, <1>10, <1>13, <1>14, <1>15
<1>16. CASE \E q \in Paths : SaveAndClose(q) \/ WriteMoves(q) \/ Written(q) \/ WriteRefused(q)
  BY <1>3, <1>11, <1>12, <1>16
<1> QED BY <1>15, <1>16, StepKinds

(* How a delete goes on, and what is renamed meanwhile. *)
DeleteBegins ==
    /\ deleting = None /\ deleting' # None /\ deleting'.path \in Paths /\ UNCHANGED <<docs, held, moving>>
    /\ moving # None /\ moving.to = deleting'.path => "rename onto a delete" \in Races
    /\ deleting'.at = "asked" \/ ~isDirty(deleting'.path) \/ "delete in another Viewer" \in Races
DeleteGoes ==
    /\ deleting \in Deletes /\ deleting'.path = deleting.path /\ UNCHANGED <<docs, held, moving>>
    /\ \/ isDirty(deleting.path) => deleting'.named = docs[deleting.path].text
       \/ deleting.at # "asked" /\ deleting'.named = deleting.named
RenameMoves ==
    \/ moving' \in {moving, None}
    \/ moving \in Renames /\ moving # None /\ moving' = [moving EXCEPT !.done = TRUE]
    \/ \E from, to \in Paths :
         /\ moving' = [from |-> from, to |-> to, done |-> FALSE]
         /\ deleting # None /\ deleting.path = to => "rename onto a delete" \in Races

LEMMA TreeMoves ==
  ASSUME Base, [Next]_vars
  PROVE  \/ deleting' = deleting /\ RenameMoves
         \/ deleting' = None
         \/ DeleteBegins
         \/ DeleteGoes
<1>1. deleting # None => deleting \in Deletes
  BY DEF Base, TypeOK
<1>2. CASE \E p \in Paths, flag \in BOOLEAN : OpenAgain(p, flag) \/ OpenBeside(p, flag) \/ activate(p, flag)
  BY <1>2 DEF OpenAgain, OpenBeside, activate, idle, RenameMoves
<1>3. CASE \E p \in Paths : OpenInSlot(p) \/ close(p) \/ SaveAndClose(p) \/ DiscardAndClose(p) \/ KeepEditing(p)
                            \/ KeepMine(p) \/ ReloadFromDisk(p)
  BY <1>3 DEF OpenInSlot, close, SaveAndClose, DiscardAndClose, KeepEditing, KeepMine, ReloadFromDisk, idle, RenameMoves
<1>4. CASE Focus \/ Type \/ Undo \/ Save \/ Overwrite \/ UNCHANGED vars
  BY <1>4 DEF Focus, Type, Undo, Save, Overwrite, vars, idle, RenameMoves
<1>5. CASE StatStep \/ ReadStep
  BY <1>5 DEF StatStep, stat_at, Restated, PolledGone, PolledSame, PolledClean, PolledDirty,
              ReadStep, ReadTime, ReadBytes, ReadAnswered, idle, RenameMoves
<1>6. CASE WriteStep
  BY <1>6 DEF WriteStep, WriteChecked, WriteStale, WriteReplaced, WriteFailed, WriteStamped, Written, WriteRefused,
              idle, RenameMoves
<1>7. CASE Outside
  BY <1>7 DEF Outside, OutsideWrite, OutsideDelete, idle, RenameMoves
<1>8. CASE \E from, to \in Paths : RenameAsked(from, to)
  BY <1>8 DEF RenameAsked, RenameMoves
<1>9. CASE rename_at \/ RenameHeard
  BY <1>9 DEF rename_at, RenameHeard, RenameMoves, Base, TypeOK
<1>10. ASSUME NEW p \in Paths, DeleteAsked(p) \/ DeleteUnasked(p)
       PROVE  DeleteBegins
  <2>1. PICK at \in {"asked", "sent"} :
          Delete(p, at, None) /\ (at = "asked" \/ ~isDirty(p) \/ "delete in another Viewer" \in Races)
    BY <1>10 DEF DeleteAsked, DeleteUnasked
  <2>2. [path |-> p, at |-> at, named |-> None] \in Deletes
    BY DEF Deletes, Times
  <2>3. deleting = None /\ deleting' = [path |-> p, at |-> at, named |-> None] /\ UNCHANGED <<docs, held, moving>>
        /\ (moving # None /\ moving.to = p => "rename onto a delete" \in Races)
    BY <2>1 DEF Delete, files
  <2> QED BY <2>1, <2>2, <2>3, NoneIsNothing DEF DeleteBegins
<1>11. CASE DeleteConfirmed
  <2> DEFINE named == IF isDirty(deleting.path) THEN docs[deleting.path].text ELSE None
  <2>1. deleting \in Deletes /\ deleting' = [deleting EXCEPT !.at = "sent", !.named = named] /\ UNCHANGED <<docs, held, moving>>
    BY <1>1, <1>11 DEF DeleteConfirmed, files
  <2>2. isDirty(deleting.path) => named = docs[deleting.path].text
    OBVIOUS
  <2> HIDE DEF named
  <2>3. deleting'.path = deleting.path /\ deleting'.named = named
    BY <2>1 DEF Deletes
  <2> QED BY <2>1, <2>2, <2>3 DEF DeleteGoes
<1>12. CASE delete_at
  <2>1. deleting \in Deletes /\ deleting.at = "sent" /\ deleting' = [deleting EXCEPT !.at = "done"] /\ UNCHANGED <<docs, held, moving>>
    BY <1>1, <1>12 DEF delete_at
  <2>2. deleting'.path = deleting.path /\ deleting'.named = deleting.named
    BY <2>1 DEF Deletes
  <2> QED BY <2>1, <2>2 DEF DeleteGoes
<1>13. CASE DeleteCancelled \/ DeleteFailed \/ dropUnder
  BY <1>13 DEF DeleteCancelled, DeleteFailed, dropUnder
<1> QED BY <1>2, <1>3, <1>4, <1>5, <1>6, <1>7, <1>8, <1>9, <1>10, <1>11, <1>12, <1>13 DEF Next, UserStep, TreeStep

LEMMA NothingComesOnto ==
  ASSUME AskingAlone, Base, Asked, [Next]_vars
  PROVE  NothingOnto'
<1>1. CASE deleting' = deleting /\ RenameMoves
  <2>1. moving' \in {moving, None} => NothingOnto'
    BY <1>1 DEF Asked, NothingOnto
  <2>2. ASSUME moving \in Renames, moving # None, moving' = [moving EXCEPT !.done = TRUE]
        PROVE  NothingOnto'
    BY <1>1, <2>2 DEF Renames, Asked, NothingOnto
  <2>3. ASSUME NEW from \in Paths, NEW to \in Paths, moving' = [from |-> from, to |-> to, done |-> FALSE],
               deleting # None /\ deleting.path = to => "rename onto a delete" \in Races
        PROVE  NothingOnto'
    BY <1>1, <2>3 DEF AskingAlone, NothingOnto
  <2> QED BY <1>1, <2>1, <2>2, <2>3 DEF RenameMoves
<1>2. deleting' = None => NothingOnto'
  BY DEF NothingOnto
<1>3. DeleteBegins => NothingOnto'
  BY DEF DeleteBegins, AskingAlone, NothingOnto
<1>4. DeleteGoes => NothingOnto'
  BY NoneIsNothing DEF DeleteGoes, Asked, NothingOnto
<1> QED BY <1>1, <1>2, <1>3, <1>4, TreeMoves

LEMMA NamesStay ==
  ASSUME AskingAlone, Base, Stored, Asked, [Next]_vars
  PROVE  NamedAsSent'
<1>1. \A q \in Paths : docs[q] # None /\ ~isDirty(q) => docs[q].text \in held[q]
  BY DEF Stored, HeldInDocs, isDirty
<1>2. CASE deleting' = deleting
  <2> SUFFICES ASSUME deleting # None, deleting.at # "asked", docs'[deleting.path] # None
               PROVE  docs'[deleting.path].text \in {deleting.named} \cup held'[deleting.path]
    BY <1>2 DEF NamedAsSent
  <2>1. deleting.path \in Paths
    BY DEF Base, TypeOK, Deletes
  <2>2. held[deleting.path] \subseteq held'[deleting.path]
    BY <2>1, HeldGrows
  <2>3. ~(Type /\ deleting.path = active)
    BY DEF Type, Sent, AskingAlone
  <2>4. ~(RenameHeard /\ moving \in Renames /\ deleting.path = moving.to)
    BY NoneIsNothing DEF Asked, NothingOnto
  <2>5. \/ docs'[deleting.path].text \in held'[deleting.path]
        \/ docs[deleting.path] # None /\ docs'[deleting.path].text = docs[deleting.path].text
    BY <2>1, <2>3, <2>4, TextsStay
  <2> QED BY <2>2, <2>5 DEF Asked, NamedAsSent
<1>3. deleting' = None => NamedAsSent'
  BY DEF NamedAsSent
<1>4. DeleteBegins => NamedAsSent'
  BY <1>1 DEF DeleteBegins, NamedAsSent, AskingAlone
<1>5. CASE DeleteGoes
  <2>1. deleting # None /\ deleting.path \in Paths
    BY <1>5, NoneIsNothing DEF DeleteGoes, Deletes
  <2> QED BY <1>1, <1>5, <2>1 DEF DeleteGoes, NamedAsSent, Asked
<1> QED BY <1>2, <1>3, <1>4, <1>5, TreeMoves

(* A step that answers no question keeps every text that is nowhere else. *)
LEMMA UnsavedStays ==
  ASSUME AskingAlone, Base, Stored, Asked, [Next]_vars, NEW p \in Paths, Unsaved(p)
  PROVE  Answers \/ \E q \in Paths : docs'[q] # None /\ docs'[q].text = docs[p].text
<1>1. docs[p] # None /\ isDirty(p) /\ docs[p].text \notin held[p]
  BY DEF Unsaved, isDirty
<1>2. docs'[p] = docs[p] => \E q \in Paths : docs'[q] # None /\ docs'[q].text = docs[p].text
  BY <1>1
<1>3. ViewStep => Answers \/ docs'[p] = docs[p]
  <2>1. CASE dropUnder
    <3>1. deleting # None /\ deleting.at = "done" /\ \A q \in Paths : q # deleting.path => docs'[q] = docs[q]
      BY <2>1, DropUnderViews DEF dropUnder
    <3>2. p = deleting.path => Confirmed
      BY <1>1, <3>1 DEF Asked, NamedAsSent, Confirmed
    <3> QED BY <2>1, <3>1, <3>2 DEF Answers
  <2> QED BY <1>1, <2>1 DEF ViewStep
<1>4. FileStep => docs'[p] = docs[p]
  BY FileStepFits
<1>5. ReadStep => docs'[p] = docs[p]
  <2>1. ASSUME ReadStep
        PROVE  docs'[p] = docs[p]
    <3>1. active \in Paths /\ docs \in DocTable /\ docs[active] = None
      BY <2>1, ReadFits DEF ReadStep, ReadTime, ReadBytes, ReadAnswered, Asked, ReadsIntoNothing
    <3>2. docs' = docs \/ docs' = [docs EXCEPT ![active] = Document(pane.text, pane.mtime)]
      BY <2>1 DEF ReadStep, ReadTime, ReadBytes, ReadAnswered
    <3> QED BY <1>1, <3>1, <3>2 DEF DocTable
  <2> QED BY <2>1
<1>6. Type \/ Undo => Answers
  BY DEF Answers
<1>7. Save => docs'[p] = docs[p]
  BY SaveFits
<1>8. Overwrite => docs'[p] # None /\ docs'[p].text = docs[p].text
  BY <1>1, OverwriteFits, NoneIsNothing
<1>9. ASSUME NEW q \in Paths, SaveAndClose(q) \/ WriteMoves(q) \/ WriteRefused(q)
      PROVE  docs'[p] = docs[p]
  BY <1>9, SaveAndCloseFits, WriteFits, RefusedFits
<1>10. ASSUME NEW q \in Paths, Written(q)
       PROVE  docs'[p] # None /\ docs'[p].text = docs[p].text
  <2>1. saving[q] # None /\ saving[q].at = "written"
    BY <1>10, WrittenFits, NoneIsNothing
  <2>2. CASE WrittenCloses(q)
    <3>1. "close" \in saving[q].callers /\ \A r \in Paths : r # q => docs'[r] = docs[r]
      BY <2>2 DEF WrittenCloses
    <3>2. saving[q].text \in held[q]
      BY <2>1 DEF Stored, HeldWritten
    <3>3. p # q
      BY <1>1, <2>1, <3>1, <3>2 DEF Asked, ClosesOverSaved
    <3> QED BY <1>1, <3>1, <3>3
  <2>3. CASE WrittenStores(q)
    <3>1. saving[q].doc # None => docs[saving[q].doc] # None
      BY <2>1 DEF Base, Shape, FitDocs
    <3> QED BY <1>1, <2>3, <3>1, NoneIsNothing DEF WrittenStores, StoresIn
  <2> QED BY <1>10, <2>2, <2>3, WrittenFits
<1>11. ASSUME RenameHeard
       PROVE  \E q \in Paths : docs'[q] # None /\ docs'[q].text = docs[p].text
  <2>1. CASE UNCHANGED <<tabs, docs, active, pane, saving>>
    BY <1>1, <2>1
  <2>2. CASE Rekeyed(moving.from, moving.to)
    <3> DEFINE from == moving.from  to == moving.to
    <3>1. moving \in Renames /\ moving # None /\ tabs[to] = None
      BY <1>11, RekeyFits, NoneIsNothing DEF Asked, NewPathFree
    <3>2. from \in Paths /\ to \in Paths
      BY <3>1 DEF Renames
    <3>3. p # to
      BY <1>1, <3>1 DEF Base, Shape, FitTabs
    <3>4. /\ docs[from] = None => docs' = docs
          /\ docs[from] # None => docs'[to] = docs[from] /\ \A q \in Paths \ {from, to} : docs'[q] = docs[q]
      BY <2>2 DEF Rekeyed
    <3> HIDE DEF from, to
    <3> QED BY <1>1, <3>2, <3>3, <3>4
  <2> QED BY <1>11, <2>1, <2>2, RekeyFits
<1>12. UNCHANGED vars => docs'[p] = docs[p]
  BY DEF vars
<1>13. CASE ViewStep \/ FileStep \/ ReadStep \/ Type \/ Undo \/ Save \/ Overwrite \/ UNCHANGED vars
  BY <1>2, <1>3, <1>4, <1>5, <1>6, <1>7, <1>8, <1>12, <1>13
<1>14. CASE \E q \in Paths : SaveAndClose(q) \/ WriteMoves(q) \/ Written(q) \/ WriteRefused(q)
  BY <1>2, <1>9, <1>10, <1>14
<1> QED BY <1>11, <1>13, <1>14, StepKinds

LEMMA AskedStep ==
  ASSUME AskingAlone, Base, Stored, Asked, [Next]_vars
  PROVE  (\E p \in Paths : Unsaved(p) /\ docs[p].text \notin Texts(docs') \cup UNION {held'[q] : q \in Paths}) => Answers
<1> SUFFICES ASSUME NEW p \in Paths, Unsaved(p), docs[p].text \notin Texts(docs')
             PROVE  Answers
  OBVIOUS
<1>1. Answers \/ \E q \in Paths : docs'[q] # None /\ docs'[q].text = docs[p].text
  BY UnsavedStays
<1>2. ~(\E q \in Paths : docs'[q] # None /\ docs'[q].text = docs[p].text)
  BY DEF Texts
<1> QED BY <1>1, <1>2

LEMMA AskedInit ==
  ASSUME Init
  PROVE  Asked
BY DEF Init, Asked, NewPathFree, ReadsIntoNothing, ClosesOverSaved, NothingOnto, NamedAsSent, Pane

(* Unsaved work leaves a buffer only when its user types over it, undoes it or     *)
(* answers the question that names it, while none of the eight races that lose it *)
(* happens: no poll, peek, refused save, overwriting save, writer outside, or      *)
(* delete of a file its user was asked about takes it (useOpenFiles.ts: isSpare,   *)
(* closeTab, dropUnder, rekey).                                                   *)
THEOREM AskedAlways ==
  ASSUME Races \cap {"rename during a save", "writer during a rename", "typing while a close saves",
                     "closing over an older save", "rename onto a tab", "typing under a delete",
                     "delete in another Viewer", "rename onto a delete"} = {}
  PROVE  Spec => AskedFirst
<1>1. RenamesAlone /\ AskingAlone
  BY DEF RenamesAlone, AskingAlone
<1>2. Base /\ Stay /\ Stored /\ Asked /\ [Next]_vars => (Base /\ Stay /\ Stored /\ Asked)'
  <2>1. Base /\ Stay /\ Stored /\ Asked /\ [Next]_vars => (Base /\ Stay /\ Stored)'
    BY <1>1, BaseKept, StayKept, StoredKept
  <2>2. Base /\ Stay /\ Stored /\ Asked /\ [Next]_vars => Asked'
    BY <1>1, NewPathStaysFree, ReadsStayIntoNothing, ClosesStayOverSaved, NothingComesOnto, NamesStay DEF Asked
  <2> QED BY <2>1, <2>2
<1>3. Init => Base /\ Stay /\ Stored /\ Asked
  BY BaseInit, StoredInit, AskedInit
<1>4. Base /\ Stored /\ Asked /\ [Next]_vars =>
        [(\E p \in Paths : Unsaved(p) /\ docs[p].text \notin Texts(docs') \cup UNION {held'[q] : q \in Paths})
          => Answers]_vars
  BY <1>1, AskedStep
<1>5. Spec => [](Base /\ Stay /\ Stored /\ Asked)
  BY <1>2, <1>3, PTL DEF Spec
<1> QED BY <1>4, <1>5, PTL DEF Spec, AskedFirst

-----------------------------------------------------------------------------
(* A save replaces only what its buffer knows.                                 *)

WritersAlone ==
    Races \cap {"rename during a save", "writer during a rename", "writer during a save",
                "overwrite of a deleted file"} = {}

\* whoever knows time m knows it of texts `ts` only: what is on the disk with that time is one of them
Known(dk, now, m, ts) ==
    m \in Nat /\ m <= now /\ \A q \in Paths : dk[q] # None /\ dk[q].mtime = m => dk[q].text \in ts

\* no two files have one time, and none has a time to come
TimesDiffer ==
    \A p, q \in Paths : disk[p] # None =>
      disk[p].mtime <= clock /\ (disk[q] # None /\ disk[q].mtime = disk[p].mtime => p = q)
DocsKnow == \A p \in Paths : docs[p] # None => Known(disk, clock, docs[p].base, docs[p].knows)
SavesKnow == \A p \in Paths : saving[p] # None => Known(disk, clock, saving[p].base, saving[p].knows)
\* a check, and the text put in place, hold until the write has answered
ChecksHold ==
    \A p \in Paths : saving[p] # None =>
      /\ saving[p].at = "checked" => disk[p] # None /\ disk[p].mtime = saving[p].base
      /\ saving[p].at = "replaced" => disk[p] # None /\ disk[p].text = saving[p].text
AnswersKnow ==
    \A p \in Paths : saving[p] # None =>
      /\ saving[p].at = "written" => Known(disk, clock, saving[p].mtime, {saving[p].text})
      /\ saving[p].at = "stale" /\ saving[p].mtime # None =>
           Known(disk, clock, saving[p].mtime, {saving[p].found} \ {None})
PaneKnows ==
    /\ pane.at = "read" => Known(disk, clock, pane.mtime, {pane.text})
    /\ pane.at = "conflict" /\ pane.mtime # None => Known(disk, clock, pane.mtime, {pane.text} \ {None})
\* the time read is the shown file's alone, until a rename takes the file and its time away
TimeIsIts ==
    pane.at = "timed" =>
      /\ pane.mtime \in Nat /\ pane.mtime <= clock
      /\ \A q \in Paths \ {active} : disk[q] # None /\ disk[q].mtime = pane.mtime =>
           moving # None /\ moving.done /\ moving.from = active
Knows == TimesDiffer /\ DocsKnow /\ SavesKnow /\ ChecksHold /\ AnswersKnow /\ PaneKnows /\ TimeIsIts

LEMMA KnownOfMore ==
  ASSUME NEW dk, NEW now, NEW m, NEW a, NEW b, Known(dk, now, m, a), a \subseteq b
  PROVE  Known(dk, now, m, b)
BY DEF Known

(* A step puts down new versions with a new time, and moves or removes the others. *)
LEMMA VersionsMove ==
  ASSUME Base, [Next]_vars
  PROVE  /\ clock \in Nat /\ (clock' = clock \/ clock' = clock + 1)
         /\ \A q \in Paths : disk'[q] # None =>
              \/ disk'[q].mtime = clock + 1 /\ clock' = clock + 1
              \/ \E r \in Paths : disk[r] # None /\ disk'[q] = disk[r]
<1>1. disk \in [Paths -> Files \cup {None}] /\ clock \in Nat
  BY DEF Base, TypeOK
<1>2. UNCHANGED <<disk, clock>> =>
        /\ clock' = clock
        /\ \A q \in Paths : disk'[q] # None => \E r \in Paths : disk[r] # None /\ disk'[q] = disk[r]
  OBVIOUS
<1>3. CASE FileStep
  <2>1. ASSUME NEW p \in Paths, disk' = [disk EXCEPT ![p] = [text |-> clock + 1, mtime |-> clock + 1]], clock' = clock + 1,
               NEW q \in Paths, disk'[q] # None
        PROVE  \/ disk'[q].mtime = clock + 1 /\ clock' = clock + 1
               \/ \E r \in Paths : disk[r] # None /\ disk'[q] = disk[r]
    BY <1>1, <2>1
  <2>2. ASSUME NEW p \in Paths, disk' = [disk EXCEPT ![p] = None], NEW q \in Paths, disk'[q] # None
        PROVE  \E r \in Paths : disk[r] # None /\ disk'[q] = disk[r]
    BY <1>1, <2>2
  <2>3. ASSUME moving \in Renames, disk' = [disk EXCEPT ![moving.to] = disk[moving.from], ![moving.from] = None],
               disk[moving.from] # None, NEW q \in Paths, disk'[q] # None
        PROVE  \E r \in Paths : disk[r] # None /\ disk'[q] = disk[r]
    <3>1. moving.from \in Paths /\ moving.to \in Paths /\ moving.from # moving.to
      BY <2>3 DEF Renames
    <3> QED BY <1>1, <2>3, <3>1
  <2> QED BY <1>1, <1>2, <1>3, <2>1, <2>2, <2>3, FileStepWrites
<1>4. ASSUME NEW p \in Paths, WriteMoves(p)
      PROVE  /\ (clock' = clock \/ clock' = clock + 1)
             /\ \A q \in Paths : disk'[q] # None =>
                  \/ disk'[q].mtime = clock + 1 /\ clock' = clock + 1
                  \/ \E r \in Paths : disk[r] # None /\ disk'[q] = disk[r]
  <2>1. CASE WriteReplaced(p)
    <3>1. disk' = [disk EXCEPT ![p] = [text |-> saving[p].text, mtime |-> clock + 1]] /\ clock' = clock + 1
      BY <2>1 DEF WriteReplaced
    <3> QED BY <1>1, <3>1
  <2>2. CASE ~WriteReplaced(p)
    <3>1. UNCHANGED <<disk, clock>>
      BY <1>4, <2>2 DEF WriteMoves, WriteChecked, WriteStale, WriteFailed, WriteStamped, files, bounds
    <3> QED BY <1>2, <3>1
  <2> QED BY <2>1, <2>2
<1>5. CASE Type \/ Undo
  <2>1. disk' = disk /\ (clock' = clock \/ clock' = clock + 1)
    BY <1>5, EditFits DEF Type, Undo
  <2> QED BY <1>1, <2>1
<1>6. UNCHANGED vars => UNCHANGED <<disk, clock>>
  BY DEF vars
<1>7. CASE ViewStep \/ ReadStep \/ Save \/ Overwrite \/ RenameHeard \/ UNCHANGED vars
           \/ \E p \in Paths : SaveAndClose(p) \/ Written(p) \/ WriteRefused(p)
  <2>1. UNCHANGED <<disk, clock>>
    BY <1>6, <1>7, ReadFits, SaveFits, OverwriteFits, SaveAndCloseFits, WrittenFits, RefusedFits, RekeyFits DEF ViewStep
  <2> QED BY <1>1, <1>2, <2>1
<1>8. CASE \E p \in Paths : WriteMoves(p)
  BY <1>1, <1>4, <1>8
<1> QED BY <1>3, <1>5, <1>7, <1>8, StepKinds

(* What is known stays known. *)
LEMMA KnownStays ==
  ASSUME Base, [Next]_vars, NEW m, NEW ts, Known(disk, clock, m, ts)
  PROVE  Known(disk', clock', m, ts)
<1>1. /\ clock \in Nat /\ (clock' = clock \/ clock' = clock + 1)
      /\ \A q \in Paths : disk'[q] # None =>
           \/ disk'[q].mtime = clock + 1 /\ clock' = clock + 1
           \/ \E r \in Paths : disk[r] # None /\ disk'[q] = disk[r]
  BY VersionsMove
<1>2. m \in Nat /\ m <= clock /\ \A q \in Paths : disk[q] # None /\ disk[q].mtime = m => disk[q].text \in ts
  BY DEF Known
<1>3. m <= clock' /\ m # clock + 1
  BY <1>1, <1>2
<1>4. ASSUME NEW q \in Paths, disk'[q] # None, disk'[q].mtime = m
      PROVE  disk'[q].text \in ts
  BY <1>1, <1>2, <1>3, <1>4
<1> QED BY <1>2, <1>3, <1>4 DEF Known

LEMMA TimesStayDifferent ==
  ASSUME Base, TimesDiffer, [Next]_vars
  PROVE  TimesDiffer'
<1>1. disk \in [Paths -> Files \cup {None}] /\ clock \in Nat
  BY DEF Base, TypeOK
<1>2. \A p \in Paths : disk[p] # None => disk[p].mtime \in Nat
  BY <1>1 DEF Files
<1>3. UNCHANGED <<disk, clock>> => TimesDiffer'
  BY DEF TimesDiffer
<1>4. ASSUME NEW p \in Paths, NEW v, v.mtime = clock + 1, disk' = [disk EXCEPT ![p] = v], clock' = clock + 1
      PROVE  TimesDiffer'
  <2>1. ASSUME NEW q \in Paths, disk[q] # None
        PROVE  disk[q].mtime <= clock + 1 /\ disk[q].mtime # clock + 1
    BY <1>1, <1>2, <2>1 DEF TimesDiffer
  <2> QED BY <1>1, <1>4, <2>1 DEF TimesDiffer
<1>5. CASE FileStep
  <2>1. ASSUME NEW p \in Paths, disk' = [disk EXCEPT ![p] = [text |-> clock + 1, mtime |-> clock + 1]], clock' = clock + 1
        PROVE  TimesDiffer'
    BY <1>4, <2>1
  <2>2. ASSUME NEW p \in Paths, disk' = [disk EXCEPT ![p] = None], clock' = clock
        PROVE  TimesDiffer'
    BY <1>1, <2>2 DEF TimesDiffer
  <2>3. ASSUME moving \in Renames, disk' = [disk EXCEPT ![moving.to] = disk[moving.from], ![moving.from] = None],
               disk[moving.from] # None, clock' = clock
        PROVE  TimesDiffer'
    <3>1. moving.from \in Paths /\ moving.to \in Paths /\ moving.from # moving.to
      BY <2>3 DEF Renames
    <3> QED BY <1>1, <2>3, <3>1 DEF TimesDiffer
  <2> QED BY <1>3, <1>5, <2>1, <2>2, <2>3, FileStepWrites
<1>6. ASSUME NEW p \in Paths, WriteMoves(p)
      PROVE  TimesDiffer'
  <2>1. CASE WriteReplaced(p)
    <3>1. disk' = [disk EXCEPT ![p] = [text |-> saving[p].text, mtime |-> clock + 1]] /\ clock' = clock + 1
      BY <2>1 DEF WriteReplaced
    <3> QED BY <1>4, <3>1
  <2>2. CASE ~WriteReplaced(p)
    BY <1>3, <1>6, <2>2 DEF WriteMoves, WriteChecked, WriteStale, WriteFailed, WriteStamped, files, bounds
  <2> QED BY <2>1, <2>2
<1>7. CASE Type \/ Undo
  <2>1. disk' = disk /\ (clock' = clock \/ clock' = clock + 1)
    BY <1>7, EditFits DEF Type, Undo
  <2> QED BY <1>1, <1>2, <2>1 DEF TimesDiffer
<1>8. UNCHANGED vars => UNCHANGED <<disk, clock>>
  BY DEF vars
<1>9. CASE ViewStep \/ ReadStep \/ Save \/ Overwrite \/ RenameHeard \/ UNCHANGED vars
           \/ \E p \in Paths : SaveAndClose(p) \/ Written(p) \/ WriteRefused(p)
  BY <1>3, <1>8, <1>9, ReadFits, SaveFits, OverwriteFits, SaveAndCloseFits, WrittenFits, RefusedFits, RekeyFits DEF ViewStep
<1> QED BY <1>5, <1>6, <1>7, <1>9, StepKinds

LEMMA DocsStillKnow ==
  ASSUME WritersAlone, Base, Knows, [Next]_vars
  PROVE  DocsKnow'
<1>1. docs \in DocTable
  BY DEF Base, TypeOK, DocTable
<1>2. \A q \in Paths : docs[q] # None => Known(disk', clock', docs[q].base, docs[q].knows)
  BY KnownStays DEF Knows, DocsKnow
<1>3. ASSUME \A q \in Paths : docs'[q] # None =>
               \/ Known(disk', clock', docs'[q].base, docs'[q].knows)
               \/ \E r \in Paths : docs[r] # None /\ docs'[q].base = docs[r].base /\ docs'[q].knows = docs[r].knows
      PROVE  DocsKnow'
  BY <1>2, <1>3 DEF DocsKnow
<1>4. (\A q \in Paths : docs'[q] \in {docs[q], None}) => DocsKnow'
  BY <1>3
<1>5. CASE ViewStep
  BY <1>4, <1>5 DEF ViewStep, View
<1>6. CASE FileStep
  BY <1>4, <1>6, FileStepFits
<1>7. CASE ReadStep
  <2>1. active \in Paths
    BY <1>7, ReadFits
  <2>2. docs' = docs \/ (pane.at = "read" /\ docs' = [docs EXCEPT ![active] = Document(pane.text, pane.mtime)])
    BY <1>7 DEF ReadStep, ReadTime, ReadBytes, ReadAnswered
  <2>3. CASE docs' = docs
    BY <1>4, <2>3
  <2>4. CASE pane.at = "read" /\ docs' = [docs EXCEPT ![active] = Document(pane.text, pane.mtime)]
    <3>1. /\ docs'[active].base = pane.mtime /\ docs'[active].knows = {pane.text}
          /\ \A q \in Paths \ {active} : docs'[q] = docs[q]
      BY <1>1, <2>1, <2>4 DEF Document, DocTable
    <3>2. Known(disk', clock', pane.mtime, {pane.text})
      BY <2>4, KnownStays DEF Knows, PaneKnows
    <3> QED BY <1>3, <3>1, <3>2
  <2> QED BY <2>2, <2>3, <2>4
<1>8. CASE Type \/ Undo
  <2>1. /\ active \in Paths /\ docs[active] # None /\ \A q \in Paths \ {active} : docs'[q] = docs[q]
        /\ docs'[active] = [docs[active] EXCEPT !.text = docs'[active].text]
    BY <1>8, EditFits
  <2>2. docs'[active].base = docs[active].base /\ docs'[active].knows = docs[active].knows
    BY <1>1, <2>1 DEF DocTable, Documents
  <2> QED BY <1>3, <2>1, <2>2
<1>9. CASE Overwrite
  <2>1. /\ active \in Paths /\ \A q \in Paths \ {active} : docs'[q] = docs[q]
        /\ docs'[active].base = pane.mtime /\ pane.at = "conflict" /\ pane.mtime # None
        /\ docs'[active].knows = docs[active].knows \cup ({pane.text} \ {None})
    BY <1>9, OverwriteFits DEF WritersAlone
  <2>2. Known(disk', clock', pane.mtime, {pane.text} \ {None})
    BY <2>1, KnownStays DEF Knows, PaneKnows
  <2>3. Known(disk', clock', docs'[active].base, docs'[active].knows)
    BY <2>1, <2>2, KnownOfMore
  <2> QED BY <1>3, <2>1, <2>3
<1>10. Save => DocsKnow'
  BY <1>4, SaveFits
<1>11. ASSUME NEW p \in Paths, SaveAndClose(p) \/ WriteMoves(p) \/ WriteRefused(p)
       PROVE  DocsKnow'
  BY <1>4, <1>11, SaveAndCloseFits, WriteFits, RefusedFits
<1>12. ASSUME NEW p \in Paths, Written(p)
       PROVE  DocsKnow'
  <2>1. CASE WrittenCloses(p)
    BY <1>4, <2>1 DEF WrittenCloses, View
  <2>2. CASE WrittenStores(p)
    <3>1. saving[p] # None /\ saving[p].at = "written" /\ StoresIn(saving[p])
      BY <1>12, <2>2, WrittenFits, NoneIsNothing DEF WrittenStores
    <3>2. CASE saving[p].doc = None
      BY <1>4, <3>1, <3>2 DEF StoresIn
    <3>3. CASE saving[p].doc # None
      <4> DEFINE at == saving[p].doc
      <4>1. /\ docs'[at].base = saving[p].mtime /\ docs'[at].knows = docs[at].knows \cup {saving[p].text}
            /\ \A q \in Paths \ {at} : docs'[q] = docs[q]
        BY <3>1, <3>3 DEF StoresIn
      <4>2. Known(disk', clock', saving[p].mtime, {saving[p].text})
        BY <3>1, KnownStays DEF Knows, AnswersKnow
      <4>3. Known(disk', clock', docs'[at].base, docs'[at].knows)
        BY <4>1, <4>2, KnownOfMore
      <4> HIDE DEF at
      <4> QED BY <1>3, <4>1, <4>3
    <3> QED BY <3>2, <3>3
  <2> QED BY <1>12, <2>1, <2>2, WrittenFits
<1>13. CASE RenameHeard
  <2>1. CASE UNCHANGED <<tabs, docs, active, pane, saving>>
    BY <1>4, <2>1
  <2>2. CASE Rekeyed(moving.from, moving.to)
    <3>1. moving.from \in Paths /\ moving.to \in Paths
      BY <1>13, RekeyFits DEF Renames
    <3> QED BY <1>3, <2>2, <3>1 DEF Rekeyed
  <2> QED BY <1>13, <2>1, <2>2, RekeyFits
<1>14. UNCHANGED vars => DocsKnow'
  BY <1>4 DEF vars
<1> QED BY <1>5, <1>6, <1>7, <1>8, <1>9, <1>10, <1>11, <1>12, <1>13, <1>14, StepKinds

(* A save that was not just begun is one that went on. *)
LEMMA SavesGoOn ==
  ASSUME Base, [Next]_vars, NEW p \in Paths, saving'[p] # None
  PROVE  \/ saving[p] # None /\ Same(saving[p], saving'[p])
         \/ WriteMoves(p) /\ saving[p] # None
         \/ saving[p] = None /\ saving'[p].at = "sent" /\ docs'[p] # None
            /\ saving'[p].base = docs'[p].base /\ saving'[p].knows = docs'[p].knows
<1>1. CASE saving'[p] = saving[p]
  BY <1>1 DEF Same
<1>2. Carries(saving, saving') => saving[p] # None /\ Same(saving[p], saving'[p])
  BY DEF Carries
<1>3. CASE ViewStep
  BY <1>2, <1>3 DEF ViewStep, View
<1>4. CASE FileStep \/ ReadStep \/ Type \/ Undo \/ UNCHANGED vars
  BY <1>1, <1>4, FileStepFits, ReadFits, EditFits DEF vars
<1>5. ASSUME NEW q \in Paths, NEW caller, NEW d, Saving(q, caller, d), docs'[q] = d, d # None
      PROVE  \/ saving[p] # None /\ Same(saving[p], saving'[p])
             \/ saving[p] = None /\ saving'[p].at = "sent" /\ docs'[p] # None
                /\ saving'[p].base = docs'[p].base /\ saving'[p].knows = docs'[p].knows
  <2>1. CASE q = p /\ saving[p] = None
    BY <1>5, <2>1 DEF Saving
  <2>2. CASE q = p /\ saving[p] # None
    BY <1>5, <2>2 DEF Saving
  <2>3. CASE q # p
    <3>1. saving'[p] = saving[p]
      BY <1>5, <2>3 DEF Saving
    <3>2. Same(saving[p], saving'[p])
      BY <3>1 DEF Same
    <3> QED BY <3>1, <3>2
  <2> QED BY <2>1, <2>2, <2>3
<1>6. CASE Save
  <2>1. docs[active] # None /\ docs'[active] = docs[active]
    BY <1>6, SaveFits, NoneIsNothing
  <2> QED BY <1>5, <1>6, <2>1, SaveFits
<1>7. CASE Overwrite
  <2>1. docs'[active] # None
    BY <1>7, OverwriteFits, NoneIsNothing
  <2> QED BY <1>5, <1>7, <2>1, OverwriteFits
<1>8. ASSUME NEW q \in Paths, SaveAndClose(q)
      PROVE  \/ saving[p] # None /\ Same(saving[p], saving'[p])
             \/ saving[p] = None /\ saving'[p].at = "sent" /\ docs'[p] # None
                /\ saving'[p].base = docs'[p].base /\ saving'[p].knows = docs'[p].knows
  <2>1. docs[q] # None /\ docs'[q] = docs[q]
    BY <1>8, SaveAndCloseFits, NoneIsNothing
  <2> QED BY <1>5, <1>8, <2>1, SaveAndCloseFits
<1>9. ASSUME NEW q \in Paths, WriteMoves(q)
      PROVE  (WriteMoves(p) /\ saving[p] # None) \/ saving'[p] = saving[p]
  BY <1>9, WritesGoOn, NoneIsNothing DEF WriteMoves, Goes
<1>10. ASSUME NEW q \in Paths, saving' = Ended(q) \/ Carries(Ended(q), saving')
       PROVE  saving[p] # None /\ Same(saving[p], saving'[p])
  <2>1. p # q /\ Ended(q)[p] = saving[p] /\ saving[p] # None
    BY <1>10, EndedFits DEF Carries
  <2> QED BY <1>10, <2>1 DEF Carries, Same
<1>11. ASSUME NEW q \in Paths, Written(q) \/ WriteRefused(q)
       PROVE  saving[p] # None /\ Same(saving[p], saving'[p])
  BY <1>10, <1>11, WrittenFits, RefusedFits DEF WrittenStores, WrittenCloses, View
<1>12. CASE RenameHeard
  BY <1>1, <1>2, <1>12, RekeyFits DEF Rekeyed
<1>13. CASE Save \/ Overwrite \/ \E q \in Paths : SaveAndClose(q)
  BY <1>6, <1>7, <1>8, <1>13
<1>14. CASE \E q \in Paths : WriteMoves(q)
  BY <1>1, <1>9, <1>14
<1>15. CASE \E q \in Paths : Written(q) \/ WriteRefused(q)
  BY <1>11, <1>15
<1> QED BY <1>3, <1>4, <1>12, <1>13, <1>14, <1>15, StepKinds

LEMMA SavesStillKnow ==
  ASSUME WritersAlone, Base, Knows, [Next]_vars
  PROVE  SavesKnow'
<1>1. ASSUME NEW p \in Paths, saving'[p] # None
      PROVE  Known(disk', clock', saving'[p].base, saving'[p].knows)
  <2>1. saving[p] # None => Known(disk', clock', saving[p].base, saving[p].knows)
    BY KnownStays DEF Knows, SavesKnow
  <2>2. CASE saving[p] # None /\ Same(saving[p], saving'[p])
    BY <2>1, <2>2 DEF Same
  <2>3. CASE WriteMoves(p) /\ saving[p] # None
    <3>1. saving'[p].base = saving[p].base /\ saving'[p].knows = saving[p].knows
      BY <2>3, WritesGoOn DEF WriteMoves, Goes
    <3> QED BY <2>1, <2>3, <3>1
  <2>4. CASE docs'[p] # None /\ saving'[p].base = docs'[p].base /\ saving'[p].knows = docs'[p].knows
    BY <2>4, DocsStillKnow DEF DocsKnow
  <2> QED BY <1>1, <2>2, <2>3, <2>4, SavesGoOn
<1> QED BY <1>1 DEF SavesKnow

(* Nobody else touches the file of a save between its check and its answer. *)
LEMMA CheckedStays ==
  ASSUME WritersAlone, Base, Stay, [Next]_vars, NEW p \in Paths, saving[p] # None,
         saving[p].at \in {"checked", "replaced"}, disk[p] # None, ~WriteReplaced(p)
  PROVE  disk'[p] = disk[p]
<1>1. disk \in [Paths -> Files \cup {None}]
  BY DEF Base, TypeOK
<1>2. ASSUME NEW q \in Paths, Outlasts(q)
      PROVE  q # p
  BY <1>2 DEF Outlasts, Writing, WritersAlone
<1>3. CASE FileStep
  <2>1. ASSUME NEW q \in Paths, Outlasts(q), NEW v, disk' = [disk EXCEPT ![q] = v]
        PROVE  disk'[p] = disk[p]
    BY <1>1, <1>2, <2>1
  <2>2. ASSUME NEW q \in Paths, Outlasts(q), disk' = [disk EXCEPT ![q] = [text |-> clock + 1, mtime |-> clock + 1]]
        PROVE  disk'[p] = disk[p]
    BY <2>1, <2>2
  <2>3. ASSUME NEW q \in Paths, Outlasts(q), disk' = [disk EXCEPT ![q] = None]
        PROVE  disk'[p] = disk[p]
    BY <2>1, <2>3
  <2>4. ASSUME moving \in Renames, disk' = [disk EXCEPT ![moving.to] = disk[moving.from], ![moving.from] = None],
               disk[moving.to] = None
        PROVE  disk'[p] = disk[p]
    <3>1. moving # None /\ moving.from \in Paths /\ moving.to \in Paths
      BY <2>4, NoneIsNothing DEF Renames
    <3>2. p # moving.from /\ p # moving.to
      BY <2>4, <3>1 DEF Stay
    <3> QED BY <1>1, <2>4, <3>1, <3>2
  <2> QED BY <1>3, <2>2, <2>3, <2>4, FileStepWrites
<1>4. ASSUME NEW q \in Paths, WriteMoves(q)
      PROVE  disk'[p] = disk[p]
  <2>1. CASE WriteReplaced(q)
    <3>1. q # p /\ disk' = [disk EXCEPT ![q] = [text |-> saving[q].text, mtime |-> clock + 1]]
      BY <2>1 DEF WriteReplaced
    <3> QED BY <1>1, <3>1
  <2>2. CASE ~WriteReplaced(q)
    BY <1>4, <2>2 DEF WriteMoves, WriteChecked, WriteStale, WriteFailed, WriteStamped, files
  <2> QED BY <2>1, <2>2
<1>5. CASE ViewStep \/ ReadStep \/ Type \/ Undo \/ Save \/ Overwrite \/ RenameHeard \/ UNCHANGED vars
           \/ \E q \in Paths : SaveAndClose(q) \/ Written(q) \/ WriteRefused(q)
  BY <1>5, ReadFits, EditFits, SaveFits, OverwriteFits, SaveAndCloseFits, WrittenFits, RefusedFits, RekeyFits
     DEF ViewStep, vars
<1> QED BY <1>3, <1>4, <1>5, StepKinds

LEMMA ChecksStillHold ==
  ASSUME WritersAlone, Base, Stay, Knows, [Next]_vars
  PROVE  ChecksHold'
<1>1. ASSUME NEW p \in Paths, saving'[p] # None
      PROVE  /\ saving'[p].at = "checked" => disk'[p] # None /\ disk'[p].mtime = saving'[p].base
             /\ saving'[p].at = "replaced" => disk'[p] # None /\ disk'[p].text = saving'[p].text
  <2>1. saving[p] # None =>
          /\ saving[p].at = "checked" => disk[p] # None /\ disk[p].mtime = saving[p].base
          /\ saving[p].at = "replaced" => disk[p] # None /\ disk[p].text = saving[p].text
    BY DEF Knows, ChecksHold
  <2>2. CASE saving[p] # None /\ Same(saving[p], saving'[p]) /\ ~WriteReplaced(p)
    BY <2>1, <2>2, CheckedStays DEF Same
  <2>3. CASE WriteMoves(p) /\ saving[p] # None
    <3>1. CASE WriteChecked(p)
      <4>1. /\ Goes(p, "checked", saving[p].mtime, saving[p].found) /\ disk' = disk
            /\ saving[p].base = None \/ saving[p].base = mtime_at(p)
        BY <3>1, WritesGoOn DEF WriteChecked, files, Unchanged
      <4>2. Known(disk, clock, saving[p].base, saving[p].knows)
        BY <2>3 DEF Knows, SavesKnow
      <4>3. saving[p].base # None
        BY <4>2, NoneIsNothing DEF Known
      <4>4. disk[p] # None /\ disk[p].mtime = saving[p].base
        BY <4>1, <4>3 DEF mtime_at
      <4> QED BY <4>1, <4>4 DEF Goes
    <3>2. CASE WriteReplaced(p)
      <4>1. /\ Goes(p, "replaced", saving[p].mtime, saving[p].found)
            /\ disk' = [disk EXCEPT ![p] = [text |-> saving[p].text, mtime |-> clock + 1]]
        BY <3>2, WritesGoOn DEF WriteReplaced
      <4>2. [text |-> saving[p].text, mtime |-> clock + 1] \in Files
        BY <4>1 DEF Goes, Saves, Files, Base, TypeOK
      <4>3. [text |-> saving[p].text, mtime |-> clock + 1] # None
        BY <4>2, NoneIsNothing
      <4>4. disk'[p] = [text |-> saving[p].text, mtime |-> clock + 1]
        BY <4>1 DEF Base, TypeOK
      <4> QED BY <4>1, <4>3, <4>4 DEF Goes
    <3>3. CASE WriteStale(p) \/ WriteFailed(p) \/ WriteStamped(p)
      BY <3>3, WritesGoOn DEF Goes
    <3> QED BY <2>3, <3>1, <3>2, <3>3 DEF WriteMoves
  <2>4. CASE saving'[p].at = "sent"
    BY <2>4
  <2> QED BY <1>1, <2>2, <2>3, <2>4, SavesGoOn DEF WriteMoves
<1> QED BY <1>1 DEF ChecksHold

LEMMA AnswersStillKnow ==
  ASSUME WritersAlone, Base, Stay, Knows, [Next]_vars
  PROVE  AnswersKnow'
<1>1. ASSUME NEW p \in Paths, disk[p] # None
      PROVE  Known(disk, clock, disk[p].mtime, {disk[p].text})
  <2>1. disk[p].mtime \in Nat
    BY <1>1 DEF Base, TypeOK, Files
  <2> QED BY <1>1, <2>1 DEF Known, Knows, TimesDiffer
<1>2. ASSUME NEW p \in Paths, saving'[p] # None
      PROVE  /\ saving'[p].at = "written" => Known(disk', clock', saving'[p].mtime, {saving'[p].text})
             /\ saving'[p].at = "stale" /\ saving'[p].mtime # None =>
                  Known(disk', clock', saving'[p].mtime, {saving'[p].found} \ {None})
  <2>1. saving[p] # None =>
          /\ saving[p].at = "written" => Known(disk', clock', saving[p].mtime, {saving[p].text})
          /\ saving[p].at = "stale" /\ saving[p].mtime # None =>
               Known(disk', clock', saving[p].mtime, {saving[p].found} \ {None})
    BY KnownStays DEF Knows, AnswersKnow
  <2>2. CASE saving[p] # None /\ Same(saving[p], saving'[p])
    BY <2>1, <2>2 DEF Same
  <2>3. CASE WriteMoves(p) /\ saving[p] # None
    <3>1. CASE WriteStamped(p)
      <4>1. /\ Goes(p, "written", mtime_at(p), saving[p].found) /\ saving[p].at = "replaced"
        BY <3>1, WritesGoOn DEF WriteStamped, Writing
      <4>2. disk[p] # None /\ disk[p].text = saving[p].text
        BY <2>3, <4>1 DEF Knows, ChecksHold
      <4>3. Known(disk', clock', disk[p].mtime, {disk[p].text})
        BY <1>1, <4>2, KnownStays
      <4>4. /\ saving'[p].at = "written" /\ saving'[p].mtime = disk[p].mtime /\ saving'[p].text = disk[p].text
        BY <4>1, <4>2 DEF Goes, mtime_at
      <4> QED BY <4>3, <4>4
    <3>2. CASE WriteStale(p)
      <4>1. Goes(p, "stale", mtime_at(p), IF exists(p) THEN disk[p].text ELSE None)
        BY <3>2, WritesGoOn
      <4>2. CASE disk[p] # None
        <5>1. Known(disk', clock', disk[p].mtime, {disk[p].text})
          BY <1>1, <4>2, KnownStays
        <5>2. saving'[p].at = "stale" /\ saving'[p].mtime = disk[p].mtime /\ saving'[p].found = disk[p].text
          BY <4>1, <4>2 DEF Goes, mtime_at, exists
        <5>3. disk[p].text \in Nat
          BY <4>2 DEF Base, TypeOK, Files
        <5>4. disk[p].text # None
          BY <5>3, NoneIsNothing
        <5>5. {saving'[p].found} \ {None} = {disk[p].text}
          BY <5>2, <5>4
        <5> QED BY <5>1, <5>2, <5>5
      <4>3. CASE disk[p] = None
        BY <4>1, <4>3 DEF Goes, mtime_at
      <4> QED BY <4>2, <4>3
    <3>3. CASE WriteChecked(p) \/ WriteReplaced(p) \/ WriteFailed(p)
      BY <3>3, WritesGoOn DEF Goes
    <3> QED BY <2>3, <3>1, <3>2, <3>3 DEF WriteMoves
  <2>4. CASE saving'[p].at = "sent"
    BY <2>4
  <2> QED BY <1>2, <2>2, <2>3, <2>4, SavesGoOn
<1> QED BY <1>2 DEF AnswersKnow

\* what the viewer shows after a step that it does not read or refuse in
Rests == pane'.at \in {"empty", "asked", "editing", "failed"}

LEMMA PaneMoves ==
  ASSUME Base, [Next]_vars
  PROVE  \/ pane' = pane /\ active' = active /\ ~ReadStep /\ (RenameHeard /\ pane.at # "empty" => active # moving.from)
         \/ Rests \/ ReadTime \/ ReadBytes
         \/ \E p \in Paths : saving[p] # None /\ saving[p].at = "stale"
                             /\ pane' = [at |-> "conflict", mtime |-> saving[p].mtime, text |-> saving[p].found]
<1>1. pane' = Mounted(active', docs') => Rests
  BY DEF Mounted, Pane, Rests
<1>2. CASE ReadStep
  BY <1>2 DEF ReadStep, ReadAnswered, Pane, Rests
<1>3. CASE RenameHeard /\ ~ReadStep
  <2>1. CASE UNCHANGED <<tabs, docs, active, pane, saving>>
    <3>1. CASE tabs[moving.from] = None
      <4>1. active # moving.from \/ active = None
        BY <3>1 DEF Base, Shape, FitPane
      <4> QED BY <1>3, <2>1, <4>1 DEF Base, Shape, FitPane
    <3>2. CASE tabs[moving.from] # None
      <4>1. moving.from \in Paths /\ moving.to \in Paths /\ moving.from # moving.to
        BY <1>3, RekeyFits DEF Renames
      <4>2. tabs' = [tabs EXCEPT ![moving.from] = None,
                                 ![moving.to] = [tabs[moving.from] EXCEPT !.missing = FALSE, !.asks = "nothing"]]
        BY <1>3, <3>2 DEF RenameHeard
      <4>3. tabs'[moving.from] = None
        BY <4>1, <4>2 DEF Base, TypeOK
      <4> QED BY <2>1, <3>2, <4>3
    <3> QED BY <3>1, <3>2
  <2>2. CASE Rekeyed(moving.from, moving.to)
    BY <1>1, <1>3, <2>2 DEF Rekeyed
  <2> QED BY <1>3, <2>1, <2>2, RekeyFits
<1>4. CASE pane' = pane /\ active' = active /\ ~ReadStep /\ ~RenameHeard
  BY <1>4
<1>5. CASE ViewStep /\ ~ReadStep /\ ~RenameHeard
  BY <1>1, <1>4, <1>5 DEF ViewStep, View
<1>6. CASE (FileStep \/ Type \/ Undo \/ Save \/ Overwrite \/ UNCHANGED vars
            \/ \E p \in Paths : SaveAndClose(p) \/ WriteMoves(p)) /\ ~ReadStep /\ ~RenameHeard
  BY <1>4, <1>6, FileStepFits, EditFits, SaveFits, OverwriteFits, SaveAndCloseFits, WriteFits DEF vars
<1>7. ASSUME NEW p \in Paths, Written(p), ~ReadStep, ~RenameHeard
      PROVE  (pane' = pane /\ active' = active) \/ Rests
  <2>1. pane' = Pane("editing") => Rests
    BY DEF Pane, Rests
  <2> QED BY <1>1, <1>7, <2>1, WrittenFits DEF WrittenCloses, WrittenStores, View
<1>8. ASSUME NEW p \in Paths, WriteRefused(p)
      PROVE  \/ pane' = pane /\ active' = active
             \/ Rests
             \/ saving[p] # None /\ saving[p].at = "stale"
                /\ pane' = [at |-> "conflict", mtime |-> saving[p].mtime, text |-> saving[p].found]
  BY <1>8, RefusedFits, NoneIsNothing DEF Rests
<1>9. CASE (\E p \in Paths : Written(p) \/ WriteRefused(p)) /\ ~ReadStep /\ ~RenameHeard
  BY <1>4, <1>7, <1>8, <1>9
<1> QED BY <1>2, <1>3, <1>5, <1>6, <1>9, StepKinds

LEMMA PaneStillKnows ==
  ASSUME WritersAlone, Base, Stay, Knows, [Next]_vars
  PROVE  PaneKnows'
<1>1. /\ pane.at = "read" => Known(disk', clock', pane.mtime, {pane.text})
      /\ pane.at = "conflict" /\ pane.mtime # None => Known(disk', clock', pane.mtime, {pane.text} \ {None})
  BY KnownStays DEF Knows, PaneKnows
<1>2. pane' = pane => PaneKnows'
  BY <1>1 DEF PaneKnows
<1>3. Rests => PaneKnows'
  BY DEF Rests, PaneKnows
<1>4. CASE ReadTime
  <2>1. pane'.at \in {"timed", "failed"}
    BY <1>4 DEF ReadTime, Pane, Base, TypeOK, Panes
  <2> QED BY <2>1 DEF PaneKnows
<1>5. CASE ReadBytes
  <2>1. CASE disk[active] = None
    BY <1>5, <2>1 DEF ReadBytes, exists, Pane, PaneKnows
  <2>2. CASE disk[active] # None
    <3>1. /\ pane.at = "timed" /\ pane'.at = "read" /\ pane'.mtime = pane.mtime /\ pane'.text = disk[active].text
          /\ UNCHANGED <<disk, clock>>
      BY <1>5, <2>2 DEF ReadBytes, exists, Base, TypeOK, Panes, files, bounds
    <3>2. /\ pane.mtime \in Nat /\ pane.mtime <= clock
          /\ \A q \in Paths \ {active} : ~(disk[q] # None /\ disk[q].mtime = pane.mtime)
      BY <2>2, <3>1 DEF Knows, TimeIsIts, Stay
    <3>3. Known(disk, clock, pane.mtime, {disk[active].text})
      BY <3>2 DEF Known
    <3> QED BY <3>1, <3>3 DEF PaneKnows
  <2> QED BY <2>1, <2>2
<1>6. ASSUME NEW p \in Paths, saving[p] # None, saving[p].at = "stale",
             pane' = [at |-> "conflict", mtime |-> saving[p].mtime, text |-> saving[p].found]
      PROVE  PaneKnows'
  <2>1. saving[p].mtime # None => Known(disk', clock', saving[p].mtime, {saving[p].found} \ {None})
    BY <1>6, KnownStays DEF Knows, AnswersKnow
  <2> QED BY <1>6, <2>1 DEF PaneKnows
<1> QED BY <1>2, <1>3, <1>4, <1>5, <1>6, PaneMoves

LEMMA TimeStaysIts ==
  ASSUME WritersAlone, Base, Stay, Knows, [Next]_vars
  PROVE  TimeIsIts'
<1>1. disk \in [Paths -> Files \cup {None}] /\ clock \in Nat /\ (clock' = clock \/ clock' = clock + 1)
  BY VersionsMove DEF Base, TypeOK
<1>2. CASE pane'.at # "timed"
  BY <1>2 DEF TimeIsIts
<1>3. CASE ReadTime /\ pane'.at = "timed"
  <2>1. /\ active \in Paths /\ UNCHANGED <<disk, clock, active>>
    BY <1>3, ReadFits DEF ReadStep
  <2>2. disk[active] # None /\ pane'.mtime = disk[active].mtime
    BY <1>3 DEF ReadTime, exists, mtime_at, Pane, Base, TypeOK, Panes
  <2>3. disk[active].mtime \in Nat
    BY <1>1, <2>1, <2>2 DEF Files
  <2>4. /\ pane'.mtime <= clock'
        /\ \A q \in Paths \ {active'} : ~(disk'[q] # None /\ disk'[q].mtime = pane'.mtime)
    BY <2>1, <2>2 DEF Knows, TimesDiffer
  <2> QED BY <2>2, <2>3, <2>4 DEF TimeIsIts
<1>4. CASE pane'.at = "timed" /\ ~ReadTime
  <2>1. pane' = pane /\ active' = active /\ (RenameHeard => active # moving.from)
    <3>1. ReadBytes => pane'.at # "timed"
      BY DEF ReadBytes, Pane, Base, TypeOK, Panes
    <3> QED BY <1>4, <3>1, PaneMoves DEF Rests
  <2>2. /\ pane.at = "timed" /\ pane.mtime \in Nat /\ pane.mtime <= clock
        /\ \A q \in Paths \ {active} : disk[q] # None /\ disk[q].mtime = pane.mtime =>
             moving # None /\ moving.done /\ moving.from = active
    BY <1>4, <2>1 DEF Knows, TimeIsIts
  <2>3. pane.mtime <= clock' /\ pane.mtime # clock + 1
    BY <1>1, <2>2
  <2>4. ASSUME \A q \in Paths \ {active} : disk'[q] # None /\ disk'[q].mtime = pane.mtime =>
                 moving' # None /\ moving'.done /\ moving'.from = active
        PROVE  TimeIsIts'
    BY <2>1, <2>2, <2>3, <2>4 DEF TimeIsIts
  <2>5. ASSUME \A q \in Paths : disk'[q] # None /\ disk'[q].mtime = pane.mtime => disk[q] # None /\ disk[q].mtime = pane.mtime,
               moving' = moving
        PROVE  TimeIsIts'
    BY <2>2, <2>4, <2>5
  <2>6. CASE FileStep
    <3>1. ASSUME NEW p \in Paths, disk' = [disk EXCEPT ![p] = [text |-> clock + 1, mtime |-> clock + 1]], moving' = moving
          PROVE  TimeIsIts'
      BY <1>1, <2>3, <2>5, <3>1
    <3>2. ASSUME NEW p \in Paths, disk' = [disk EXCEPT ![p] = None], moving' = moving
          PROVE  TimeIsIts'
      BY <1>1, <2>5, <3>2
    <3>3. ASSUME moving \in Renames, ~moving.done, moving' = [moving EXCEPT !.done = TRUE], disk[moving.from] # None,
                 disk' = [disk EXCEPT ![moving.to] = disk[moving.from], ![moving.from] = None]
          PROVE  TimeIsIts'
      <4>1. moving.from \in Paths /\ moving.to \in Paths /\ moving.from # moving.to /\ moving'.done
            /\ moving'.from = moving.from /\ moving' \in Renames
        BY <3>3 DEF Renames
      <4>2. moving' # None
        BY <4>1, NoneIsNothing
      <4>3. ASSUME NEW q \in Paths \ {active}, disk'[q] # None, disk'[q].mtime = pane.mtime
            PROVE  moving.from = active
        <5>1. \A r \in Paths \ {active} : ~(disk[r] # None /\ disk[r].mtime = pane.mtime)
          BY <2>2, <3>3
        <5>2. CASE q = moving.to
          BY <1>1, <3>3, <4>1, <4>3, <5>1, <5>2
        <5>3. CASE q # moving.to
          BY <1>1, <3>3, <4>1, <4>3, <5>1, <5>3
        <5> QED BY <5>2, <5>3
      <4> QED BY <2>4, <4>1, <4>2, <4>3
    <3>4. ASSUME moving = None \/ ~moving.done, disk' = disk
          PROVE  TimeIsIts'
      BY <2>2, <2>4, <3>4
    <3>5. UNCHANGED <<disk, moving>> => TimeIsIts'
      BY <2>5
    <3> QED BY <2>6, <3>1, <3>2, <3>3, <3>4, <3>5, FileStepWrites
  <2>7. ASSUME NEW p \in Paths, WriteMoves(p)
        PROVE  TimeIsIts'
    <3>1. moving' = moving
      BY <2>7, WriteFits
    <3>2. CASE WriteReplaced(p)
      <4>1. disk' = [disk EXCEPT ![p] = [text |-> saving[p].text, mtime |-> clock + 1]]
        BY <3>2 DEF WriteReplaced
      <4> QED BY <1>1, <2>3, <2>5, <3>1, <4>1
    <3>3. CASE ~WriteReplaced(p)
      <4>1. disk' = disk
        BY <2>7, <3>3 DEF WriteMoves, WriteChecked, WriteStale, WriteFailed, WriteStamped, files
      <4> QED BY <2>5, <3>1, <4>1
    <3> QED BY <3>2, <3>3
  <2>8. CASE RenameHeard
    <3>1. active # moving.from /\ disk' = disk
      BY <2>1, <2>8, RekeyFits
    <3> QED BY <2>2, <2>4, <3>1
  <2>9. CASE ViewStep \/ ReadStep \/ Type \/ Undo \/ Save \/ Overwrite \/ UNCHANGED vars
             \/ \E p \in Paths : SaveAndClose(p) \/ Written(p) \/ WriteRefused(p)
    <3>1. UNCHANGED <<disk, moving>>
      BY <2>9, ReadFits, EditFits, SaveFits, OverwriteFits, SaveAndCloseFits, WrittenFits, RefusedFits DEF ViewStep, vars
    <3> QED BY <2>5, <3>1
  <2> QED BY <2>6, <2>7, <2>8, <2>9, StepKinds
<1> QED BY <1>2, <1>3, <1>4

LEMMA KnowsInit ==
  ASSUME Init
  PROVE  Knows
<1>1. PICK number \in [Paths -> 1..Cardinality(Paths)] :
        /\ \A p, q \in Paths : number[p] = number[q] => p = q
        /\ disk = [p \in Paths |-> [text |-> number[p], mtime |-> number[p]]]
  BY DEF Init
<1>2. Cardinality(Paths) \in Nat
  BY BoundsAreNat, FS_CardinalityType
<1>3. ASSUME NEW p \in Paths
      PROVE  number[p] <= Cardinality(Paths) /\ disk[p].mtime = number[p]
  BY <1>1, <1>2, <1>3
<1>4. TimesDiffer
  BY <1>1, <1>3 DEF TimesDiffer, Init
<1>5. DocsKnow /\ SavesKnow /\ ChecksHold /\ AnswersKnow
  BY DEF Init, DocsKnow, SavesKnow, ChecksHold, AnswersKnow
<1>6. PaneKnows /\ TimeIsIts
  BY DEF Init, PaneKnows, TimeIsIts, Pane
<1> QED BY <1>4, <1>5, <1>6 DEF Knows

(* A save replaces only a version its buffer was read from or written as, or one   *)
(* the user agreed to replace: write_at compares the time read before the bytes,   *)
(* and no two versions have one time. Excluded are the races in which the file     *)
(* changes between the check and the replacement, a rename carries a save's file   *)
(* away, and the overwrite of a deleted file, which has no time to compare.        *)
THEOREM KnowsWhatItReplaces ==
  ASSUME Races \cap {"rename during a save", "writer during a rename", "writer during a save",
                     "overwrite of a deleted file"} = {}
  PROVE  Spec => ReplacesWhatItKnows
<1>1. RenamesAlone /\ WritersAlone
  BY DEF RenamesAlone, WritersAlone
<1>2. Base /\ Stay /\ Knows /\ [Next]_vars => (Base /\ Stay /\ Knows)'
  <2>1. Base /\ Stay /\ [Next]_vars => (Base /\ Stay)'
    BY <1>1, BaseKept, StayKept
  <2>2. Base /\ Stay /\ Knows /\ [Next]_vars => Knows'
    BY <1>1, TimesStayDifferent, DocsStillKnow, SavesStillKnow, ChecksStillHold, AnswersStillKnow,
       PaneStillKnows, TimeStaysIts DEF Knows
  <2> QED BY <2>1, <2>2
<1>3. Init => Base /\ Stay /\ Knows
  BY BaseInit, StoredInit, KnowsInit
<1>4. Knows => \A p \in Paths : WriteReplaced(p) /\ exists(p) => disk[p].text \in saving[p].knows
  <2>1. ASSUME Knows, NEW p \in Paths, WriteReplaced(p), exists(p)
        PROVE  disk[p].text \in saving[p].knows
    <3>1. saving[p] # None /\ saving[p].at = "checked" /\ disk[p] # None
      BY <2>1 DEF WriteReplaced, Writing, exists
    <3>2. disk[p].mtime = saving[p].base
      BY <2>1, <3>1 DEF Knows, ChecksHold
    <3>3. Known(disk, clock, saving[p].base, saving[p].knows)
      BY <2>1, <3>1 DEF Knows, SavesKnow
    <3> QED BY <3>1, <3>2, <3>3 DEF Known
  <2> QED BY <2>1
<1>5. Spec => [](Base /\ Stay /\ Knows)
  BY <1>2, <1>3, PTL DEF Spec
<1>6. Knows /\ [Next]_vars =>
        [\A p \in Paths : WriteReplaced(p) /\ exists(p) => disk[p].text \in saving[p].knows]_vars
  BY <1>4
<1> QED BY <1>5, <1>6, PTL DEF Spec, ReplacesWhatItKnows

=============================================================================
