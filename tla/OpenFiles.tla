----------------------------- MODULE OpenFiles ------------------------------
(* The Viewer's open files (apps/viewer/ui/src/tabs/useOpenFiles.ts with        *)
(* viewer/TextViewer.tsx) over the calls of the Files backend that answer them   *)
(* (apps/files.rs): tabs, the buffers behind them, saves in flight, the stat     *)
(* calls that notice changes, a rename and a delete that arrive later than they  *)
(* happened, and a second writer of the same files. Every call runs on a worker, *)
(* so its steps on the disk interleave with the user and with the others.        *)
EXTENDS Naturals, FiniteSets

CONSTANTS
    Paths,          \* files of one folder
    None,           \* no tab, buffer, file, time or call
    Races,          \* the races of AllRaces that may happen
    MaxClock,       \* bound: texts typed and versions written outside
    MaxStats,       \* bound: stat calls in flight
    Sessions        \* bound: the kinds of gestures of one behaviour, and how many

VARIABLES
    disk,               \* path -> [text, mtime], or None
    tabs, active,       \* path -> the tab's facts, or None; the path showing
    docs,               \* path -> the buffer, or None (DocumentStore.byPath)
    pane,               \* what the one mounted viewer is doing
    saving,             \* path -> the save in flight, or None
    stats,              \* stat calls in flight
    moving, deleting,   \* a files/rename not yet heard of here; a delete, from its question on
    clock, gestures,    \* the versions made so far; the gestures left, and their kinds
    held                \* path -> the texts the file has held

vars == <<disk, tabs, active, docs, pane, saving, stats, moving, deleting, clock, gestures, held>>
bounds == <<clock, gestures>>
AllKinds == {"open", "look", "focus", "peek", "undo", "save", "close", "answer", "rename", "delete", "lose"}
files == <<disk, held>>

\* what two actors may do at once: each is a way one of the properties fails
AllRaces == {"typing while a close saves", "closing over an older save", "rename during a save",
             "rename onto a tab", "writer during a save", "writer during a rename",
             "overwrite of a deleted file", "typing under a delete", "delete in another Viewer",
             "rename onto a delete"}

ASSUME RacesKnown == Races \subseteq AllRaces
ASSUME SessionsKnown == Sessions \subseteq [kinds : SUBSET AllKinds, left : Nat]
ASSUME BoundsAreNat ==
    {MaxClock, MaxStats} \subseteq Nat /\ IsFiniteSet(Paths) /\ Cardinality(Paths) <= MaxClock

\* what is on disk; a tab; a buffer; the viewer; a save, a stat call, a rename and a delete in flight
Files == [text : Nat, mtime : Nat]
Times == Nat \cup {None}
Tabs == [mtime : Times, missing : BOOLEAN, preview : BOOLEAN,
         asks : {"nothing", "closing", "failed", "changed"}, observed : Times]
Documents == [text : Nat, saved : Nat, base : Times, knows : SUBSET Nat]
Panes == [at : {"empty", "asked", "timed", "read", "editing", "conflict", "failed"}, mtime : Times, text : Times]
Saves == [doc : Paths \cup {None}, text : Nat, base : Times, knows : SUBSET Nat,
          at : {"sent", "checked", "replaced", "written", "stale", "failed"}, mtime : Times, found : Times,
          callers : SUBSET {"viewer", "overwrite", "close"}]
Calls == [kind : {"restat", "poll"}, path : Paths, known : Times, missing : BOOLEAN, told : BOOLEAN, mtime : Times]
Renames == {m \in [from : Paths, to : Paths, done : BOOLEAN] : m.from # m.to}
Deletes == [path : Paths, at : {"asked", "sent", "done"}, named : Times]

ASSUME NoneIsNothing ==
    None \notin Paths \cup Nat \cup Files \cup Tabs \cup Documents \cup Saves \cup Renames \cup Deletes

-----------------------------------------------------------------------------
(* What the disk answers.                                                     *)

mtime_at(p) == IF disk[p] = None THEN None ELSE disk[p].mtime
exists(p) == disk[p] # None

-----------------------------------------------------------------------------
(* Tabs, buffers and the mounted viewer.                                      *)

Tab(preview) == [mtime |-> None, missing |-> FALSE, preview |-> preview, asks |-> "nothing", observed |-> None]

\* knows: the texts of this file the user has read, written or agreed to replace
Document(text, mtime) == [text |-> text, saved |-> text, base |-> mtime, knows |-> {text}]

isDirty(p) == docs[p] # None /\ docs[p].text # docs[p].saved
isSpare(p) == /\ tabs[p] # None
              /\ tabs[p].preview /\ tabs[p].asks = "nothing" /\ ~tabs[p].missing
              /\ ~isDirty(p)

Call(kind, p, tab) == [kind |-> kind, path |-> p, known |-> tab.mtime, missing |-> tab.missing,
                       told |-> FALSE, mtime |-> None]
restat(p) == Call("restat", p, Tab(FALSE))
Asks(calls) == stats' = stats \cup calls /\ Cardinality(stats') <= MaxStats

Pane(at) == [at |-> at, mtime |-> None, text |-> None]
Mounted(p, ds) == Pane(IF p = None THEN "empty" ELSE IF ds[p] = None THEN "asked" ELSE "editing")
Editing == pane.at \in {"editing", "conflict"}

\* the save goes on, and what it would have told the viewer is told to nobody
Unmounted(svs) == [p \in Paths |->
    IF svs[p] = None THEN None ELSE [svs[p] EXCEPT !.callers = @ \ {"viewer", "overwrite"}]]
\* the buffer is gone, or is `to`'s now: a save in flight holds the buffer, not its path
Follows(svs, p, to) == [q \in Paths |->
    IF svs[q] # None /\ svs[q].doc = p THEN [svs[q] EXCEPT !.doc = to] ELSE svs[q]]

\* the viewer is keyed on path and nonce: it remounts when either changes
Shows(p, again, svs) ==
    /\ active' = p
    /\ IF p = active /\ ~again
         THEN pane' = pane /\ saving' = svs
         ELSE pane' = Mounted(p, docs') /\ saving' = Unmounted(svs)

promote(ts, ps) == [p \in Paths |-> IF p \in ps /\ ts[p] # None THEN [ts[p] EXCEPT !.preview = FALSE] ELSE ts[p]]
Noticed(ts, p, asks) == IF ts[p] = None THEN ts ELSE [ts EXCEPT ![p].asks = asks]

\* svs: the saves in flight as the rest of the step leaves them
drop(p, svs) ==
    IF tabs[p] = None
      THEN UNCHANGED <<tabs, docs, active, pane>> /\ saving' = svs
      ELSE /\ docs' = [docs EXCEPT ![p] = None]
           /\ tabs' = [tabs EXCEPT ![p] = None]
           /\ \E next \in Paths \cup {None} :
                /\ IF active # p THEN next = active
                   ELSE IF \A q \in Paths : tabs'[q] = None THEN next = None
                   ELSE next # None /\ tabs'[next] # None
                /\ Shows(next, FALSE, Follows(svs, p, None))

reload(p) ==
    IF tabs[p] = None
      THEN UNCHANGED <<tabs, docs, active, pane, saving>>
      ELSE /\ docs' = [docs EXCEPT ![p] = None]
           /\ tabs' = [tabs EXCEPT ![p].asks = "nothing"]
           /\ Shows(active, p = active, Follows(saving, p, None))

\* a running save of this path is joined, whatever has been typed since it began
saveDocument(p, caller, ds) ==
    saving' = [saving EXCEPT ![p] =
        IF saving[p] # None THEN [saving[p] EXCEPT !.callers = @ \cup {caller}]
        ELSE [doc |-> p, text |-> ds[p].text, base |-> ds[p].base, knows |-> ds[p].knows,
              at |-> "sent", mtime |-> None, found |-> None, callers |-> {caller}]]

Gesture(kind) ==
    /\ kind \in gestures.kinds /\ gestures.left > 0
    /\ gestures' = [gestures EXCEPT !.left = @ - 1]
idle == <<moving, deleting>>

-----------------------------------------------------------------------------
(* The user: opening and showing files.                                       *)

Init ==
    /\ \E number \in [Paths -> 1..Cardinality(Paths)] :
          /\ \A p, q \in Paths : number[p] = number[q] => p = q
          /\ disk = [p \in Paths |-> [text |-> number[p], mtime |-> number[p]]]
          /\ held = [p \in Paths |-> {number[p]}]
    /\ tabs = [p \in Paths |-> None] /\ active = None
    /\ docs = [p \in Paths |-> None]
    /\ pane = Pane("empty")
    /\ saving = [p \in Paths |-> None]
    /\ stats = {} /\ moving = None /\ deleting = None
    /\ clock = Cardinality(Paths)
    /\ gestures \in Sessions

Peek(preview) == preview => "peek" \in gestures.kinds

OpenAgain(p, preview) ==
    /\ Gesture("open") /\ Peek(preview) /\ tabs[p] # None
    /\ tabs' = IF preview THEN tabs ELSE promote(tabs, {p})
    /\ docs' = docs
    /\ Shows(p, FALSE, saving)
    /\ Asks({restat(p)})
    /\ UNCHANGED <<files, idle, clock>>

NotTaken(p) == moving # None /\ moving.to = p => "rename onto a tab" \in Races

OpenBeside(p, preview) ==
    /\ Gesture("open") /\ Peek(preview) /\ tabs[p] = None /\ NotTaken(p)
    /\ ~preview \/ \A q \in Paths : ~isSpare(q)
    /\ tabs' = [promote(tabs, Paths) EXCEPT ![p] = Tab(preview)]
    /\ docs' = docs
    /\ Shows(p, FALSE, saving)
    /\ Asks({restat(p)})
    /\ UNCHANGED <<files, idle, clock>>

OpenInSlot(p) ==
    /\ Gesture("open") /\ Peek(TRUE) /\ tabs[p] = None /\ NotTaken(p)
    /\ \E slot \in Paths :
         /\ isSpare(slot)
         /\ docs' = [docs EXCEPT ![slot] = None]
         /\ tabs' = [tabs EXCEPT ![slot] = None, ![p] = Tab(TRUE)]
         /\ Shows(p, FALSE, Follows(saving, slot, None))
    /\ Asks({restat(p)})
    /\ UNCHANGED <<files, idle, clock>>

poll(ts) == {Call("poll", p, ts[p]) : p \in {q \in Paths : ts[q] # None /\ ts[q].asks = "nothing"}}

activate(p, promotes) ==
    /\ Gesture("look") /\ Peek(promotes) /\ tabs[p] # None
    /\ tabs' = IF promotes THEN promote(tabs, {p}) ELSE tabs
    /\ docs' = docs
    /\ Shows(p, FALSE, saving)
    /\ Asks(poll(tabs'))
    /\ UNCHANGED <<files, idle, clock>>

Focus ==
    /\ Gesture("focus") /\ Asks(poll(tabs))
    /\ UNCHANGED <<files, tabs, active, docs, pane, saving, idle, clock>>

\* files/read of the mounted viewer: the time before the bytes
ReadTime ==
    /\ pane.at = "asked"
    /\ pane' = IF exists(active) THEN [pane EXCEPT !.at = "timed", !.mtime = mtime_at(active)] ELSE Pane("failed")
    /\ UNCHANGED <<files, tabs, active, docs, saving, stats, idle, bounds>>

ReadBytes ==
    /\ pane.at = "timed"
    /\ pane' = IF exists(active) THEN [pane EXCEPT !.at = "read", !.text = disk[active].text] ELSE Pane("failed")
    /\ UNCHANGED <<files, tabs, active, docs, saving, stats, idle, bounds>>

ReadAnswered ==
    /\ pane.at = "read"
    /\ docs' = [docs EXCEPT ![active] = Document(pane.text, pane.mtime)]
    /\ pane' = Pane("editing")
    /\ UNCHANGED <<files, tabs, active, saving, stats, idle, bounds>>

-----------------------------------------------------------------------------
(* The user: editing, saving and closing.                                     *)

\* a delete of p is confirmed and its answer not heard
Sent(p) == deleting # None /\ deleting.path = p /\ deleting.at # "asked"

Type ==
    /\ Editing /\ clock < MaxClock
    /\ \/ "typing while a close saves" \in Races
       \/ \A p \in Paths : saving[p] # None /\ active \in {p, saving[p].doc} => "close" \notin saving[p].callers
    /\ Sent(active) => "typing under a delete" \in Races
    /\ docs' = [docs EXCEPT ![active].text = clock + 1]
    /\ clock' = clock + 1
    /\ tabs' = promote(tabs, {active})
    /\ UNCHANGED <<files, active, pane, saving, stats, idle, gestures>>

Undo ==
    /\ Gesture("undo") /\ Editing /\ isDirty(active)
    /\ docs' = [docs EXCEPT ![active].text = docs[active].saved]
    /\ UNCHANGED <<files, tabs, active, pane, saving, stats, idle, clock>>

CanSave(p) == moving # None /\ moving.from = p => "rename during a save" \in Races

Save ==
    /\ Gesture("save") /\ Editing /\ CanSave(active)
    /\ saveDocument(active, "viewer", docs)
    /\ UNCHANGED <<files, tabs, active, docs, pane, stats, idle, clock>>

\* the banner of a refused save: the time found there becomes the base
Overwrite ==
    /\ Gesture("save") /\ pane.at = "conflict" /\ CanSave(active)
    /\ pane.mtime # None \/ "overwrite of a deleted file" \in Races
    /\ docs' = [docs EXCEPT ![active].base = pane.mtime, ![active].knows = @ \cup ({pane.text} \ {None})]
    /\ saveDocument(active, "overwrite", docs')
    /\ UNCHANGED <<files, tabs, active, pane, stats, idle, clock>>

close(p) ==
    /\ Gesture("close") /\ tabs[p] # None
    /\ IF isDirty(p)
         THEN tabs' = Noticed(tabs, p, "closing") /\ UNCHANGED <<active, docs, pane, saving>>
         ELSE drop(p, saving)
    /\ UNCHANGED <<files, stats, idle, clock>>

Asking(p, what) == tabs[p] # None /\ tabs[p].asks \in what

SaveAndClose(p) ==
    /\ Gesture("close") /\ Asking(p, {"closing"}) /\ CanSave(p)
    /\ saving[p] # None => saving[p].text = docs[p].text \/ "closing over an older save" \in Races
    /\ tabs' = Noticed(tabs, p, "nothing")
    /\ saveDocument(p, "close", docs)
    /\ UNCHANGED <<files, active, docs, pane, stats, idle, clock>>

DiscardAndClose(p) ==
    /\ Gesture("close") /\ Asking(p, {"closing", "failed"})
    /\ drop(p, saving)
    /\ UNCHANGED <<files, stats, idle, clock>>

KeepEditing(p) ==
    /\ Gesture("close") /\ Asking(p, {"closing", "failed"})
    /\ tabs' = Noticed(tabs, p, "nothing")
    /\ UNCHANGED <<files, active, docs, pane, saving, stats, idle, clock>>

KeepMine_Rebased(p) ==
    /\ Gesture("answer") /\ Asking(p, {"changed"})
    /\ tabs' = [tabs EXCEPT ![p].asks = "nothing", ![p].mtime = tabs[p].observed]
    /\ docs' = IF docs[p] = None THEN docs ELSE [docs EXCEPT ![p].base = tabs[p].observed]
    /\ UNCHANGED <<files, active, pane, saving, stats, idle, clock>>
KeepMine(p) ==
    /\ Gesture("answer") /\ Asking(p, {"changed"})
    /\ tabs' = [tabs EXCEPT ![p].asks = "nothing", ![p].mtime = tabs[p].observed]
    /\ UNCHANGED <<files, active, docs, pane, saving, stats, idle, clock>>

ReloadFromDisk(p) ==
    /\ Gesture("answer")
    /\ Asking(p, {"changed"}) \/ (p = active /\ pane.at = "conflict")
    /\ reload(p) /\ Asks({restat(p)})
    /\ UNCHANGED <<files, idle, clock>>

-----------------------------------------------------------------------------
(* files/stat, and what its answer does to a tab.                             *)

stat_at(call) ==
    /\ call \in stats /\ ~call.told
    /\ stats' = (stats \ {call}) \cup {[call EXCEPT !.told = TRUE, !.mtime = mtime_at(call.path)]}
    /\ UNCHANGED <<files, tabs, active, docs, pane, saving, idle, bounds>>

Answered(call, kind) == call \in stats /\ call.told /\ call.kind = kind
Gone(call) == call.mtime = None

Restated(call) ==
    /\ Answered(call, "restat")
    /\ stats' = stats \ {call}
    /\ tabs' = IF tabs[call.path] = None THEN tabs
               ELSE [tabs EXCEPT ![call.path].mtime = call.mtime, ![call.path].missing = Gone(call),
                                 ![call.path].preview = @ /\ ~Gone(call)]
    /\ UNCHANGED <<files, active, docs, pane, saving, idle, bounds>>

Moved(call) == ~Gone(call) /\ call.known # None /\ call.mtime # call.known
Found(call) ==
    IF tabs[call.path] # None /\ call.missing THEN [tabs EXCEPT ![call.path].missing = FALSE] ELSE tabs

PolledGone(call) ==
    /\ Answered(call, "poll") /\ Gone(call)
    /\ stats' = stats \ {call}
    /\ tabs' = IF tabs[call.path] = None THEN tabs
               ELSE [tabs EXCEPT ![call.path].missing = TRUE, ![call.path].preview = FALSE]
    /\ UNCHANGED <<files, active, docs, pane, saving, idle, bounds>>

PolledSame(call) ==
    /\ Answered(call, "poll") /\ ~Gone(call) /\ ~Moved(call)
    /\ stats' = stats \ {call}
    /\ tabs' = Found(call)
    /\ UNCHANGED <<files, active, docs, pane, saving, idle, bounds>>

MayReload_Unasked(p) == p \in Paths
\* asked of the buffer when the answer comes, not when the call was made
MayReload(p) == ~isDirty(p)

PolledClean(call) ==
    /\ Answered(call, "poll") /\ Moved(call) /\ MayReload(call.path)
    /\ stats' = (stats \ {call}) \cup (IF tabs[call.path] = None THEN {} ELSE {restat(call.path)})
    /\ IF tabs[call.path] = None
         THEN UNCHANGED <<tabs, docs, active, pane, saving>>
         ELSE /\ docs' = [docs EXCEPT ![call.path] = None]
              /\ tabs' = Noticed(Found(call), call.path, "nothing")
              /\ Shows(active, call.path = active, Follows(saving, call.path, None))
    /\ UNCHANGED <<files, idle, bounds>>

PolledDirty(call) ==
    /\ Answered(call, "poll") /\ Moved(call) /\ ~MayReload(call.path)
    /\ stats' = stats \ {call}
    /\ tabs' = [Noticed(Found(call), call.path, "changed") EXCEPT ![call.path].observed = call.mtime]
    /\ UNCHANGED <<files, active, docs, pane, saving, idle, bounds>>

-----------------------------------------------------------------------------
(* files/write and what its answer does to the buffer and the tab.            *)

Writing(p, at) == saving[p] # None /\ saving[p].at = at
Write(p, at) == saving' = [saving EXCEPT ![p].at = at]

Unchanged(p) == saving[p].base = None \/ saving[p].base = mtime_at(p)

WriteChecked(p) ==
    /\ Writing(p, "sent") /\ Unchanged(p)
    /\ Write(p, "checked")
    /\ UNCHANGED <<files, tabs, active, docs, pane, stats, idle, bounds>>

WriteStale(p) ==
    /\ Writing(p, "sent") /\ ~Unchanged(p)
    /\ saving' = [saving EXCEPT ![p].at = "stale", ![p].mtime = mtime_at(p),
                                ![p].found = IF exists(p) THEN disk[p].text ELSE None]
    /\ UNCHANGED <<files, tabs, active, docs, pane, stats, idle, bounds>>

\* the temp file is written and renamed over the path
WriteReplaced(p) ==
    /\ Writing(p, "checked")
    /\ disk' = [disk EXCEPT ![p] = [text |-> saving[p].text, mtime |-> clock + 1]]
    /\ held' = [held EXCEPT ![p] = @ \cup {saving[p].text}]
    /\ clock' = clock + 1
    /\ Write(p, "replaced")
    /\ UNCHANGED <<tabs, active, docs, pane, stats, idle, gestures>>

WriteFailed(p) ==
    /\ Writing(p, "checked")
    /\ Write(p, "failed")
    /\ UNCHANGED <<files, tabs, active, docs, pane, stats, idle, bounds>>

WriteStamped(p) ==
    /\ Writing(p, "replaced")
    /\ saving' = [saving EXCEPT ![p].at = "written", ![p].mtime = mtime_at(p)]
    /\ UNCHANGED <<files, tabs, active, docs, pane, stats, idle, bounds>>

SavedAs_Now(save, doc) == doc.text
\* the version read before the call, not the one the buffer has by now
SavedAs(save, doc) == save.text

Written(p) ==
    LET save == saving[p]
        ended == [saving EXCEPT ![p] = None]
        stored == IF save.doc = None THEN docs
                  ELSE [docs EXCEPT ![save.doc].saved = SavedAs(save, docs[save.doc]),
                                    ![save.doc].base = save.mtime, ![save.doc].knows = @ \cup {save.text}]
    IN  /\ Writing(p, "written")
        /\ IF "close" \in save.callers /\ tabs[p] # None
             THEN drop(p, ended)
             ELSE /\ docs' = stored
                  /\ tabs' = IF tabs[p] = None THEN tabs
                             ELSE [tabs EXCEPT ![p].mtime = save.mtime, ![p].asks = "nothing"]
                  /\ pane' = IF save.callers \cap {"viewer", "overwrite"} # {} /\ pane.at = "conflict"
                               THEN Pane("editing") ELSE pane
                  /\ saving' = ended
                  /\ active' = active
        /\ UNCHANGED <<files, stats, idle, bounds>>

WriteRefused(p) ==
    LET save == saving[p] IN
    /\ Writing(p, "stale") \/ Writing(p, "failed")
    /\ saving' = [saving EXCEPT ![p] = None]
    /\ tabs' = IF "close" \in save.callers THEN Noticed(tabs, p, "failed") ELSE tabs
    /\ pane' = IF "overwrite" \in save.callers THEN Pane("failed")
               ELSE IF "viewer" \in save.callers /\ save.at = "stale"
                 THEN [at |-> "conflict", mtime |-> save.mtime, text |-> save.found]
               ELSE pane
    /\ UNCHANGED <<files, active, docs, stats, idle, bounds>>

-----------------------------------------------------------------------------
(* Renames and deletes of the tree, and writers outside.                      *)

RenameAsked(from, to) ==
    /\ Gesture("rename") /\ moving = None /\ exists(from) /\ from # to
    /\ saving[from] = None \/ "rename during a save" \in Races
    /\ (tabs[to] = None /\ saving[to] = None) \/ "rename onto a tab" \in Races
    /\ deleting # None /\ deleting.path = to => "rename onto a delete" \in Races
    /\ moving' = [from |-> from, to |-> to, done |-> FALSE]
    /\ UNCHANGED <<files, tabs, active, docs, pane, saving, stats, deleting, clock>>

rename_at ==
    /\ moving # None /\ ~moving.done
    /\ IF exists(moving.from) /\ ~exists(moving.to)
         THEN /\ disk' = [disk EXCEPT ![moving.to] = disk[moving.from], ![moving.from] = None]
              /\ held' = [held EXCEPT ![moving.to] = @ \cup held[moving.from]]
              /\ moving' = [moving EXCEPT !.done = TRUE]
         ELSE moving' = None /\ UNCHANGED files
    /\ UNCHANGED <<tabs, active, docs, pane, saving, stats, deleting, bounds>>

\* a buffer parked at the new path is discarded, but only when one moves there
rekey(ds, from, to) == IF ds[from] = None THEN ds ELSE [ds EXCEPT ![to] = ds[from], ![from] = None]

RenameHeard ==
    LET from == moving.from  to == moving.to IN
    /\ moving # None /\ moving.done
    /\ moving' = None
    /\ IF tabs[from] = None
         THEN UNCHANGED <<tabs, active, docs, pane, saving, stats>>
         ELSE /\ docs' = rekey(docs, from, to)
              /\ tabs' = [tabs EXCEPT ![from] = None, ![to] = [tabs[from] EXCEPT !.missing = FALSE, !.asks = "nothing"]]
              /\ stats' = stats \cup {restat(to)}
              /\ Shows(IF active = from THEN to ELSE active, FALSE,
                       IF docs[from] = None THEN saving ELSE Follows(Follows(saving, to, None), from, to))
    /\ UNCHANGED <<files, deleting, bounds>>

\* the file changes under a save between its check and its answer only as a race
Outlasts(p) == Writing(p, "checked") \/ Writing(p, "replaced") => "writer during a save" \in Races

Delete(p, at, named) ==
    /\ Gesture("delete") /\ deleting = None /\ exists(p)
    /\ moving # None /\ moving.to = p => "rename onto a delete" \in Races
    /\ deleting' = [path |-> p, at |-> at, named |-> named]
    /\ UNCHANGED <<files, tabs, active, docs, pane, saving, stats, moving, clock>>

DeleteAsked(p) == Delete(p, "asked", None)

\* with `files.confirmDelete` off nothing is asked unless there is unsaved work; and another
\* Viewer asks of its own buffers alone, before its delete is heard here
DeleteUnasked(p) ==
    /\ ~isDirty(p) \/ "delete in another Viewer" \in Races
    /\ Delete(p, "sent", None)

\* the bar names the unsaved work there is when it is answered
DeleteConfirmed ==
    /\ deleting # None /\ deleting.at = "asked"
    /\ deleting' = [deleting EXCEPT !.at = "sent",
           !.named = IF isDirty(deleting.path) THEN docs[deleting.path].text ELSE None]
    /\ UNCHANGED <<files, tabs, active, docs, pane, saving, stats, moving, bounds>>

DeleteCancelled ==
    /\ deleting # None /\ deleting.at = "asked"
    /\ deleting' = None
    /\ UNCHANGED <<files, tabs, active, docs, pane, saving, stats, moving, bounds>>

delete_at ==
    /\ deleting # None /\ deleting.at = "sent" /\ Outlasts(deleting.path)
    /\ exists(deleting.path)
    /\ disk' = [disk EXCEPT ![deleting.path] = None]
    /\ deleting' = [deleting EXCEPT !.at = "done"]
    /\ UNCHANGED <<held, tabs, active, docs, pane, saving, stats, moving, bounds>>

DeleteFailed ==
    /\ deleting # None /\ deleting.at = "sent"
    /\ deleting' = None
    /\ UNCHANGED <<files, tabs, active, docs, pane, saving, stats, moving, bounds>>

dropUnder ==
    /\ deleting # None /\ deleting.at = "done"
    /\ deleting' = None
    /\ drop(deleting.path, saving)
    /\ UNCHANGED <<files, stats, moving, bounds>>

OutsideWrite(p) ==
    /\ clock < MaxClock
    /\ Outlasts(p)
    /\ moving # None /\ moving.from = p => "writer during a rename" \in Races
    /\ disk' = [disk EXCEPT ![p] = [text |-> clock + 1, mtime |-> clock + 1]]
    /\ held' = [held EXCEPT ![p] = @ \cup {clock + 1}]
    /\ clock' = clock + 1
    /\ UNCHANGED <<tabs, active, docs, pane, saving, stats, idle, gestures>>

OutsideDelete(p) ==
    /\ Gesture("lose") /\ exists(p) /\ Outlasts(p)
    /\ disk' = [disk EXCEPT ![p] = None]
    /\ UNCHANGED <<held, tabs, active, docs, pane, saving, stats, idle, clock>>

UserStep == \/ \E p \in Paths, flag \in BOOLEAN : OpenAgain(p, flag) \/ OpenBeside(p, flag) \/ activate(p, flag)
            \/ \E p \in Paths : OpenInSlot(p) \/ close(p)
            \/ Focus \/ Type \/ Undo \/ Save \/ Overwrite
            \/ \E p \in Paths : SaveAndClose(p) \/ DiscardAndClose(p) \/ KeepEditing(p)
            \/ \E p \in Paths : KeepMine(p) \/ ReloadFromDisk(p) \/ DeleteAsked(p) \/ DeleteUnasked(p)
            \/ \E from, to \in Paths : RenameAsked(from, to)
            \/ DeleteConfirmed \/ DeleteCancelled
StatStep == \E call \in stats : \/ stat_at(call) \/ Restated(call)
                                \/ PolledGone(call) \/ PolledSame(call) \/ PolledClean(call) \/ PolledDirty(call)
ReadStep == ReadTime \/ ReadBytes \/ ReadAnswered
WriteStep == \E p \in Paths : \/ WriteChecked(p) \/ WriteStale(p) \/ WriteReplaced(p) \/ WriteFailed(p)
                              \/ WriteStamped(p) \/ Written(p) \/ WriteRefused(p)
TreeStep == rename_at \/ RenameHeard \/ delete_at \/ DeleteFailed \/ dropUnder
Outside == \E p \in Paths : OutsideWrite(p) \/ OutsideDelete(p)

Next == UserStep \/ StatStep \/ ReadStep \/ WriteStep \/ TreeStep \/ Outside

Spec == Init /\ [][Next]_vars

-----------------------------------------------------------------------------
(* What the editor promises.                                                  *)

\* Every variable holds what its declaration says.
TypeOK ==
    /\ disk \in [Paths -> Files \cup {None}] /\ held \in [Paths -> SUBSET Nat]
    /\ tabs \in [Paths -> Tabs \cup {None}] /\ active \in Paths \cup {None}
    /\ docs \in [Paths -> Documents \cup {None}] /\ pane \in Panes
    /\ saving \in [Paths -> Saves \cup {None}] /\ stats \subseteq Calls
    /\ moving \in Renames \cup {None} /\ deleting \in Deletes \cup {None}
    /\ clock \in Nat /\ gestures \in [kinds : SUBSET AllKinds, left : Nat]

\* work that is in this buffer and nowhere else
Unsaved(p) == isDirty(p) /\ docs[p].text \notin UNION {held[q] : q \in Paths}
Texts(ds) == {ds[q].text : q \in {q \in Paths : ds[q] # None}}
\* a delete lets go of the work its bar named when it was confirmed, and of no other
Confirmed == docs[deleting.path] # None /\ docs[deleting.path].text = deleting.named
Answers == \/ Type \/ Undo \/ (dropUnder /\ Confirmed)
           \/ \E p \in Paths : DiscardAndClose(p) \/ ReloadFromDisk(p)

\* Unsaved work leaves only when the user types over it, undoes it, or answers the question that
\* names it: no poll, peek, save, rename, close or delete takes more (useOpenFiles.ts, isSpare: "no
\* buffer with unsaved work in it is ever discarded without being asked").
AskedFirst ==
    [][(\E p \in Paths : Unsaved(p) /\ docs[p].text \notin Texts(docs') \cup UNION {held'[q] : q \in Paths})
       => Answers]_vars

\* A buffer drawn clean holds a text its file has held: typing during a save, a rename, a reload
\* or a refused save never leaves unsaved work marked saved (writeDocument).
CleanWasStored == \A p \in Paths : docs[p] # None /\ ~isDirty(p) => docs[p].text \in held[p]

\* A save replaces only a version this buffer was read from or written as, or one the user agreed
\* to overwrite (write_at's baseMtime check with the time read before the bytes).
ReplacesWhatItKnows ==
    [][\A p \in Paths : WriteReplaced(p) /\ exists(p) => disk[p].text \in saving[p].knows]_vars

\* With nothing in flight, a poll can still see a change: a clean tab whose buffer is not of the
\* version on disk does not already count that version as known (the header: external changes are
\* noticed by stat-ing the open files on tab activate and on focus).
Quiet == stats = {} /\ (\A p \in Paths : saving[p] = None) /\ moving = None /\ deleting = None
ChangeCanBeSeen ==
    Quiet => \A p \in Paths : docs[p] # None /\ exists(p) /\ ~isDirty(p) /\ docs[p].text # disk[p].text
                                => tabs[p].mtime # mtime_at(p)
=============================================================================
