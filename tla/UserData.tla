------------------------------ MODULE UserData ------------------------------
(* One file of the config directory over the life of several builds             *)
(* (userdata/store.rs, backup.rs, adopt.rs), with the three ways its owners      *)
(* save it: under the store's lock (project/), from a copy taken after the lock  *)
(* is released (plugins/, shell_state, settings/), and by reading the file again *)
(* for each change (presets/, apps/tutorial.rs). A second file of the directory  *)
(* and its backups/ are there for adoption.                                      *)
EXTENDS Naturals, Sequences, FiniteSets, SequencesExt

CONSTANTS
    Threads,        \* threads of the application; Main is one of them
    Main,
    Items,          \* what a user puts into the store
    Stores,         \* the stores looked at, one in each behaviour
    Builds,         \* the FORMAT each build reads and writes
    PerStem,        \* PER_STEM: backups kept of one file
    MaxLaunches,    \* bound: launches
    MaxChanges,     \* bound: changes the user makes
    MaxFaults,      \* bound: file operations that fail, and damage from outside
    None            \* no such file, entry or holder

VARIABLES store,                    \* the store of this behaviour
          here, old, marker,        \* the directory, the superseded one, adopted-from.json
          temp,                     \* the temp file of this process
          phase, build, mem, lock, saving, doc, handle, ready,
          launches, changes, faults,
          owed,                     \* items of completed saves the user has not taken out
          mixed, behind             \* two saves overlapped; a save or a read failed

vars == <<store, here, old, marker, temp, phase, build, mem, lock, saving, doc, handle, ready,
          launches, changes, faults, owed, mixed, behind>>

threads == <<lock, saving, doc, handle>>
bounds == <<launches, changes, faults>>
ghosts == <<owed, mixed, behind>>

ASSUME StoresKnown ==
    Stores \subseteq [keep : {"Aside", "Nothing"}, saves : {"locked", "copied", "reread"}, by : SUBSET Threads]
ASSUME BoundsArePlain == {PerStem, MaxLaunches, MaxChanges, MaxFaults} \subseteq Nat /\ Builds \subseteq Nat
ASSUME FormatsAreOneUp == 0 \notin Builds /\ Builds # {}
ASSUME OneIsKept == PerStem # 0
ASSUME MainIsAThread == Main \in Threads

-----------------------------------------------------------------------------
(* Documents and directories.                                                 *)

States == {"whole", "damaged", "torn"}
Documents == [format : Nat, items : SUBSET Items, is : States]
stamped(items) == [format |-> build, items |-> items, is |-> "whole"]
Torn == [format |-> 0, items |-> {}, is |-> "torn"]

ASSUME NoneIsNothing == None \notin Documents \cup Threads \cup {"temp", "file"}

\* an entry: the modelled file, one other file of IN_USE, and backups/
Entries == {"file", "other", "backups"}
Absent(e) == IF e = "backups" THEN <<>> ELSE None
EmptyDir == [e \in Entries |-> Absent(e)]

ItemsOf(file) == IF file = None THEN {} ELSE file.items
HeldIn(dir) == ItemsOf(dir["file"]) \cup UNION {dir["backups"][i].doc.items : i \in DOMAIN dir["backups"]}
OnDisk == HeldIn(here) \cup HeldIn(old)

in_use(dir) == dir["file"] # None \/ dir["other"] # None

-----------------------------------------------------------------------------
(* backup.rs. A label is the format of what was set aside, 0 for "corrupt".   *)

Corrupt == 0

trim(kept) == IF Len(kept) <= PerStem THEN kept ELSE SubSeq(kept, Len(kept) - PerStem + 1, Len(kept))

newest(kept, label) == LET at == {i \in DOMAIN kept : kept[i].label = label}
                       IN  IF at = {} THEN 0 ELSE CHOOSE i \in at : \A j \in at : j <= i

-----------------------------------------------------------------------------
(* store::read: what a read may answer, and what it leaves. `faulty` ones use *)
(* up a fault; `spent` are the items that no longer have a safe copy.         *)

Answer(items, dir) == [items |-> items, dir |-> dir, faulty |-> FALSE, spent |-> {}]
Failed(items) == [items |-> items, dir |-> here, faulty |-> TRUE, spent |-> ItemsOf(here["file"])]

set_aside_InPlace(label, keep) == {Answer({}, here)}

set_aside(label, keep) ==
    LET before == Append(here["backups"], [label |-> label, doc |-> here["file"]])
        kept == trim(before)
        rotated == UNION {before[i].doc.items : i \in 1..(Len(before) - Len(kept))}
    IN  IF keep = "Nothing"
        THEN {[Answer({}, here) EXCEPT !.spent = ItemsOf(here["file"])]}
        ELSE {[Answer({}, [here EXCEPT !["file"] = None, !["backups"] = kept]) EXCEPT !.spent = rotated],
              Failed({})}

restored_Copy ==
    LET i == newest(here["backups"], build) IN
    IF i = 0 THEN {Answer({}, here)}
    ELSE {Answer(here["backups"][i].doc.items, here)}

restored ==
    LET i == newest(here["backups"], build)
        d == here["backups"][i].doc
    IN  IF i = 0 THEN {Answer({}, here)}
        ELSE {Answer(d.items, [here EXCEPT !["file"] = d, !["backups"] = RemoveAt(@, i)]),
              [Failed(d.items) EXCEPT !.spent = {}]}

read ==
    LET file == here["file"] IN
    IF file = None THEN restored \cup {Failed({})}
    ELSE {Failed({})}
         \cup IF file.is # "whole" THEN set_aside(Corrupt, store.keep)
              ELSE IF file.format > build THEN set_aside(file.format, "Aside")
              ELSE {Answer(file.items, here)}

\* a reader takes one of the answers
Take(r) ==
    /\ r.faulty => faults < MaxFaults
    /\ faults' = IF r.faulty THEN faults + 1 ELSE faults
    /\ here' = r.dir

-----------------------------------------------------------------------------
(* adopt.rs, before anything is read                                          *)

SupersededDirs ==
    {EmptyDir} \cup
    {[e \in Entries |-> CASE e = "file" -> f [] e = "other" -> o [] e = "backups" -> b] :
        f \in {None} \cup {[format |-> 1, items |-> {i}, is |-> "whole"] : i \in Items},
        o \in {None, "theirs"}, b \in {<<>>} \cup {<<[label |-> Corrupt, doc |-> [format |-> 1, items |-> {i}, is |-> "damaged"]]>> : i \in Items}}

Ready == phase = "down" /\ launches < MaxLaunches

adopt == ~marker /\ ~in_use(here) /\ in_use(old)

Launch(b) ==
    /\ Ready
    /\ launches' = launches + 1
    /\ build' = b
    /\ phase' = IF adopt THEN "adopting" ELSE "reading"
    /\ UNCHANGED <<store, here, old, marker, temp, mem, threads, ready, changes, faults, ghosts>>

\* an entry that is there already stays
Placed(e) == IF here[e] # Absent(e) THEN here ELSE [here EXCEPT ![e] = old[e]]

move_into(e) ==
    /\ phase = "adopting" /\ old[e] # Absent(e)
    /\ e \notin ready
    /\ ready' = ready \cup {e}
    /\ \/ /\ here' = Placed(e)
          /\ old' = IF here[e] # Absent(e) THEN old ELSE [old EXCEPT ![e] = Absent(e)]
          /\ UNCHANGED faults
       \/ /\ faults < MaxFaults /\ faults' = faults + 1
          /\ UNCHANGED <<here, old>>
    /\ UNCHANGED <<store, marker, temp, phase, build, mem, threads, launches, changes, ghosts>>

mark ==
    /\ phase = "adopting" /\ \A e \in Entries \ ready : old[e] = Absent(e)
    /\ \/ marker' = TRUE /\ UNCHANGED faults
       \/ faults < MaxFaults /\ faults' = faults + 1 /\ UNCHANGED marker
    /\ phase' = "reading"
    /\ ready' = {}
    /\ UNCHANGED <<store, here, old, temp, build, mem, threads, launches, changes, ghosts>>

\* seed, restore, hydrate: the store is read once and kept in memory
Load ==
    /\ phase = "reading"
    /\ phase' = "up"
    /\ \E r \in read :
          /\ Take(r)
          /\ mem' = IF store.saves = "reread" THEN {} ELSE r.items
          /\ owed' = owed \ r.spent
          /\ behind' = (r.faulty \/ (r.dir["file"] # None /\ r.items # ItemsOf(r.dir["file"])))
    /\ mixed' = FALSE
    /\ UNCHANGED <<store, old, marker, temp, build, threads, ready, launches, changes>>

-----------------------------------------------------------------------------
(* Changes and saves                                                          *)

Idle(t) == phase = "up" /\ saving[t] = "no"
Changed(items, i, put) == IF put THEN items \cup {i} ELSE items \ {i}
Others(t) == \E u \in Threads \ {t} : saving[u] # "no"

\* the user puts an item in or takes one out, which ends what is owed of it; what
\* changes nothing is not saved, or saves the same again, and is left out
Change(t, i, put) ==
    /\ Changed(mem, i, put) # mem
    /\ Idle(t) /\ t \in store.by /\ changes < MaxChanges
    /\ changes' = changes + 1
    /\ owed' = IF put THEN owed ELSE owed \ {i}
    /\ mixed' = (mixed \/ Others(t))

\* ProjectState: the guard is held until the file is written
TouchLocked(t, i, put) ==
    /\ store.saves = "locked" /\ lock = None
    /\ Change(t, i, put)
    /\ lock' = t
    /\ mem' = Changed(mem, i, put)
    /\ saving' = [saving EXCEPT ![t] = "create"]
    /\ doc' = [doc EXCEPT ![t] = stamped(mem')]
    /\ UNCHANGED <<store, here, old, marker, temp, phase, build, handle, ready, launches, faults, behind>>

\* Registry::insert, remove: the guard is dropped, then the state copied and saved
Touch(t, i, put) ==
    /\ store.saves = "copied"
    /\ Change(t, i, put)
    /\ mem' = Changed(mem, i, put)
    /\ saving' = [saving EXCEPT ![t] = "copy"]
    /\ UNCHANGED <<store, here, old, marker, temp, phase, build, lock, doc, handle, ready, launches, faults, behind>>

persist(t) ==
    /\ saving[t] = "copy"
    /\ saving' = [saving EXCEPT ![t] = "create"]
    /\ doc' = [doc EXCEPT ![t] = stamped(mem)]
    /\ UNCHANGED <<store, here, old, marker, temp, phase, build, mem, lock, handle, ready, bounds, ghosts>>

Kept(items, i, put) == Changed(items, i, put)

\* presets::save, set_done: load, change, save
TouchReread(t, i, put) ==
    /\ store.saves = "reread"
    /\ Idle(t) /\ t \in store.by /\ changes < MaxChanges
    /\ changes' = changes + 1
    /\ mixed' = (mixed \/ Others(t))
    /\ \E r \in read :
          /\ Changed(r.items, i, put) # r.items
          /\ Take(r)
          /\ owed' = owed \ (r.spent \cup IF put THEN {} ELSE {i})
          /\ doc' = [doc EXCEPT ![t] = stamped(Kept(r.items, i, put))]
    /\ saving' = [saving EXCEPT ![t] = "create"]
    /\ UNCHANGED <<store, old, marker, temp, phase, build, mem, lock, handle, ready, launches, behind>>

\* handles on one temp name are handles on one file until it is renamed or removed
Follow(from, to) == [t \in Threads |-> IF handle[t] = from THEN to ELSE handle[t]]

create_InPlace(t) ==
    /\ saving[t] = "create"
    /\ here' = [here EXCEPT !["file"] = Torn]
    /\ handle' = [handle EXCEPT ![t] = "file"]
    /\ saving' = [saving EXCEPT ![t] = "write"]
    /\ UNCHANGED <<store, temp, old, marker, phase, build, mem, lock, doc, ready, bounds, ghosts>>

\* durably: File::create empties the temp file, whoever made it
create(t) ==
    /\ saving[t] = "create"
    /\ temp' = Torn
    /\ handle' = [handle EXCEPT ![t] = "temp"]
    /\ saving' = [saving EXCEPT ![t] = "write"]
    /\ UNCHANGED <<store, here, old, marker, phase, build, mem, lock, doc, ready, bounds, ghosts>>

\* a write over other bytes leaves a file of both, unless it is as long
Over(content, d) == IF content = Torn THEN {d} ELSE {d, Torn}

write_all(t) ==
    /\ saving[t] = "write"
    /\ CASE handle[t] = "temp" -> temp' \in Over(temp, doc[t]) /\ UNCHANGED here
         [] handle[t] = "file" -> /\ \E d \in Over(here["file"], doc[t]) : here' = [here EXCEPT !["file"] = d]
                                  /\ UNCHANGED temp
         [] handle[t] = None -> UNCHANGED <<here, temp>>
    /\ handle' = [handle EXCEPT ![t] = None]
    /\ saving' = [saving EXCEPT ![t] = "rename"]
    /\ UNCHANGED <<store, old, marker, phase, build, mem, lock, doc, ready, bounds, ghosts>>

Done(t) ==
    /\ saving' = [saving EXCEPT ![t] = "no"]
    /\ lock' = IF lock = t THEN None ELSE lock
    /\ UNCHANGED <<store, old, marker, phase, build, mem, doc, ready, launches, changes>>

\* the temp file takes the file's name; another save may have moved it already
rename(t) ==
    /\ saving[t] = "rename"
    /\ IF temp = None
       THEN /\ behind' = TRUE
            /\ UNCHANGED <<here, temp, handle, owed>>
       ELSE /\ here' = [here EXCEPT !["file"] = temp]
            /\ temp' = None
            /\ handle' = [u \in Threads |-> CASE handle[u] = "temp" -> "file"
                                              [] OTHER -> None]
            /\ owed' = IF mixed THEN owed ELSE owed \cup temp.items
            /\ behind' = FALSE
    /\ Done(t)
    /\ UNCHANGED <<faults, mixed>>

\* any of the three fails: logged, and the temp file removed
Abandon(t) ==
    /\ saving[t] \in {"create", "write", "rename"} /\ faults < MaxFaults
    /\ faults' = faults + 1
    /\ here' = IF saving[t] = "write" /\ handle[t] = "file" THEN [here EXCEPT !["file"] = Torn] ELSE here
    /\ temp' = None
    /\ handle' = [Follow("temp", None) EXCEPT ![t] = None]
    /\ behind' = TRUE
    /\ Done(t)
    /\ UNCHANGED <<owed, mixed>>

-----------------------------------------------------------------------------
(* The process ends, at any point; the next one has another temp name         *)

Exit ==
    /\ phase # "down"
    /\ phase' = "down"
    /\ temp' = None /\ mem' = {} /\ lock' = None /\ ready' = {}
    /\ saving' = [t \in Threads |-> "no"] /\ handle' = [t \in Threads |-> None]
    /\ doc' = [t \in Threads |-> Torn]
    /\ owed' = IF mixed THEN owed \cap OnDisk ELSE owed
    /\ mixed' = FALSE /\ behind' = FALSE
    /\ UNCHANGED <<store, here, old, marker, build, bounds>>

\* a file is cut short or edited by hand while nothing runs
Damage ==
    /\ phase = "down" /\ here["file"] # None /\ here["file"].is = "whole" /\ faults < MaxFaults
    /\ faults' = faults + 1
    /\ here' = [here EXCEPT !["file"].is = "damaged"]
    /\ UNCHANGED <<store, old, marker, temp, phase, build, mem, threads, ready, launches, changes, ghosts>>

-----------------------------------------------------------------------------
Init ==
    /\ store \in Stores /\ old \in SupersededDirs
    /\ here = EmptyDir /\ marker = FALSE /\ temp = None
    /\ phase = "down" /\ build \in {CHOOSE b \in Builds : TRUE}
    /\ mem = {} /\ lock = None /\ ready = {}
    /\ saving = [t \in Threads |-> "no"] /\ handle = [t \in Threads |-> None]
    /\ doc = [t \in Threads |-> Torn]
    /\ launches = 0 /\ changes = 0 /\ faults = 0
    /\ owed = HeldIn(old) /\ mixed = FALSE /\ behind = FALSE

Next ==
    \/ \E b \in Builds : Launch(b)
    \/ \E e \in Entries : move_into(e)
    \/ mark
    \/ Load
    \/ \E t \in Threads, i \in Items, put \in BOOLEAN :
          TouchLocked(t, i, put) \/ Touch(t, i, put) \/ TouchReread(t, i, put)
    \/ \E t \in Threads : persist(t) \/ create(t) \/ write_all(t) \/ rename(t) \/ Abandon(t)
    \/ Exit
    \/ Damage

Spec == Init /\ [][Next]_vars

-----------------------------------------------------------------------------
(* Properties                                                                 *)

TypeOK ==
    /\ store \in Stores /\ marker \in BOOLEAN /\ phase \in {"down", "adopting", "reading", "up"}
    /\ build \in Builds /\ mem \subseteq Items /\ lock \in Threads \cup {None}
    /\ saving \in [Threads -> {"no", "copy", "create", "write", "rename"}]
    /\ handle \in [Threads -> {None, "temp", "file"}]
    /\ \A dir \in {here, old} : Len(dir["backups"]) <= PerStem
    /\ owed \subseteq Items

\* What a completed save put on disk, and the user did not take out, is there for
\* good: through crashes in the middle of a save, files that fail to parse, builds
\* of two formats taking turns, and adoption. Not counted: a file whose read or
\* move failed, a damaged one of a store that keeps none, what rotation dropped.
NothingLost == (store.saves = "reread" /\ mixed) \/ owed \subseteq OnDisk \cup mem

\* With the file's owner not in the middle of a save, and none failed, the file
\* says what memory says: the next launch opens on what was on screen. Not of a
\* launch in which two saves overlapped (`mixed`): the one renamed last may have taken
\* its copy first. Nor of a store that keeps nothing in memory ("reread").
FileFollowsMemory ==
    phase = "up" /\ store.saves # "reread" /\ ~behind /\ ~mixed /\ (\A t \in Threads : saving[t] = "no")
        => ItemsOf(here["file"]) = mem

\* Only two saves of one process at once, in a store that lets two threads save,
\* can leave half a file under the name: a crash or a full disk never does.
WholeOrMixed ==
    [][here'["file"] # None /\ here'["file"].is = "torn" /\ here["file"] # here'["file"] => mixed]_vars

\* A build does not go on without data of its own that is in backups/: what it
\* wrote is back after another build has run (backup.rs: "closes the loop").
LoopCloses == phase = "up" /\ faults = 0 => newest(here["backups"], build) = 0
=============================================================================
