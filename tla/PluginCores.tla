---------------------------- MODULE PluginCores -----------------------------
(***************************************************************************)
(* The core of one plugin: the process that answers its surfaces           *)
(* (src-tauri/src/plugins/broker.rs), the record it is installed by        *)
(* (plugins/mod.rs, plugins/install.rs) and the watch that reloads it when *)
(* it is rebuilt (plugins/watch.rs).  Everything here is keyed by package  *)
(* id, so one package stands for all of them.                              *)
(*                                                                         *)
(* Calls run on threads of their own and hold no lock while a process      *)
(* starts or answers.  The operations on the installed set run on the main *)
(* thread, on a worker or on the thread of a watch; each is a script of    *)
(* the steps between which it holds no lock either.                        *)
(***************************************************************************)
EXTENDS Integers, Sequences

CONSTANTS
  Callers,         \* the threads calls run on
  Main, Worker,    \* the main thread, and one that installs
  Debouncers,      \* the threads watches run on
  MaxCores,        \* bound on the processes started
  MaxBuilds,       \* bound on the builds made or downloaded
  MaxOps           \* bound on the operations asked for

Admins == {Main, Worker} \cup Debouncers
Kind == {"folder", "release"}              \* a working tree, a download
Nowhere == "none"
NoCore == 0

ASSUME CoresAssumption ==
  /\ MaxCores \in Nat /\ MaxBuilds \in Nat /\ MaxOps \in Nat
  /\ Main # Worker /\ Main \notin Debouncers /\ Worker \notin Debouncers

VARIABLES
  source, enabled, \* the record: where the checkout is, and whether it shows
  disk,            \* disk[k]: the build in the checkout of kind k, 0 for none
  made,            \* how many builds there have been
  watch,           \* the live watch, with the thread it runs on
  event,           \* something it watches has changed
  running,         \* the core in the broker's map, or NoCore
  cores,           \* every process ever started
  stage,           \* stage[c]: how far the call on thread c has come
  path,            \* path[c]: where it was told the checkout is
  spawned,         \* spawned[c]: the process it started, until it has landed
  hand,            \* hand[c]: the core it calls
  todo,            \* todo[a]: the steps left of the operation on thread a
  held,            \* held[a]: the core it has taken out of the map to stop
  want,            \* want[a]: where it last read the checkout was
  ops,             \* how many operations have been asked for
  overtaken,       \* calls whose start a stop has run past
  late             \* cores that landed after such a start

recordVars == <<source, enabled>>
diskVars == <<disk, made>>
watchVars == <<watch, event>>
callVars == <<stage, path, spawned, hand>>
adminVars == <<todo, held, want>>
ghostVars == <<overtaken, late>>
vars == <<recordVars, diskVars, watchVars, running, cores, callVars, adminVars, ops, ghostVars>>

NoWatch == [kind |-> Nowhere, by |-> Main, sees |-> {}, since |-> 0]

Init ==
  /\ source = Nowhere /\ enabled = FALSE
  /\ disk = [k \in Kind |-> 0] /\ made = 0
  /\ watch = NoWatch /\ event = FALSE
  /\ running = NoCore /\ cores = <<>>
  /\ stage = [c \in Callers |-> "idle"] /\ path = [c \in Callers |-> Nowhere]
  /\ spawned = [c \in Callers |-> NoCore] /\ hand = [c \in Callers |-> NoCore]
  /\ todo = [a \in Admins |-> <<>>] /\ held = [a \in Admins |-> NoCore]
  /\ want = [a \in Admins |-> Nowhere] /\ ops = 0
  /\ overtaken = {} /\ late = {}

-----------------------------------------------------------------------------
(* A call *)

(* `Broker::core` looks in the map. *)
Call(c) ==
  /\ stage[c] = "idle"
  /\ \/ /\ running # NoCore
        /\ hand' = [hand EXCEPT ![c] = running]
        /\ stage' = [stage EXCEPT ![c] = "calling"]
     \/ /\ running = NoCore
        /\ stage' = [stage EXCEPT ![c] = "cold"]
        /\ UNCHANGED hand
  /\ UNCHANGED <<recordVars, diskVars, watchVars, running, cores, path, spawned, adminVars, ops,
                 ghostVars>>

(* The registry is asked for the checkout; it says nothing of `enabled`. *)
Locate(c) ==
  /\ stage[c] = "cold"
  /\ path' = [path EXCEPT ![c] = source]
  /\ stage' = [stage EXCEPT ![c] = IF source = Nowhere THEN "idle" ELSE "located"]
  /\ UNCHANGED <<recordVars, diskVars, watchVars, running, cores, spawned, hand, adminVars, ops,
                 ghostVars>>

(* What is built there now is started. *)
Start(c) ==
  /\ stage[c] = "located"
  /\ \/ /\ disk[path[c]] = 0
        /\ stage' = [stage EXCEPT ![c] = "idle"]
        /\ UNCHANGED <<cores, spawned>>
     \/ /\ disk[path[c]] # 0 /\ Len(cores) < MaxCores
        /\ cores' = Append(cores, [from |-> path[c], build |-> disk[path[c]], life |-> "alive"])
        /\ spawned' = [spawned EXCEPT ![c] = Len(cores) + 1]
        /\ stage' = [stage EXCEPT ![c] = "greeting"]
  /\ path' = [path EXCEPT ![c] = Nowhere]
  /\ UNCHANGED <<recordVars, diskVars, watchVars, running, hand, adminVars, ops, ghostVars>>

(* A core that is shut down or dropped has ended, whoever holds it. *)
Ended(p) == [cores EXCEPT ![p].life = "stopped"]

Greet(c) ==
  /\ stage[c] = "greeting" /\ cores[spawned[c]].life = "alive"
  /\ stage' = [stage EXCEPT ![c] = "landing"]
  /\ UNCHANGED <<recordVars, diskVars, watchVars, running, cores, path, spawned, hand, adminVars,
                 ops, ghostVars>>

(* No answer, or not the one the manifest promises: the process is dropped. *)
AfterRefusal_Leaked(p) == cores
AfterRefusal(p) == Ended(p)
GreetFails(c) ==
  /\ stage[c] = "greeting"
  /\ cores' = AfterRefusal(spawned[c])
  /\ spawned' = [spawned EXCEPT ![c] = NoCore]
  /\ stage' = [stage EXCEPT ![c] = "idle"]
  /\ overtaken' = overtaken \ {c}
  /\ UNCHANGED <<recordVars, diskVars, watchVars, running, path, hand, adminVars, ops, late>>

(* The first of two starts to land is the core of both calls; the other    *)
(* shuts its own down before it goes on.                                   *)
Vacant_Unasked == TRUE
Vacant == running = NoCore
Land(c) ==
  /\ stage[c] = "landing" /\ Vacant
  /\ running' = spawned[c]
  /\ hand' = [hand EXCEPT ![c] = spawned[c]]
  /\ spawned' = [spawned EXCEPT ![c] = NoCore]
  /\ stage' = [stage EXCEPT ![c] = "calling"]
  /\ late' = IF c \in overtaken THEN late \cup {spawned[c]} ELSE late
  /\ overtaken' = overtaken \ {c}
  /\ UNCHANGED <<recordVars, diskVars, watchVars, cores, path, adminVars, ops>>

LandSecond(c) ==
  /\ stage[c] = "landing" /\ ~Vacant
  /\ hand' = [hand EXCEPT ![c] = running]
  /\ stage' = [stage EXCEPT ![c] = "yielding"]
  /\ overtaken' = overtaken \ {c}
  /\ UNCHANGED <<recordVars, diskVars, watchVars, running, cores, path, spawned, adminVars, ops,
                 late>>

Yield(c) ==
  /\ stage[c] = "yielding"
  /\ cores' = Ended(spawned[c])
  /\ spawned' = [spawned EXCEPT ![c] = NoCore]
  /\ stage' = [stage EXCEPT ![c] = "calling"]
  /\ UNCHANGED <<recordVars, diskVars, watchVars, running, path, hand, adminVars, ops, ghostVars>>

(* `ToolProcess::call` returns, with an answer or without: see ToolCalls. *)
Return(c) ==
  /\ stage[c] = "calling"
  /\ hand' = [hand EXCEPT ![c] = NoCore]
  /\ stage' = [stage EXCEPT ![c] = "idle"]
  /\ UNCHANGED <<recordVars, diskVars, watchVars, running, cores, path, spawned, adminVars, ops,
                 ghostVars>>

(* A core may end of itself; the map is not told. *)
Crash(p) ==
  /\ p \in 1..Len(cores) /\ cores[p].life = "alive"
  /\ cores' = [cores EXCEPT ![p].life = "crashed"]
  /\ UNCHANGED <<recordVars, diskVars, watchVars, running, callVars, adminVars, ops, ghostVars>>

-----------------------------------------------------------------------------
(* The operations on the installed set *)

(* `stop` is "take" and "shut", `changed` is "read" and "sync".             *)
ReloadScript_Announced == <<"check", "read", "sync">>
ReloadScript == <<"check", "take", "shut", "read", "sync">>
InstallScript == <<"mayInstall", "record", "take", "shut", "read", "sync">>
UninstallScript == <<"take", "shut", "owner", "remove", "discard", "read", "sync">>
EnableScript == <<"switchOn", "read", "sync">>
DisableScript == <<"switchOff", "take", "shut", "read", "sync">>
UpgradeScript == <<"mayUpgrade", "clear", "place", "recordRelease", "read", "sync">>

(* `install_folder` is a command and is run by the picker's too;           *)
(* `from_repo` runs on a worker, the rest are commands.                    *)
ScriptsOf(a) ==
  IF a = Main
    THEN {InstallScript, UninstallScript, ReloadScript, EnableScript, DisableScript}
    ELSE {InstallScript, UpgradeScript}

Begin(a) ==
  /\ a \in {Main, Worker} /\ todo[a] = <<>> /\ ops < MaxOps
  /\ \E script \in ScriptsOf(a) : todo' = [todo EXCEPT ![a] = script]
  /\ ops' = ops + 1
  /\ UNCHANGED <<recordVars, diskVars, watchVars, running, cores, callVars, held, want, ghostVars>>

At(a, step) == todo[a] # <<>> /\ Head(todo[a]) = step
GoesOn(a) == todo' = [todo EXCEPT ![a] = Tail(@)]
Ends(a) == todo' = [todo EXCEPT ![a] = <<>>]
GoesOnIf(a, guard) == (guard /\ GoesOn(a)) \/ (~guard /\ Ends(a))

(* The guards the registry answers. *)
Check(a) ==
  /\ \/ At(a, "check") /\ GoesOnIf(a, source # Nowhere)
     \/ At(a, "mayInstall") /\ GoesOnIf(a, source # "release")
     \/ At(a, "mayUpgrade") /\ GoesOnIf(a, source # "folder")
  /\ UNCHANGED <<recordVars, diskVars, watchVars, running, cores, callVars, held, want, ops,
                 ghostVars>>

(* `Registry::insert` replaces the record. *)
Record(a) ==
  /\ \/ At(a, "record") /\ source' = "folder"
     \/ At(a, "recordRelease") /\ source' = "release"
  /\ enabled' = TRUE
  /\ GoesOn(a)
  /\ UNCHANGED <<diskVars, watchVars, running, cores, callVars, held, want, ops, ghostVars>>

Switched(a) == source # Nowhere /\ At(a, "switchOn")
Switch(a) ==
  /\ At(a, "switchOn") \/ At(a, "switchOff")
  /\ enabled' = Switched(a)
  /\ GoesOnIf(a, source # Nowhere)
  /\ UNCHANGED <<source, diskVars, watchVars, running, cores, callVars, held, want, ops, ghostVars>>

(* `Broker::stop` takes the core out of the map, then shuts it down. *)
AfterTake == NoCore
Take(a) ==
  /\ At(a, "take")
  /\ held' = [held EXCEPT ![a] = running] /\ running' = AfterTake
  /\ overtaken' = overtaken \cup {c \in Callers : stage[c] \in {"greeting", "landing"}}
  /\ GoesOn(a)
  /\ UNCHANGED <<recordVars, diskVars, watchVars, cores, callVars, want, ops, late>>

Shut(a) ==
  /\ At(a, "shut")
  /\ cores' = IF held[a] = NoCore THEN cores ELSE Ended(held[a])
  /\ held' = [held EXCEPT ![a] = NoCore]
  /\ GoesOn(a)
  /\ UNCHANGED <<recordVars, diskVars, watchVars, running, callVars, want, ops, ghostVars>>

(* What a watch of a directory does when the directory goes. *)
Blinded(k) == IF watch.kind = k THEN [watch EXCEPT !.sees = {}] ELSE watch
Notices(k) == watch.kind = k /\ watch.sees # {}

(* `uninstall` asks who owns the directory, then forgets the record, and   *)
(* only then deletes the directory if it is the application's, which may   *)
(* fail: by then another release may have been moved there.                *)
Owner(a) ==
  /\ At(a, "owner")
  /\ want' = [want EXCEPT ![a] = source]
  /\ GoesOn(a)
  /\ UNCHANGED <<recordVars, diskVars, watchVars, running, cores, callVars, held, ops, ghostVars>>

Remove(a) ==
  /\ At(a, "remove")
  /\ source' = Nowhere /\ enabled' = FALSE
  /\ GoesOnIf(a, source # Nowhere)
  /\ UNCHANGED <<diskVars, watchVars, running, cores, callVars, held, want, ops, ghostVars>>

Discard(a) ==
  /\ At(a, "discard")
  /\ \/ /\ want[a] = "release"
        /\ disk' = [disk EXCEPT !["release"] = 0]
        /\ watch' = Blinded("release") /\ event' = (event \/ Notices("release"))
     \/ UNCHANGED <<disk, watchVars>>
  /\ want' = [want EXCEPT ![a] = Nowhere]
  /\ GoesOn(a)
  /\ UNCHANGED <<recordVars, made, running, cores, callVars, held, ops, ghostVars>>

(* `from_repo` deletes what was there and moves the new release into its   *)
(* place, which may fail.                                                  *)
Clear(a) ==
  /\ At(a, "clear")
  /\ disk' = [disk EXCEPT !["release"] = 0]
  /\ watch' = Blinded("release") /\ event' = (event \/ Notices("release"))
  /\ GoesOn(a)
  /\ UNCHANGED <<recordVars, made, running, cores, callVars, held, want, ops, ghostVars>>

Place(a) ==
  /\ At(a, "place")
  /\ \/ /\ made < MaxBuilds
        /\ made' = made + 1 /\ disk' = [disk EXCEPT !["release"] = made + 1]
        /\ GoesOn(a)
     \/ Ends(a) /\ UNCHANGED diskVars
  /\ UNCHANGED <<recordVars, watchVars, running, cores, callVars, held, want, ops, ghostVars>>

(* `Watchers::sync` reads what is wanted before it takes its lock. *)
Wanted == IF enabled /\ (source = "release" => disk["release"] # 0) THEN source ELSE Nowhere
Read(a) ==
  /\ At(a, "read")
  /\ want' = [want EXCEPT ![a] = Wanted]
  /\ GoesOn(a)
  /\ UNCHANGED <<recordVars, diskVars, watchVars, running, cores, callVars, held, ops, ghostVars>>

(* A watch is of the checkout, and of where the binary is if it is built. *)
Seen(k) == IF disk[k] = 0 THEN {"root"} ELSE {"root", "bin"}
Watching(k, d) == [kind |-> k, by |-> d, sees |-> Seen(k), since |-> disk[k]]

(* One that is there already is left as it is. *)
Sync(a) ==
  /\ At(a, "sync")
  /\ \/ /\ want[a] = Nowhere
        /\ watch' = NoWatch /\ event' = FALSE
     \/ /\ want[a] # Nowhere /\ watch # NoWatch
        /\ UNCHANGED watchVars
     \/ /\ want[a] # Nowhere /\ watch = NoWatch
        /\ IF want[a] = "release" /\ disk["release"] = 0
             THEN UNCHANGED watch
             ELSE \E d \in Debouncers : todo[d] = <<>> /\ watch' = Watching(want[a], d)
        /\ UNCHANGED event
  /\ want' = [want EXCEPT ![a] = Nowhere]
  /\ GoesOn(a)
  /\ UNCHANGED <<recordVars, diskVars, running, cores, callVars, held, ops, ghostVars>>

-----------------------------------------------------------------------------
(* The working tree is built, and what watches it reloads *)

(* The first build is seen at the root, where it makes its directory; a    *)
(* later one only where the binary is.                                     *)
Build ==
  /\ made < MaxBuilds
  /\ made' = made + 1 /\ disk' = [disk EXCEPT !["folder"] = made + 1]
  /\ event' = (event \/ (watch.kind = "folder" /\
                          (IF disk["folder"] = 0 THEN "root" ELSE "bin") \in watch.sees))
  /\ UNCHANGED <<recordVars, watch, running, cores, callVars, adminVars, ops, ghostVars>>

(* Nothing has changed for a while: every event up to now is one reload. *)
Debounce ==
  /\ event /\ watch # NoWatch /\ todo[watch.by] = <<>>
  /\ event' = FALSE
  /\ todo' = [todo EXCEPT ![watch.by] = ReloadScript]
  /\ UNCHANGED <<recordVars, diskVars, watch, running, cores, callVars, held, want, ops, ghostVars>>

Next ==
  \/ \E c \in Callers :
       \/ Call(c) \/ Locate(c) \/ Start(c) \/ Greet(c) \/ GreetFails(c)
       \/ Land(c) \/ LandSecond(c) \/ Yield(c) \/ Return(c)
  \/ \E p \in 1..MaxCores : Crash(p)
  \/ \E a \in Admins :
       \/ Begin(a) \/ Check(a) \/ Record(a) \/ Switch(a) \/ Take(a) \/ Shut(a)
       \/ Owner(a) \/ Remove(a) \/ Discard(a) \/ Clear(a) \/ Place(a) \/ Read(a) \/ Sync(a)
  \/ Build \/ Debounce

Spec == Init /\ [][Next]_vars

-----------------------------------------------------------------------------

CallStage ==
  {"idle", "cold", "located", "greeting", "landing", "yielding", "calling"}
AdminStep ==
  {"check", "mayInstall", "mayUpgrade", "record", "recordRelease", "switchOn", "switchOff",
   "take", "shut", "owner", "remove", "discard", "clear", "place", "read", "sync"}
WatchType ==
  [kind : Kind, by : Debouncers, sees : SUBSET {"root", "bin"}, since : 0..MaxBuilds]
Core == [from : Kind, build : 1..MaxBuilds, life : {"alive", "crashed", "stopped"}]
CoreId == 1..Len(cores)

(* Every variable holds what its declaration says. *)
TypeOK ==
  /\ source \in Kind \cup {Nowhere} /\ enabled \in BOOLEAN /\ (enabled => source # Nowhere)
  /\ disk \in [Kind -> 0..MaxBuilds] /\ made \in 0..MaxBuilds
  /\ watch \in WatchType \cup {NoWatch}
  /\ event \in BOOLEAN
  /\ cores \in Seq(Core) /\ Len(cores) <= MaxCores
  /\ running \in CoreId \cup {NoCore}
  /\ stage \in [Callers -> CallStage] /\ path \in [Callers -> Kind \cup {Nowhere}]
  /\ spawned \in [Callers -> CoreId \cup {NoCore}] /\ hand \in [Callers -> CoreId \cup {NoCore}]
  /\ todo \in [Admins -> Seq(AdminStep)] /\ held \in [Admins -> CoreId \cup {NoCore}]
  /\ want \in [Admins -> Kind \cup {Nowhere}] /\ ops \in 0..MaxOps
  /\ overtaken \subseteq Callers /\ late \subseteq CoreId

Alive(p) == p # NoCore /\ cores[p].life = "alive"
Stopping(p) == \E a \in Admins : held[a] = p

(* Two calls that are answered are answered by one core: a live core that  *)
(* a call holds is the one in the map, or one a stop has just taken out of *)
(* it.  "Two copies of that domain's state with nothing keeping them       *)
(* honest" do not come to be.                                              *)
CallsReachOne ==
  \A c \in Callers : stage[c] = "calling" /\ Alive(hand[c]) =>
    hand[c] = running \/ Stopping(hand[c])

(* Every live process is in the map, is being stopped, or is a start that  *)
(* has yet to land or to give way: "a rare wasted process rather than a    *)
(* permanent leak".                                                        *)
NoneWasted ==
  \A p \in CoreId : Alive(p) =>
    \/ p = running \/ Stopping(p)
    \/ \E c \in Callers : spawned[c] = p /\ stage[c] \in {"greeting", "landing", "yielding"}

(* Nobody finds in the map a core that the shell itself has ended or is    *)
(* ending.                                                                 *)
MapNotStopped ==
  running # NoCore => cores[running].life # "stopped" /\ ~Stopping(running)

Quiet == ~event /\ \A a \in Admins : todo[a] = <<>>

(* The core that answers is older than what its checkout holds, though the *)
(* checkout was built again while it was watched.                          *)
Outdated ==
  /\ running # NoCore /\ source = cores[running].from
  /\ watch.kind = source /\ watch.since < disk[source]
  /\ cores[running].build < disk[source]

(* Once a rebuild has been seen and reloaded, no older build answers, save *)
(* one whose start the reload ran past.                                    *)
OldBuildGoes ==
  Quiet /\ Outdated /\ "bin" \in watch.sees => running \in late

(* The same of every watched folder: "Rebuild and it reloads." *)
RebuildReloads ==
  Quiet /\ Outdated /\ source = "folder" => running \in late
=============================================================================
