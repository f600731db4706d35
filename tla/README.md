# Verification of the Kaava shell

TLA+ models of the shell in `src/`, TLC configurations that check them on small
instances, and TLAPS proofs of what matters most for every size. Paths below are
relative to `src/`; `S/` stands for `src-tauri/src/`.

`PROJECT.json` holds the machine-readable side: which lines each definition models
(`map`), what each run checks (`runs`), the plausible bug that breaks each property
(`mutants`), disagreements between code and documents (`findings`), the hazards the
properties are aimed at (`hazards`) and the proved theorems (`theorems`).

## 1. The system

A desktop application (Tauri: a Rust process with several webview windows). The Rust
side owns all state; windows draw snapshots of it. Most commands are synchronous and
run one at a time on the main thread. Commands declared `async`, plugin calls, preset
workers, terminal pumps, tool readers and file watches run on threads of their own.

| Component | State it keeps | Operations | Interacts with |
|---|---|---|---|
| **Shell state** `S/shell_state.rs`, `S/windows.rs`, `S/commands.rs` | windows, clusters, one pane tree per cluster, app surfaces, terminals and their split groups, selections, id counters | open, close, move, split, detach, reorder, group, show, merge, restore; all through `mutate`, which repairs selections, then emits and saves a clone | windows (snapshot events), shell store, terminals, presets |
| **Pane tree** `S/layout.rs` | rows, columns and leaves of one cluster | place, split, remove with pruning, resize, rearrange | shell state only |
| **Shell store** `S/shell_store.rs` | the layout file | load, prune what cannot be reached, save | shell state, user data files |
| **Terminal sessions** `S/pty.rs`, `src/shell/state/terminals.ts` | per session: a backlog, its sequence numbers, attached and exited flags, the pump's undecoded bytes; per view: held events, cursor | open, pump, attach, catch up, follow, write, resize, exit, close | the shell process, events to every webview, shell state |
| **Tool RPC** `crates/kaava-rpc` | per process: the table of senders, the pipes, the reader thread | call with timeout, read, deliver, sweep, shutdown, drop | the tool's process; broker |
| **Plugin registry, install, broker, watch** `S/plugins/` | records on disk, checkouts, one running core per package, one watch per package | install from a folder or a release, uninstall, enable, disable, reload, route a call, debounce | tool RPC, file system, windows |
| **Presets** `S/presets/` | saved layouts | capture, normalise, plan (claim, gap, left over), lay out, fill gaps on a worker, save, merge with the built-ins | shell state, pane tree |
| **User data files** `S/userdata/` | one JSON file per store, copies set aside, dated backups | read, atomic write, back up, trim, adopt an older directory | every store |
| **Schematify core** `crates/schematify-core` | nodes with a lifecycle, edges, audits, decisions, runs: one file each | walk, lint, load with quarantine; write node, edge, transition, decision, run | Schematify app `S/apps/schematify.rs`, whose calls run on threads of their own |
| **Viewer and Files** `apps/viewer/ui`, `S/apps/files.rs` | tabs, buffers, what each knows of its file | open, edit, save, poll, reload, overwrite, rename, delete | the disk, which other windows, terminals and agents write too |
| **MCP servers** `S/mcp/` | registry of servers, listener, handed-off config files | register, listen, hand off | agents outside the process |
| **Settings, projects, reconcile, review, updater, boot, search, git, other apps** | see `PROJECT.json` | | |

What is hard in it, and what makes each part correct:

* **Shell state.** Some twenty-five mutators edit five lists that refer to each other by id.
  Nothing in the types keeps them consistent. Correct means: an id names one thing, a
  tab resolves, a surface is drawn exactly once, nothing alive is unreachable, every
  window shows something, and a restart mints no id that is in use.
* **Terminal sessions.** A chunk is stored under a lock and emitted after it; a view
  subscribes, attaches and catches up over three asynchronous calls. Correct means each
  view shows an unbroken run of the output, and a session that ends closes its tab
  whichever side is late.
* **Tool RPC.** Callers, a reader thread and a dying child race over one table. Correct
  means each call returns once, with its own answer, nothing is left in the table, and
  `shutdown` and `Drop` come to an end.
* **Broker and watch.** Starts, stops and calls interleave with no lock held while a
  process starts or ends. Correct means one live core answers, no process is left over,
  and a rebuild replaces the old build.
* **Arrangement.** One tree is edited by drags, closes, splits and presets, and a preset
  reserves panes that stay empty over many mutations. Correct means each surface is drawn
  once, no hole is left that nobody will fill, and a preset looks as it was saved.
* **User data.** Builds of two formats and two threads write one file, and the process may
  end between any two file operations. Correct means nothing saved is lost, and the file
  is a whole one.
* **Schematify.** Every call reads some files, then writes some, with no lock between two
  calls, and any write may fail. Correct means a node stands where its history says, and
  an acceptance is of the contracts that now stand. Its linter must return, and report
  what is wrong, on every tree a hand edit or a merge can leave.
* **Viewer.** A buffer, the file, what the buffer believes of the file, and answers that
  are late. Correct means unsaved work goes only when the user lets it go.
* **Snapshots.** `mutate` emits and saves after it unlocks. Not modelled yet (section 7).

## 2. The modules

| Module | Models | Proofs |
|---|---|---|
| `ShellState` | `S/shell_state.rs`, the parts of `S/layout.rs` it needs, closing of windows, load-time pruning | `ShellState_proofs` |
| `PtyStream` | what a terminal's output promises whoever watches it (abstract) | |
| `PtyBacklog` | `S/pty.rs` and `terminals.ts`; implements `PtyStream` | `PtyBacklog_proofs` |
| `ToolCalls` | `crates/kaava-rpc/src/host.rs` | `ToolCalls_proofs` |
| `PluginCores` | `S/plugins/broker.rs`, `mod.rs`, `install.rs`, `watch.rs` | `PluginCores_proofs` |
| `DesignGraph`, `DesignLint` | `crates/schematify-core`: `graph.rs`; `lint.rs`, `load.rs`, `slug.rs` | `DesignLint_proofs` |
| `DesignStore` | `S/apps/schematify.rs` over `store.rs`, `lifecycle.rs`, `ingest.rs` | `DesignStore_proofs` |
| `UserData` | `S/userdata/` and how its owners save | `UserData_proofs` |
| `PaneTree`, `Presets`, `Arrangement` | `S/layout.rs`; `S/presets/mod.rs`; one cluster in `S/shell_state.rs` and `S/commands.rs` | |
| `OpenFiles` | `apps/viewer/ui/src/tabs/useOpenFiles.ts`, `TextViewer.tsx`, over `S/apps/files.rs` | `OpenFiles_proofs` |
| `MC…` | values of the constants for TLC | |

### ShellState

One action per mutator of `ShellState`; every one ends in `Reseat`, the repair that
`mutate` runs after each closure (`reseat_active_terminals`). Commands run on the main
thread under one lock, so an action is atomic; the exception, a worker that opens a
terminal for a preset, is split into two (`WorkerSpawn`, `WorkerAdd`) and its closing
race is a switch. A tree is abstracted to its set of panes and each pane to its set of
tabs; "the first" of a list becomes "any". A terminal keeps `clusterOf` (its band)
apart from the pane that draws it, as the code does. `Restart` saves, loads, prunes
what is unreachable, drops terminals and derives the counters again.

Five switches separate behaviour the rest of the code normally excludes. With each
one on, this is what fails, every other checked state predicate still holding:

| Switch | What it admits | What fails under it | Configuration |
|---|---|---|---|
| `StaleDrops` | a drop names a surface that was closed while it was dragged (`move_instance` does not ask) | `TabsResolve` | |
| `OwnEdgeDrops` | a pane's only tab is dropped on that pane's own edge | `InstancesPlaced` | `ShellOwnEdge.cfg` |
| `ForeignCloses` | a cluster closes while another draws one of its terminals | `TabsResolve` | `ShellForeignClose.cfg` |
| `WorkerSpawns` | the cluster closes between a worker's two steps | `TerminalsReachable` | `ShellTerminals.cfg` with this switch |
| `Restarts` | not a fault: quitting and coming back | nothing | |

So the run of each of these properties does not catch the fault of its row: it shows that
nothing else breaks the property. `ShellLayout` runs with `WorkerSpawns` on, `ShellTerminals` with
`OwnEdgeDrops` and `ForeignCloses`, both with `Restarts`; all four faults are on in
`ShellRough.cfg`, without restarts. The theorems of the first part of `ShellState_proofs`
(types, layout) leave the switches free; those of the second (what the trees draw) name
the ones they need off (section 5).

No property is of the selections themselves: `Reseat` computes them anew at the end of every
action, so that they are right holds by its definition. What the code does not keep is in
`BandInAnyWindow.cfg`: `Cluster::tree`'s doc (`S/shell_state.rs:134`) says a terminal is in its
band unless it is in a tree "in any window", and so never drawn twice; `reseat_active_terminals`
looks at the trees of the band's own window, so a terminal dragged into another window is in its
band too, and `BandOrTree` fails.

### PtyBacklog and PtyStream

The pump's two steps, store under the lock (`Read`) and emit after it (`Emit`), are two
actions. A view's life is `Mount`, `ListenData` and `ListenExit` (two calls that may
be served before or after each other and before or after its attach), `Attach`,
`CatchUp`, `Hear`, `HearExit`, `Unmount`. A chunk is its sequence number; a byte is one
of four kinds, so that decoding (`ValidUpTo`) is what the code's `valid_up_to` does.
`PtyStream` says only: chunks are said one after another, and each view shows a run of
consecutive ones. `ShowsTheStream` is the refinement, with `said` mapped to the
backlog's next number and `shown` to itself.

`ListensInOrder` states that both `listen` calls of a view are served before its
attach. Without it `ExitReaps` fails: the exit falls between attach and listener. The
frontend awaits only the data listener, so this is an assumption about the order in
which the framework serves calls it was sent in order.

`PendingIsATail` (what is held back is less than one character) is of streams that are text.
One byte that is not UTF-8 is held back with everything after it (`PtyGarbled.cfg`).

### ToolCalls

A call is `Register` (sender into the table), `Write`, then `Receive`, or `GiveUp` at
the timeout, or `Withdraw` when the write fails. The calls in `Closers` are those
`shutdown` makes, which go on to `Reap` and `Kill`. The reader takes one line at a time
(`ReadLine`), removes the sender (`Claimed`) and sends outside the lock (`Deliver`); at
the end of the stream it empties the table (`Sweep`) and fails what it held (`Strand`).
The tool is external: it reads, answers in any order, twice or never, and exits at any
moment, after which its two streams close. `StdinClosesFirst` is the order in which
Linux closes the descriptors of a process that ends; `NobodyForgotten` needs it: were
stdout to close first, a call could be written after the sweep to a pipe nobody reads
and wait for its timeout. `GarbledLines` lets the tool say a line that is not UTF-8; it fails
every call under way as if the tool had exited (`ExitedMeansExited`, in `ToolStuck.cfg` with this
switch and a pipe of 3).

The pipe to the tool holds `Capacity` requests, and a write to a full one waits, under the lock
of all writes, before the clock of the call has started. So `CallsReturn`, what the doc of
`call_timeout` says, fails (`ToolStuck.cfg`) for a tool that lives and does not read. What does
hold, in the same instance, run `ToolAnswers`, is `WrittenReturns`: a call whose request is in
the pipe returns whatever the tool does, and the end of the tool frees those still blocked.

### PluginCores

Everything in the broker, the registry and the watches is keyed by package id, so one
package stands for all. A call is `Call` (look in the map), `Locate` (ask the
registry), `Start`, `Greet` or `GreetFails`, then `Land` or `LandSecond` and `Yield`,
and `Return`; no lock is held between two of these. An operation on the installed set
is a script of steps (`InstallScript`, `UninstallScript`, …) run by the main thread, by
a worker or by a watch's thread; `stop` is two steps (take out of the map, shut down),
`changed` is two (read what is wanted, apply it under the lock). `Crash` ends a process
without telling the map, as the code does: a crashed core stays in the map, and every
call to it fails, until something stops it. `watch.sees` says which directories a
watch is of; a directory that is deleted blinds it. `uninstall` forgets the record and deletes
the directory after (`Remove`, `Discard`), with no lock over both: a release that a worker puts
there in between is recorded and has no files.

`late` and `overtaken` are history: they mark cores whose start a stop ran past. The
code cannot tell them apart (it has no generation), and `OldBuildGoes` excepts them.

### DesignGraph and DesignLint

`DesignGraph` is pure: a graph is a record, a walk an operator; identifiers are numbers in
the order of their UUIDs, so "lowest" and "first" are what they are in the code.
`DesignLint` has the linter's thirteen rules, the loader's quarantine and its slug claims,
over a tree `g` that one action at a time changes: calls of the app, and the hand edits
and merges that leave parents closed on themselves, edges from nodes that have no file,
caches that are out of date. Every state is a tree, and each invariant compares two
computations of one thing: a walk down with a walk up, a lowest common ancestor with its
definition by reachability, Kosaraju's components with mutual reachability. A kind of node that the
code calls custom is not told apart from another of its facet: no rule here asks.

What may dangle is in the code twice, and so it is here: the linter's list (`Dangling…`, one
operator for each of its rules) and the loader's (`…Quarantined`, `…Problems`, together
`ResolveReferences`). They differ. The source of a stale mark is L06 for the linter
(`lint.rs:1047`) and nothing for the loader, whose doc says it resolves every stored reference: 
`EveryRowQuarantined`, put into `DesignGraph.cfg`, fails. And the loader reads a field by its name
whatever the node's kind, the linter by the kind. `QuarantineIsLinted` says that there is no
third difference: of what is live and of its kind, the two lists agree but for that source.

A loop of the code is `Loop(step)`: `step` is a function on the states of the loop, one
application is one round, and the loop ends when a round changes nothing. `Gather` (a queue and
what was seen), `Climb` (up the parents), `DepthFirst` (a path, what each node has yet to
enter, the order of finishing), Kosaraju's second pass and `shortest_cycle`'s breadth-first
search are such loops. Nothing is recursive in the module itself, which is what lets it be
proved about.

`LintReturns` fails (run `LintHangs`): `shortest_cycle` overwrites a predecessor on a second
visit, and the way back may go round for ever. `CyclesAreReported` is therefore of trees the
search returns from, and of dependencies that come from nodes: an edge whose source has
no file can join another component, lead it, and hide its cycle from L02, while
`dependency_cycle` still finds it. Also seen: the evidence of a cycle need not be its
shortest; and L10 may advise moving a shared node under itself or its own descendant.

### DesignStore

A call is a sequence of reads and of single-file writes, each its own action, since calls
run on threads of their own and the code holds no lock between them. Any write may fail
(`Fault`, which leaves its file: the write is a rename) and the process may end (`Exit`).
`write_transition` puts the node back when its audit row cannot be written. A failure that
the code reports about a file, and two calls at work on one file, put the file into
`excused`; the properties are of all other files. `seen` is history: the contracts an
acceptance was made against. `load_project` is one step. `session` picks which kinds of
calls one behaviour makes.

`write-node` writes whole the copy its caller loaded, however old. When that puts back a
lifecycle, a mark or a cache that others have written since (`Undoes`), the node is excused as
well, so the properties say: the caller that sends an older copy harms that one node only. What it
does to it is in `StaleReview.cfg`: an edit takes a node from `stale` back to accepted with
no review and no row, against "nothing else does" of `store.rs`.

What overlapping or failing calls do lose, all excused: two whole-node writes of one node;
an edge's cache of screens, though the comment on `write_edge` says it never drifts; a run
file ingested twice under one number, though `ingest.rs` says one on disk is never
overwritten; and the rest of a cascade that stopped half-way, which a retry does not take
up, since the contract no longer differs (`RetryHeals.cfg`).

### UserData

One file of the config directory over several launches, each of a build of either format.
`read` keeps aside what it cannot parse or what is newer than the build, or does not,
as its store asks; `write` is `create`, `write_all`, `rename`, each of which may fail or be
the last thing the process does; the temporary name is one per process, so two threads of a
process share it. The five stores of `MCUserData` are the ways its owners save: under
their lock, from a copy taken after it is released, or by reading the file again for each
change, from one thread or two. Adoption moves the entries of a superseded directory one by one.

`owed` is what completed saves put on disk and the user did not take out since. `NothingLost`
counts out a file whose read failed (it is read as the default, and the next save replaces it:
`S/userdata/store.rs:80`), a damaged file of a store that keeps none, and what rotation dropped.
`FileFollowsMemory` counts out a launch in which two saves overlapped: of two threads of one
store, the one that took its copy first may be renamed last. A document that goes back and forth
between two builds does not come back by itself (`DowngradeLoop.cfg`): the newer build finds its
own copy only while no file was written in its place. `settings/` drops keys it does not declare,
by design.

### PaneTree, Presets and Arrangement

`PaneTree` is `layout.rs` as operators: leaves with ordered tabs, splits with shares as
whole-number weights, `normalize` with its floor, `prune` with its flattening. `Presets`
captures a tree, normalises what a file may hold, and plans: surfaces claim slots in order,
what is left over goes into the last pane, what is missing is a gap. `Arrangement` has one
cluster, the commands of the main thread and the worker of `project::open`, which lays its
preset out and fills its gaps one mutation at a time (`fill_preset_gaps`, `Land`,
`SkipGap`) while commands go on. It is to `ShellState` what the exact tree is to a set:
terminals outside a tree, windows and clusters are left to that module.

`GapsLandWhereReserved` fails (`PresetGaps.cfg`) for presets that stack surfaces in one pane,
and `PresetRealised` is of those that do not. `BareEdgeDrops` admits `ShellOwnEdge`'s drop in
the exact tree: on the edge of an empty pane, too, the target is pruned and the surface
lost. A drop or auto-split does not prune, so the header's "no split inside a split of the same
direction" (`layout.rs:14`) does not hold until the next removal. A capture may hold a slot
for Home, which laying out then dismisses if its pane is shared. An entry of a hand-edited
`presets.json` that the merge drops can be saved into by its name and never be listed.

### OpenFiles

Files of one folder, a tab and a buffer for each, the one mounted viewer, saves and stat
calls in flight, a rename that the window hears of after it happened, a delete from its question
on, and whoever else writes the files (`OutsideWrite`, `OutsideDelete`: other windows, terminals,
agents). A save is its steps: check the time, rename into place, read the new time, answer.
A delete is asked (`DeleteAsked`; `DeleteUnasked` where the setting skips the question for what is
clean, or another Viewer asked), confirmed of the unsaved work its bar then names, done or failed,
and heard; one is in flight at a time.
`held` and `knows` are history: the texts a file has held, and the ones a buffer's user has
read, written or agreed to replace. React's commit is one step with its handler; times are
distinct; the tab that shows after a close is any other. The Explorer hears which buffers are
unsaved one message late; what that lets through is the race of typing under a delete.

`Races` names what is left out of the passing run, each because it makes a property fail:

| Race | Fails | Configuration |
|---|---|---|
| typing in a buffer whose path a close is saving, closing over an older save | `AskedFirst` | run `CloseLosesTyping` |
| rename onto a tab, or onto a path that is still being saved (the one parked there loses its buffer) | `AskedFirst` | `RenameOntoTab.cfg` |
| rename during a save (the save recreates the old name) | `CleanWasStored` | `RenameOntoTab.cfg` with this race and `CleanWasStored` |
| typing in a buffer between the confirmation of its delete and the answer that drops it (`useDelete.ts:107`) | `AskedFirst` | `DeleteLosesTyping.cfg` |
| a delete asked about in another Viewer, whose question names that Viewer's own buffers only (`App.tsx:103`) | `AskedFirst` | `DeleteLosesTyping.cfg` with this race |
| rename onto a path whose delete is not answered (its answer drops what came there) | `AskedFirst` | none of its own |
| overwrite of a deleted file (no time to compare: `TextViewer.tsx:334`) | `ReplacesWhatItKnows` | `RenameOntoTab.cfg` with this race and `ReplacesWhatItKnows` |
| a writer during a save or a rename (the time is read after the rename) | `ReplacesWhatItKnows` | none of its own |

Two of these are wider than they look, because `drop(path)` and the answer of a save go by the
path and not by the buffer. A close that saves may outlive its tab (reload, discard and open
again): what is typed in the new buffer before the old answer comes is dropped with it. A rename
onto a path whose tab is gone but whose closing save is not answered ends the same way. The search
for the inductive invariant of `AskedFirst` found both, and the rename onto a delete; no run is long
enough to reach them. That a rename heard here merges two tabs into one happens only in the races of
a rename onto a tab.

Without any race, `open()` of a file already open takes over the new time without comparing
it, so that no later poll sees the change (`ReopenHides.cfg`, against the header of
`useOpenFiles.ts`); and once a poll has seen a file missing, none sees it come back.

## 3. The runs

Each run answers one question; state counts are of the complete search.

| Run | Question | Bounds | States |
|---|---|---|---|
| `ShellLayout` | do windows, clusters, panes and surfaces stay consistent through every operation and a restart? | 2 windows, 2 clusters, 3 panes, 2 surfaces of one app, 1 takeover, 1 terminal | 141,624 |
| `ShellTerminals` | are terminals reachable, whatever is dropped, closed or restarted? | 2 windows, 2 clusters, 2 panes, 2 terminals | 23,839 |
| `PtyDelivery` | does each view show the stream, all of it, and is an ended session closed? | 2 views, 3 chunks, a two-byte character between two others, budget 3 | 153,896 |
| `ToolAnswers` | is a call sent one message at most, and does each that is written return? | 2 calls and a shutdown, 2 lines, a pipe of 1 | 113,817 |
| `PluginCores` | does one core answer, with none left over and no old build? | 2 calls, 2 builds, 2 processes, 2 operations on two threads, 2 watch threads | 1,802,871 |
| `DesignGraph` | do the walks, the linter and the loader agree on every broken tree? | 4 nodes (2 services, one nested; a module; a contract method), 1 screen, 1 library, 2 decisions, a flow, 4 changes | 94,864 |
| `DesignStore` | do history, reviews, caches and decisions survive failures and restarts? | 2 threads, 3 calls, 2 dependents of a service, 2 faults | 1,220,003 |
| `UserFiles` | is anything saved ever lost, or a file torn? | 2 threads, 2 builds, 3 launches, 2 changes, 2 faults, 2 backups, 5 kinds of store | 3,645,717 |
| `Arrangement` | does a cluster keep each surface once, fill its holes and realise its presets? | 5 starting trees, 2 or 3 commands and a worker, 2 saves | 136,960 |
| `OpenFiles` | does unsaved work go only when its user lets it go? | 2 files, 4 texts, 2 stat calls, 4 kinds of session of 3 or 4 gestures | 2,490,665 |

Two more runs are expected to be violated. Each checks a sentence of a comment that the code
contradicts, quoted in its entry of `findings`:

| Run | What fails |
|---|---|
| `LintHangs` (bounds of `DesignGraph`) | `LintReturns`: the linter goes round in two cycles that share a node |
| `CloseLosesTyping` (bounds of `OpenFiles`) | `AskedFirst`: a save answers a close while the user types on |

Why these bounds: every property relates at most two clusters, panes, surfaces, views, calls,
processes, threads or files, and each bound lets two of them exist while a third is created or
destroyed. Two windows are needed for detach and merge; three panes for pruning a split inside a
split; two terminals for one in the band and one in a tree; three chunks to trim one while one is
stored and one is on its way; two lines for two answers to one call; a pipe of one request, so
that two calls fill it; two builds and two processes for an old one and a new one; three launches
for a build to come back after another; three calls for two that overlap and a retry; four nodes
for a cycle, an entry to it and a node outside. `MaxAutoPanes` is 3 or 2 (the code's 4 needs a
larger tree and tells nothing apart), `PER_STEM` 2 for 3. Symmetry is used over threads,
dependents, rows and files that no property tells apart (`PluginCores`, `DesignStore`,
`OpenFiles`); no liveness is checked there. Deadlock checking is off everywhere: bounded ids and
operations run out, sessions and tools end.

Configurations kept beside the runs and run by hand (`<cfg>`, MC module):

| Configuration | Shows |
|---|---|
| `ShellRough` (MCShellState) | holds: types, trees, one drawing of each surface, a shown cluster and its neighbour, with every fault on and no restart |
| `ToolFurther`, `ArrangementFurther` | hold: the types and the smaller invariants of those modules, `ExitReleases` and `DropEnds` |
| `ShellForeignClose`, `ShellOwnEdge` (MCShellState) | `TabsResolve` fails: a terminal's tab outlives it (`S/shell_state.rs:848` against 1778); `InstancesPlaced` fails: a drop loses what was dragged (1326 against 1282) |
| `BandInAnyWindow` (MCShellState) | `BandOrTree` fails: a terminal is drawn in its band and in another window |
| `PtyGarbled` (MCPtyBacklog) | `PendingIsATail` fails: one byte that is not UTF-8 silences a terminal (`S/pty.rs:487` against 462) |
| `ToolStuck` (MCToolCalls) | `CallsReturn` fails: a call outlives its budget in a blocking write |
| `PluginRebuild` (MCPluginCores) | `RebuildReloads` fails: a watch made before the first build never sees one |
| `StaleReview`, `RetryHeals` (MCDesignStore) | an edit undoes a lifecycle move; a retry does not resume a cascade |
| `DowngradeLoop` (MCUserData) | an older build's visit hides what the newer one had |
| `PresetGaps` (MCArrangement) | a stacked preset's surface lands in another pane |
| `DeleteLosesTyping`, `ReopenHides`, `RenameOntoTab` (MCOpenFiles) | see section 2 |

## 4. Fairness

Liveness is checked in `PtyDelivery` and `ToolAnswers` only, under weak fairness of what
the program or the operating system does by itself:

* `PtyBacklog`: the pump emits, sees the end of file and announces the exit; the
  framework serves the calls and events already sent. Not assumed: that the shell says
  anything or ends, that a user mounts or closes a view. The code justifies it: each is a
  step of a loop or a request that is already queued, and no lock is held for ever.
* `ToolCalls`: each thread goes on, a process that has ended loses its streams, the grace of
  `shutdown` runs out. Not assumed: that the tool reads, answers or exits. That the budget of a
  call runs out is the premise (`Timers`) of `CallsReturn` and `WrittenReturns` alone, so that
  `ExitReleases` shows a call freed by the exit and not by its clock.

## 5. What is proved

Each theorem is of the unbounded specification: any values of the constants that satisfy the named
assumptions of its module. Those type the constants (`ConstantsAssumption`, `BacklogAssumption`,
`CallsAssumption`, `CoresAssumption`, `BoundsAreNat`, `BoundsArePlain`, `FormatsAreOneUp`,
`GraphAssumption`, `LintAssumption`), keep names apart (`IdsDiffer`, `NoneIsNothing`), or say that
rotation keeps a backup (`OneIsKept`: `PER_STEM` is not 0). A theorem that needs more says so in
its `ASSUME`, and below. Symmetry and fairness play no part. Each inductive invariant was checked
by TLC, on the instance of the module's run, before it was proved; those of `OpenFiles` also by
simulation, in sessions of all kinds of gestures and up to fourteen of them, with the races each
one allows.

* **ShellState_proofs.** `TypeCorrect`, one lemma per action. `LayoutHolds`: `IdsUnique`
  alone is not inductive. That a minted id is new needs `LayoutCounted` (counters bound
  what is live); that an id of something closed brings nothing back needs
  `ClosedIsEmpty`; that closing a window hands its clusters to one that is there needs
  `MainStays`; that a cluster never loses its last pane is `TreesStand`. From it:
  `LayoutIdsUnique` (no cluster in two windows, no pane in two trees), `WindowsShowTheirOwn`,
  `TreesAlwaysStand`. All hold whatever the switches are. That no id in use is about to be
  minted is `NothingRemintedEver`, of the second part.
* **ShellState_proofs**, second part. `TabsHold`: no surface is in two panes (`Spread`), only
  panes of live trees hold any (`Covered`), a worker's terminal that is still to be added is known
  to nobody (`SpawnsAreNew`), every id that is live, drawn or being spawned is below the counters
  (`KnownCounted`), and a tab that is no terminal is of an app's instance (`InstancesAreApps`).
  Trees and tabs change together in most actions, so the lemmas are about the pair: what taking
  tabs out, moving one, dissolving a pane does to `Spread` and `Covered`. From it
  `DrawnOnceAlways`, `NothingRemintedEver` and `WindowsNeverLose`, which assume `Restarts => Calm`
  (`Calm`: neither `StaleDrops` nor `ForeignCloses`): a restart with a tab of something that is
  gone would mint its id again. `TabsAlwaysResolve` assumes `Calm` outright and
  `InstancesAlwaysPlaced` also `~OwnEdgeDrops`: the switches the table of section 2 shows to
  matter, and no others. `TerminalsAlwaysReachable` has an invariant of its own (`ReachInv`) and
  assumes `~WorkerSpawns`; `ArrivalsAlwaysDismiss` assumes nothing.
* **PtyBacklog_proofs.** `DeliveryHolds`: the chunks below `Sent` have been emitted to
  whoever listened; what is queued for a view is a run that ends there (`EventsFollow`);
  the backlog handed to a view meets that run without a gap (`RepliesMeet`); what was
  shown ends where the next event goes on (`ShownMeets`). From it `SessionTypeCorrect`
  and `ShowsTheStreamAlways`, the refinement `Spec => PtyStream`: each step says a chunk,
  shows a run, or changes nothing the abstract specification sees. No assumption on the
  bytes or on `ListensInOrder` is used. `HistoryAlwaysKept` needs `HistoryInv`: a backlog that
  was never trimmed begins at the first chunk, and so does what a view was handed from it
  or hears before. `PendingAlwaysATail` assumes that the streams are text, and rests on
  `AtACharacter`: what is still to be read begins where what is held back ends, inside one
  character at most.
* **ToolCalls_proofs.** `CallsInv`: a sender is in one place (table, reader's hands, or
  used), what the tool says was asked by a call that has written, the streams close
  after the end of the process and the reader stops after them. From it
  `CallsTypeCorrect`, `EntriesAwaitedAlways`, `SentOnceAlways`,
  `AnswersFindTheirCallAlways`; `ExitedMeansExitedAlways` assumes lines are text, and
  `NobodyForgottenAlways` also that stdin closes first, exactly the two conditions
  whose failure the models show to matter.
* **PluginCores_proofs.** `CoresInv`: a process that has not landed is known to the call
  that started it and to nobody else (`StartsAreOwn`), a call's stage tells which
  processes it has (`StagesAgree`), and what a stop has taken out of the map is ended by
  the next step of its script (`StopsGoOn`). From it `CoresTypeCorrect`,
  `CallsReachOneAlways`, `NoneWastedAlways`, `MapNotStoppedAlways`. `OldBuildAlwaysGoes` adds
  `OldInv`: a stale core in the map, or a start of a stale build, has an event or a stop still
  to come or was run past by one (`ReloadInv`). That a script which ends early drops no stop that is
  owed, and that a folder is recorded only before a stop, is `ScriptsOrdered`; that a watch of a
  release sees only the release it was made of, so that it alone never reports a stale
  core, is `WatchInv`.
* **DesignStore_proofs.** `BaseHolds`: each call in flight is in a state its handler goes through,
  and two calls are at work on one file only when it is excused; every other invariant is of the
  files that are not, and is disturbed by the one call that has the file. `RowInv` ties a
  supersession's two writes together (`ChainAlwaysHolds`); with `MoveInv` and `RunInv` it gives
  the action property `NothingRewritten`. `CacheInv`, `HistoryInv` and `ReviewInv` say what is
  true between the writes of a call, whichever of them was the last: from them
  `CacheAlwaysMatches`, `HistoryAlwaysTells` and `ReviewsAlwaysCurrent`. A caller may send back a
  copy of any age, as the code lets it: the step that writes it excuses the node when the copy
  differs from the file in more than its contract (`Undoes`), and the invariants follow for all
  the others from the copy being, but for its contract, what the file holds. No assumption on
  callers is left.
* **UserData_proofs.** `SavesInv`: until two saves of one process overlap, the temporary file is
  the one save's own (`OwnTemp`), and its content is what the save took from memory (`Stages`).
  From it `AlwaysWholeOrMixed` and `FileAlwaysFollows`; `OneWriterNeverMixes` says that stores
  which save under their lock or from one thread never overlap, so that the exception is
  of the others. `NothingEverLost` rests on `Owing`: what the next save does not write, it does
  not replace either, or a copy was set aside. No theorem assumes anything of how a store saves.
* **OpenFiles_proofs.** `Shape` says what belongs together: a buffer has a tab, the viewer shows a
  tab, a save holds a buffer that is there and tells only the viewer that mounted. With `TypeOK`
  it is inductive whatever races (`OpenFilesTypeCorrect`). Over it stand three invariants, and
  each theorem excludes only the races that break its own. `Stay` (a save keeps to its path, a
  file under a rename is not being saved) needs no rename during a save and no writer during a
  rename. `CleanAlwaysStored` adds `Stored`: what counts as saved, was read or was written is
  among the texts its file has held. `AskedAlways` adds `Asked`: the new path of a rename is
  nobody's, a viewer that reads has no buffer to lose, a save that closes its tab writes what the
  buffer holds, no rename is onto a path under a delete (`NothingOnto`), and the buffer of a
  delete that was sent holds what its bar named or what its file has held (`NamedAsSent`). It also
  excludes the two races of a close, the rename onto a tab and the three of a delete, and leaves
  writers free. `KnowsWhatItReplaces` adds `Knows`: whoever holds a time (buffer, save, answer,
  conflict banner) knows every text on disk that has it, no two files have one time, and a check
  holds until the file is replaced; it excludes a writer during a save and the overwrite of a
  deleted file, and leaves the closes free.

* **DesignLint_proofs.** The inductive invariant is small (`Typed`: the tree is one of `Trees`), for
  the properties are of what the code computes from one tree: each is proved for every tree of any
  number of nodes, with all the cycles, gaps and stale references a hand edit leaves. The work is
  in the loops. A loop's function exists because what it reaches is a least set
  (`LoopEquation`); one whose rounds make a natural number smaller, or a pair or triple of them in
  order, ends, and what each round keeps holds there (`LoopRule`, by a least counterexample in
  place of induction). Over these:
  * `Gather` returns the least set that holds its start and is closed under the walk
    (`Gathered`), and `Climb` a chain whose set is the least closed one (`ChainIsLeast`).
    `WalksHold` and `SharedHold` (the lowest common ancestor; following L10's advice ends it)
    compare such sets; `QuarantineHolds` compares the linter's list of
    references with the loader's, rule by rule.
  * A walk depth first keeps `Deep`: its path leads down from a root, and what a node need not
    enter any more has been visited. One that stops at its own path also keeps `Settles`: what
    has finished leads only to what has finished, and never to itself.
  * In the order of Kosaraju's first pass, what a node depends on has finished before a later
    node, or leads to it (`Finishes`, `FirstPass`). In the second nothing left leads into what was taken
    (`Apart`) and all behind has been taken (`Behind`), so a component is taken whole and
    alone (`ComponentTaken`); those reported are those that hold a cycle (`ComponentsFound`).
  * `shortest_cycle`'s search keeps `Searching`: the predecessor of each node met was met and
    depends on it, and what was looked at has been met. So the search meets the start
    again, and when the way back from there ends, it is a cycle.

  From these `CyclesHold` and `CleanHolds`. Every invariant of the run `DesignGraph` is so a theorem.

## 6. What is only model-checked, and what is not modelled

Only checked by TLC: all liveness (`EverythingShown`, `ExitReaps`, `WrittenReturns`,
`ExitReleases`, `DropEnds`), which the proof system cannot do under fairness; `DrawnOnce` with stale
drops or foreign closes through a restart, where no theorem speaks. Also only by TLC: the properties
of `Arrangement`. Its trees are records within records, and `PaneTree`, `Presets` and `Arrangement`
build and take them apart with `RECURSIVE` operators (`prune`, `normalized`, `build_tree` ...), of
which `tlapm` proves nothing; induction over such data would need the library's theorems that
take an operator, which the provers cannot instantiate. `ShellState_proofs` proves for trees
of any size, abstracted to sets of panes and tabs, the counterpart of `EachDrawnOnce`
(`DrawnOnceAlways`, `TabsAlwaysResolve`); the order of panes and their shares are checked only. That
the linter returns is no theorem since it is false (`LintHangs`); that every other loop of
`DesignLint` ends is part of its proofs.

Not modelled, and why:

* no state other parts depend on: drawing, drag geometry, menus, titles and badges;
  choosing a shell, quoting, resizing a terminal; stderr and notifications of a tool
  (they reach no call); text of findings and rows; boot, diagnostics, devtools;
* pure work on one file or one process: manifest parsing, reconcile's comparison, settings'
  schema, git, search, GitHub, download and unpacking of a plugin, `write-layout` and the
  like, which replace one file each;
* of the Viewer: folders (flat paths only; a folder's rename is several at once), create,
  duplicate, copy, truncated and read-only files, viewers that are not text, the gap between
  `rename_at`'s check and its rename, which its comment admits;
* limits never reached in a run: the twenty recent projects, the code's `MaxAutoPanes`;
* still to come: snapshots emitted and saved after the unlock, the MCP registry, the updater,
  the trash, the bridge.

A large part of the repository is of the first two kinds (each of its larger Rust files is
also half tests), which is why the lines the modules map are a small share of it.

## 7. Plan

In order of how much a mistake would cost.

1. `LayoutSaved` — which of two snapshots the windows and the file keep when two threads
   mutate (`S/shell_state.rs:457`), on top of `UserData`'s write.
2. What the watches converge to when two syncs overlap (`S/plugins/watch.rs:56`), and exit
   (`stop_all`).
3. `ShellState` as the abstraction of `Arrangement`, cluster by cluster.
4. `EachDrawnOnce` of the exact trees as a theorem: `PaneTree` with its walks as loops over the
   leaves, as `DesignGraph` has them, in place of `RECURSIVE` operators.
5. The MCP registry, the updater, the trash.

The number of runs is kept at one per question: when a module is added, the runs of
modules it refines are merged with it rather than kept beside it.

## 8. Running it

    tlc -workers 2 -config ShellLayout.cfg MCShellState      # any run: <cfg> <MC module>
    tlapm PtyBacklog_proofs.tla                              # any *_proofs module

The runs take between one and three minutes each with two workers. Most proofs take a few minutes from
nothing; `DesignLint_proofs` takes about seven, and what was proved is remembered.
