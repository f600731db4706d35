----------------------------- MODULE PtyBacklog -----------------------------
(***************************************************************************)
(* The output of one terminal session on its way from the shell to the     *)
(* emulators that show it.  A pump thread reads bytes, decodes them and    *)
(* stores each chunk in the backlog; once an emulator has attached it also *)
(* emits the chunk as an event (src-tauri/src/pty.rs).  A view listens,    *)
(* attaches, catches up from the backlog and then follows the events       *)
(* (src/shell/state/terminals.ts).  The session is one: they share nothing *)
(* but the map they are kept in.                                           *)
(***************************************************************************)
EXTENDS Integers, Sequences

CONSTANTS
  MaxViews,        \* bound on the emulators that mount, one after another
  Streams,         \* what the shell may say: sequences of ByteKind
  MaxChunks,       \* bound on the chunks the pump stores
  Budget,          \* `BACKLOG_BYTES`
  ListensInOrder   \* both `listen` calls of a view are served before its attach

(* A byte is a character, or the first or second of a character of two, or *)
(* nothing UTF-8 knows.                                                    *)
ByteKind == {"single", "lead", "trail", "bad"}

ASSUME BacklogAssumption ==
  /\ MaxViews \in Nat /\ MaxChunks \in Nat /\ Budget \in Nat /\ ListensInOrder \in BOOLEAN
  /\ Streams \subseteq Seq(ByteKind)

Views == 1..MaxViews                       \* in the order they mount
Seqs == 0..(MaxChunks - 1)                 \* the numbers chunks carry

VARIABLES
  stream,          \* the bytes the shell will have said
  read,            \* how many of them the pump has read
  decoded,         \* how many of them it has turned into text
  oldest, next,    \* the backlog holds chunks oldest .. next - 1
  starts,          \* starts[s]: how many bytes were decoded before chunk s
  attached, exited,
  pump,            \* what the pump thread is at
  alive,           \* the shell is running
  inMap,           \* `PtySessions` holds the session
  closeSent,       \* a view has asked for the session to be closed
  stage,           \* stage[v]: how far view v has come
  exitOn,          \* exitOn[v]: its exit listener is registered
  events,          \* events[v]: the chunks emitted to it that it has not handled
  exitTold,        \* exitTold[v]: an exit event is on its way to it
  reply,           \* reply[v]: the answer to its attach
  cursor,          \* cursor[v]: the chunk its backlog ended at
  shown            \* shown[v]: the chunks it has shown

shellVars == <<stream, alive>>
pumpVars == <<read, decoded, pump>>
backlogVars == <<oldest, next, starts, attached, exited>>
sessionVars == <<inMap, closeSent>>
viewVars == <<stage, exitOn, events, exitTold, reply, cursor, shown>>
vars == <<shellVars, pumpVars, backlogVars, sessionVars, viewVars>>

NoReply == [from |-> 0, next |-> 0, exited |-> FALSE]

Init ==
  /\ stream \in Streams /\ alive = TRUE
  /\ read = 0 /\ decoded = 0 /\ pump = "reading"
  /\ oldest = 0 /\ next = 0 /\ starts = [s \in Seqs |-> 0]
  /\ attached = FALSE /\ exited = FALSE
  /\ inMap = TRUE /\ closeSent = FALSE
  /\ stage = [v \in Views |-> "new"]
  /\ exitOn = [v \in Views |-> FALSE]
  /\ events = [v \in Views |-> <<>>]
  /\ exitTold = [v \in Views |-> FALSE]
  /\ reply = [v \in Views |-> NoReply]
  /\ cursor = [v \in Views |-> 0]
  /\ shown = [v \in Views |-> <<>>]

-----------------------------------------------------------------------------
(* The pump *)

(* Bytes decoded + 1 .. n are whole characters. *)
Whole(n) ==
  \A i \in (decoded + 1)..n :
    \/ stream[i] = "single"
    \/ stream[i] = "lead" /\ i < n /\ stream[i + 1] = "trail"
    \/ stream[i] = "trail" /\ i > decoded + 1 /\ stream[i - 1] = "lead"

(* `valid_up_to`: the longest prefix of what is pending that decodes. *)
ValidUpTo(upto) ==
  CHOOSE n \in decoded..upto : Whole(n) /\ \A m \in (n + 1)..upto : ~Whole(m)

(* `push` stores chunk `next`, ending at byte n, and drops chunks from the *)
(* front while there are too many bytes and more than one chunk.           *)
Keeps_Less(s, n) == n - starts[s] < Budget
Keeps(s, n) == n - starts[s] <= Budget
Oldest(n) ==
  LET stays == {s \in oldest..next : s = next \/ Keeps(s, n)}
  IN CHOOSE s \in stays : \A t \in stays : s <= t

Push(n) ==
  /\ next < MaxChunks
  /\ starts' = [starts EXCEPT ![next] = decoded]
  /\ oldest' = Oldest(n)
  /\ next' = next + 1
  /\ decoded' = n
  /\ pump' = IF attached THEN "emitting" ELSE "reading"

(* One `read`: take some bytes, decode what can be, and store the text if  *)
(* there is any.  The lock is held for `push` alone.                       *)
Read(upto) ==
  /\ pump = "reading"
  /\ upto \in (read + 1)..Len(stream)
  /\ read' = upto
  /\ \/ ValidUpTo(upto) > decoded /\ Push(ValidUpTo(upto))
     \/ ValidUpTo(upto) = decoded /\ UNCHANGED <<decoded, pump, oldest, next, starts>>
  /\ UNCHANGED <<shellVars, attached, exited, sessionVars, viewVars>>

(* The views an event reaches: those whose listener is registered.  A view *)
(* that is not ready holds the chunk back (`queued`), as events[v] does.   *)
Listening == {v \in Views : stage[v] \in {"asking", "refused", "answered", "ready"}}

(* The chunk just stored, whose number was taken before it was counted.   *)
Emitted == next - 1

Emit ==
  /\ pump = "emitting"
  /\ pump' = "reading"
  /\ events' = [v \in Views |-> IF v \in Listening THEN Append(events[v], Emitted) ELSE events[v]]
  /\ UNCHANGED <<shellVars, read, decoded, backlogVars, sessionVars, stage, exitOn,
                 exitTold, reply, cursor, shown>>

(* End of file: the exit is recorded, then emitted. *)
EndOfFile ==
  /\ pump = "reading" /\ ~alive
  /\ pump' = "leaving"
  /\ exited' = TRUE
  /\ UNCHANGED <<shellVars, read, decoded, oldest, next, starts, attached, sessionVars, viewVars>>

EmitExit ==
  /\ pump = "leaving"
  /\ pump' = "ended"
  /\ exitTold' = [v \in Views |-> exitTold[v] \/ exitOn[v]]
  /\ UNCHANGED <<shellVars, read, decoded, backlogVars, sessionVars, stage, exitOn,
                 events, reply, cursor, shown>>

ShellExits ==
  /\ alive /\ alive' = FALSE
  /\ UNCHANGED <<stream, pumpVars, backlogVars, sessionVars, viewVars>>

-----------------------------------------------------------------------------
(* A view *)

Mounted(v) == stage[v] \notin {"new", "left", "gone"}

(* The effect runs: both `listen` calls go out. *)
Mount(v) ==
  /\ stage[v] = "new" /\ inMap
  /\ \A u \in 1..(v - 1) : stage[u] # "new"
  /\ stage' = [stage EXCEPT ![v] = "subscribing"]
  /\ UNCHANGED <<shellVars, pumpVars, backlogVars, sessionVars, exitOn, events, exitTold,
                 reply, cursor, shown>>

ListenExit(v) ==
  /\ Mounted(v) /\ ~exitOn[v]
  /\ exitOn' = [exitOn EXCEPT ![v] = TRUE]
  /\ UNCHANGED <<shellVars, pumpVars, backlogVars, sessionVars, stage, events, exitTold,
                 reply, cursor, shown>>

(* The data listener is registered, and the view asks to attach. *)
ListenData(v) ==
  /\ stage[v] = "subscribing"
  /\ stage' = [stage EXCEPT ![v] = "asking"]
  /\ UNCHANGED <<shellVars, pumpVars, backlogVars, sessionVars, exitOn, events, exitTold,
                 reply, cursor, shown>>

(* What `attach` answers: the backlog, and whether the shell is gone. *)
Attachment_Unrecorded == [from |-> oldest, next |-> next, exited |-> FALSE]
Attachment == [from |-> oldest, next |-> next, exited |-> exited]

(* The flag that lets `push` emit. *)
AttachedNow_Unset == attached
AttachedNow == TRUE

(* `attach` in the backend; the view may have unmounted meanwhile. *)
Attach(v) ==
  /\ stage[v] \in {"asking", "left"}
  /\ ListensInOrder /\ stage[v] = "asking" => exitOn[v]
  /\ IF inMap
     THEN /\ attached' = AttachedNow
          /\ reply' = [reply EXCEPT ![v] = Attachment]
          /\ stage' = [stage EXCEPT ![v] = IF @ = "left" THEN "gone" ELSE "answered"]
     ELSE /\ UNCHANGED <<attached, reply>>
          /\ stage' = [stage EXCEPT ![v] = IF @ = "left" THEN "gone" ELSE "refused"]
  /\ UNCHANGED <<shellVars, pumpVars, oldest, next, starts, exited, sessionVars, exitOn,
                 events, exitTold, cursor, shown>>

(* The answer arrives: show the backlog, and close a session already over. *)
CatchUp(v) ==
  /\ stage[v] = "answered"
  /\ stage' = [stage EXCEPT ![v] = "ready"]
  /\ cursor' = [cursor EXCEPT ![v] = reply[v].next]
  /\ shown' = [shown EXCEPT ![v] =
       [i \in 1..(reply[v].next - reply[v].from) |-> reply[v].from + i - 1]]
  /\ closeSent' = (closeSent \/ reply[v].exited)
  /\ UNCHANGED <<shellVars, pumpVars, backlogVars, inMap, exitOn, events, exitTold, reply>>

(* A chunk is shown unless the backlog already held it. *)
IsNew_Any(v, s) == TRUE
IsNew(v, s) == s >= cursor[v]
Hear(v) ==
  /\ stage[v] = "ready" /\ events[v] # <<>>
  /\ events' = [events EXCEPT ![v] = Tail(@)]
  /\ shown' = [shown EXCEPT ![v] = IF IsNew(v, Head(events[v])) THEN Append(@, Head(events[v])) ELSE @]
  /\ UNCHANGED <<shellVars, pumpVars, backlogVars, sessionVars, stage, exitOn, exitTold,
                 reply, cursor>>

HearExit(v) ==
  /\ exitTold[v]
  /\ exitTold' = [exitTold EXCEPT ![v] = FALSE]
  /\ closeSent' = (closeSent \/ Mounted(v))
  /\ UNCHANGED <<shellVars, pumpVars, backlogVars, inMap, stage, exitOn, events, reply,
                 cursor, shown>>

(* The tab is dragged to another window, or is no longer on screen. *)
Unmount(v) ==
  /\ Mounted(v)
  /\ stage' = [stage EXCEPT ![v] = IF @ = "asking" THEN "left" ELSE "gone"]
  /\ events' = [events EXCEPT ![v] = <<>>]
  /\ UNCHANGED <<shellVars, pumpVars, backlogVars, sessionVars, exitOn, exitTold, reply,
                 cursor, shown>>

(* The close button. *)
AskClose(v) ==
  /\ Mounted(v) /\ ~closeSent
  /\ closeSent' = TRUE
  /\ UNCHANGED <<shellVars, pumpVars, backlogVars, inMap, viewVars>>

(* `PtySessions::close`: out of the map, kill, wait. *)
Close ==
  /\ closeSent /\ inMap
  /\ inMap' = FALSE /\ alive' = FALSE
  /\ UNCHANGED <<stream, pumpVars, backlogVars, closeSent, viewVars>>

-----------------------------------------------------------------------------

Next ==
  \/ \E n \in 1..Len(stream) : Read(n)
  \/ Emit \/ EndOfFile \/ EmitExit \/ ShellExits \/ Close
  \/ \E v \in Views :
       \/ Mount(v) \/ ListenExit(v) \/ ListenData(v) \/ Attach(v) \/ CatchUp(v)
       \/ Hear(v) \/ HearExit(v) \/ Unmount(v) \/ AskClose(v)

(* The pump thread is scheduled, calls are answered and events delivered;  *)
(* the shell need not say anything or end, nor the user do anything.       *)
Fairness ==
  /\ WF_vars(Emit) /\ WF_vars(EndOfFile) /\ WF_vars(EmitExit) /\ WF_vars(Close)
  /\ \A v \in Views :
       /\ WF_vars(ListenExit(v)) /\ WF_vars(ListenData(v)) /\ WF_vars(Attach(v))
       /\ WF_vars(CatchUp(v)) /\ WF_vars(Hear(v)) /\ WF_vars(HearExit(v))

Spec == Init /\ [][Next]_vars
FairSpec == Spec /\ Fairness

-----------------------------------------------------------------------------

Stage == {"new", "subscribing", "asking", "answered", "ready", "refused", "left", "gone"}

(* Every variable holds what its declaration says. *)
TypeOK ==
  /\ stream \in Streams
  /\ read \in 0..Len(stream) /\ decoded \in 0..read
  /\ pump \in {"reading", "emitting", "leaving", "ended"}
  /\ next \in 0..MaxChunks /\ oldest \in 0..next
  /\ starts \in [Seqs -> Nat]
  /\ {attached, exited, alive, inMap, closeSent} \subseteq BOOLEAN
  /\ stage \in [Views -> Stage]
  /\ exitOn \in [Views -> BOOLEAN] /\ exitTold \in [Views -> BOOLEAN]
  /\ events \in [Views -> Seq(Seqs)]
  /\ reply \in [Views -> [from : Nat, next : Nat, exited : BOOLEAN]]
  /\ cursor \in [Views -> Nat]
  /\ shown \in [Views -> Seq(Seqs)]

(* What the pump holds back between two reads is the beginning of one      *)
(* character: "the incomplete tail waits here for the rest of itself to    *)
(* arrive" (`pump`).                                                       *)
PendingIsATail == read - decoded <= 1

(* A view that attaches before more was said than the backlog may hold     *)
(* shows the session from its first chunk on: the shell's opening question *)
(* is answered.                                                            *)
HistoryKept ==
  \A v \in Views : shown[v] # <<>> /\ decoded <= Budget => shown[v][1] = 0

(* Every view shows an unbroken run of the chunks, in order, none twice,   *)
(* however pushes, emits, attaches and answers interleave.                 *)
Promise == INSTANCE PtyStream WITH said <- next
ShowsTheStream == Promise!Spec

(* A chunk the backlog holds while a view is mounted reaches that view,    *)
(* unless it is trimmed before the view attaches or the tab goes.          *)
EverythingShown ==
  \A v \in Views, s \in Seqs :
    (Mounted(v) /\ oldest <= s /\ s < next) ~>
      \/ \E i \in 1..Len(shown[v]) : shown[v][i] = s
      \/ oldest > s \/ ~Mounted(v) \/ ~inMap

(* "A tab whose process died has to close either way" (`pump`): a session  *)
(* that ends while a view is mounted is closed.                            *)
ExitReaps == \A v \in Views : (exited /\ Mounted(v)) ~> (~inMap \/ ~Mounted(v))
=============================================================================
