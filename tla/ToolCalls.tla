----------------------------- MODULE ToolCalls ------------------------------
(***************************************************************************)
(* Calls to the core of a tool: a child process that speaks one line per   *)
(* message on its standard streams (crates/kaava-rpc/src/host.rs).  Each   *)
(* call runs on a thread of its own: it registers the sender of a channel  *)
(* under its id, writes its request and waits for the channel.  A reader   *)
(* thread takes lines off the tool's output and hands each answer to the   *)
(* sender registered for it.  What the tool itself does is external: it    *)
(* may answer in any order, twice or never, and it may exit at any moment. *)
(***************************************************************************)
EXTENDS Integers, Sequences

CONSTANTS
  Calls,            \* the ids `next_id` hands out, each to one call
  Closers,          \* those made by `shutdown`
  MaxLines,         \* bound on the lines the tool says
  Capacity,         \* how many requests fit in the pipe to the tool
  GarbledLines,     \* the tool may say a line that is not UTF-8
  StdinClosesFirst  \* the streams of a process that ends close in order

Noise == "noise"        \* a notification, a malformed line or an unknown id
Garbage == "garbage"    \* a line that is not UTF-8
Line == Calls \cup {Noise, Garbage}

ASSUME CallsAssumption ==
  /\ Closers \subseteq Calls /\ Noise \notin Calls /\ Garbage \notin Calls
  /\ MaxLines \in Nat /\ Capacity \in Nat
  /\ GarbledLines \in BOOLEAN /\ StdinClosesFirst \in BOOLEAN

VARIABLES
  pc,              \* pc[i]: how far call i has come
  chan,            \* chan[i]: what was sent on its channel
  pending,         \* the calls whose sender is registered
  stdin,           \* requests written that the tool has not read
  received,        \* requests the tool has read
  stdout,          \* lines the tool said that the reader has not read
  said,            \* how many lines it has said
  alive,           \* the tool's process runs
  stdinOpen, stdoutOpen,   \* the tool's ends of the pipes
  reader,          \* what the reader thread is at
  delivering,      \* the call whose sender it holds while "delivering"
  stranded,        \* the calls whose senders it holds while "sweeping"
  dropped          \* the handle has been dropped

toolVars == <<received, said, alive, stdinOpen, stdoutOpen>>
readerVars == <<reader, delivering, stranded>>
vars == <<pc, chan, pending, stdin, stdout, toolVars, readerVars, dropped>>

Init ==
  /\ pc = [i \in Calls |-> "idle"] /\ chan = [i \in Calls |-> <<>>]
  /\ pending = {} /\ stdin = <<>> /\ stdout = <<>>
  /\ received = {} /\ said = 0
  /\ alive = TRUE /\ stdinOpen = TRUE /\ stdoutOpen = TRUE
  /\ reader = "reading" /\ delivering = Noise /\ stranded = {}
  /\ dropped = FALSE

-----------------------------------------------------------------------------
(* A call *)

(* `call_timeout` registers its sender before it writes. *)
Registered_Late(i) == pending
Registered(i) == pending \cup {i}
Register(i) ==
  /\ pc[i] = "idle" /\ ~dropped
  /\ pending' = Registered(i)
  /\ pc' = [pc EXCEPT ![i] = "registered"]
  /\ UNCHANGED <<chan, stdin, stdout, toolVars, readerVars, dropped>>

(* The write blocks while the pipe is full, and fails when nobody can read. *)
Write(i) ==
  /\ pc[i] = "registered"
  /\ \/ /\ stdinOpen /\ Len(stdin) < Capacity
        /\ stdin' = Append(stdin, i)
        /\ pc' = [pc EXCEPT ![i] = "waiting"]
     \/ /\ ~stdinOpen
        /\ pc' = [pc EXCEPT ![i] = "failing"]
        /\ UNCHANGED stdin
  /\ UNCHANGED <<chan, pending, stdout, toolVars, readerVars, dropped>>

(* A call that is over returns; `shutdown` goes on to reap the process. *)
Over(i) == IF i \in Closers THEN "reaping" ELSE "done"

(* A call that ends unanswered takes its own entry out. *)
Withdrawn(i) == pending \ {i}
Withdraw(i) ==
  /\ pc[i] \in {"failing", "givingUp"}
  /\ pending' = Withdrawn(i)
  /\ pc' = [pc EXCEPT ![i] = Over(i)]
  /\ UNCHANGED <<chan, stdin, stdout, toolVars, readerVars, dropped>>

(* `recv_timeout` returns with what was sent, or without it. *)
Receive(i) ==
  /\ pc[i] = "waiting" /\ chan[i] # <<>>
  /\ pc' = [pc EXCEPT ![i] = Over(i)]
  /\ UNCHANGED <<chan, pending, stdin, stdout, toolVars, readerVars, dropped>>

GiveUp(i) ==
  /\ pc[i] = "waiting" /\ chan[i] = <<>>
  /\ pc' = [pc EXCEPT ![i] = "givingUp"]
  /\ UNCHANGED <<chan, pending, stdin, stdout, toolVars, readerVars, dropped>>

(* `shutdown` waits for the process to end, and kills it once it has       *)
(* waited long enough.                                                     *)
Reap(i) ==
  /\ pc[i] = "reaping" /\ ~alive /\ ~stdinOpen /\ ~stdoutOpen
  /\ pc' = [pc EXCEPT ![i] = "done"]
  /\ UNCHANGED <<chan, pending, stdin, stdout, toolVars, readerVars, dropped>>

AliveAfterGrace_Asked == alive
AliveAfterGrace == FALSE
Kill(i) ==
  /\ pc[i] = "reaping" /\ alive
  /\ alive' = AliveAfterGrace
  /\ UNCHANGED <<pc, chan, pending, stdin, stdout, received, said, stdinOpen, stdoutOpen,
                 readerVars, dropped>>

(* The last reference goes: kill, then join the reader. *)
AliveAfterDrop == FALSE
Drop ==
  /\ ~dropped /\ \A i \in Calls : pc[i] \in {"idle", "done"}
  /\ dropped' = TRUE /\ alive' = AliveAfterDrop
  /\ UNCHANGED <<pc, chan, pending, stdin, stdout, received, said, stdinOpen, stdoutOpen,
                 readerVars>>

-----------------------------------------------------------------------------
(* The reader thread *)

(* A line names a call that still waits for it; the sender found is taken  *)
(* out of the table.                                                       *)
Awaited(line) == line \in pending
Claimed_Kept(line) == pending
Claimed(line) == pending \ {line}
ReadLine ==
  /\ reader = "reading" /\ stdout # <<>> /\ Head(stdout) # Garbage
  /\ stdout' = Tail(stdout)
  /\ \/ /\ Awaited(Head(stdout))
        /\ pending' = Claimed(Head(stdout))
        /\ delivering' = Head(stdout) /\ reader' = "delivering"
     \/ ~Awaited(Head(stdout)) /\ UNCHANGED <<pending, delivering, reader>>
  /\ UNCHANGED <<pc, chan, stdin, toolVars, stranded, dropped>>

Deliver ==
  /\ reader = "delivering"
  /\ chan' = [chan EXCEPT ![delivering] = Append(@, "answer")]
  /\ reader' = "reading" /\ delivering' = Noise
  /\ UNCHANGED <<pc, pending, stdin, stdout, toolVars, stranded, dropped>>

(* The output ends, or cannot be read as text: every registered sender is  *)
(* taken at once.                                                          *)
OutputEnded == stdout = <<>> /\ ~stdoutOpen
Stranded_None == {}
Stranded == pending
Sweep ==
  /\ reader = "reading"
  /\ \/ OutputEnded
     \/ stdout # <<>> /\ Head(stdout) = Garbage
  /\ reader' = "sweeping"
  /\ stranded' = Stranded /\ pending' = {}
  /\ UNCHANGED <<pc, chan, stdin, stdout, toolVars, delivering, dropped>>

Strand(i) ==
  /\ i \in stranded
  /\ chan' = [chan EXCEPT ![i] = Append(@, "exited")]
  /\ stranded' = stranded \ {i}
  /\ UNCHANGED <<pc, pending, stdin, stdout, toolVars, reader, delivering, dropped>>

ReaderEnds ==
  /\ reader = "sweeping" /\ stranded = {}
  /\ reader' = "ended"
  /\ UNCHANGED <<pc, chan, pending, stdin, stdout, toolVars, delivering, stranded, dropped>>

-----------------------------------------------------------------------------
(* The tool, and the operating system when it ends *)

ToolReads ==
  /\ alive /\ stdin # <<>>
  /\ received' = received \cup {Head(stdin)} /\ stdin' = Tail(stdin)
  /\ UNCHANGED <<pc, chan, pending, stdout, said, alive, stdinOpen, stdoutOpen, readerVars,
                 dropped>>

ToolSays(line) ==
  /\ alive /\ said < MaxLines
  /\ line \in received \/ line = Noise \/ (line = Garbage /\ GarbledLines)
  /\ said' = said + 1 /\ stdout' = Append(stdout, line)
  /\ UNCHANGED <<pc, chan, pending, stdin, received, alive, stdinOpen, stdoutOpen, readerVars,
                 dropped>>

ToolExits ==
  /\ alive /\ alive' = FALSE
  /\ UNCHANGED <<pc, chan, pending, stdin, stdout, received, said, stdinOpen, stdoutOpen,
                 readerVars, dropped>>

CloseStdin ==
  /\ ~alive /\ stdinOpen
  /\ stdinOpen' = FALSE /\ stdin' = <<>>
  /\ UNCHANGED <<pc, chan, pending, stdout, received, said, alive, stdoutOpen, readerVars,
                 dropped>>

CloseStdout ==
  /\ ~alive /\ stdoutOpen /\ (StdinClosesFirst => ~stdinOpen)
  /\ stdoutOpen' = FALSE
  /\ UNCHANGED <<pc, chan, pending, stdin, stdout, received, said, alive, stdinOpen,
                 readerVars, dropped>>

-----------------------------------------------------------------------------

Next ==
  \/ \E i \in Calls :
       \/ Register(i) \/ Write(i) \/ Withdraw(i) \/ Receive(i) \/ GiveUp(i)
       \/ Reap(i) \/ Kill(i) \/ Strand(i)
  \/ \E line \in Line : ToolSays(line)
  \/ Drop \/ ReadLine \/ Deliver \/ Sweep \/ ReaderEnds
  \/ ToolReads \/ ToolExits \/ CloseStdin \/ CloseStdout

(* Threads run, a process that has ended loses its streams, and the grace  *)
(* of `shutdown` runs out.  Nothing is asked of the tool, nor of a caller  *)
(* that has not begun.                                                     *)
Fairness ==
  /\ \A i \in Calls :
       /\ WF_vars(Write(i)) /\ WF_vars(Withdraw(i)) /\ WF_vars(Receive(i))
       /\ WF_vars(Reap(i)) /\ WF_vars(Kill(i)) /\ WF_vars(Strand(i))
  /\ WF_vars(ReadLine) /\ WF_vars(Deliver) /\ WF_vars(Sweep) /\ WF_vars(ReaderEnds)
  /\ WF_vars(CloseStdin) /\ WF_vars(CloseStdout)

(* The budget of a call runs out. *)
Timers == \A i \in Calls : WF_vars(GiveUp(i))

Spec == Init /\ [][Next]_vars
FairSpec == Spec /\ Fairness

-----------------------------------------------------------------------------

Stage == {"idle", "registered", "waiting", "failing", "givingUp", "reaping", "done"}

(* Every variable holds what its declaration says. *)
TypeOK ==
  /\ pc \in [Calls -> Stage] /\ chan \in [Calls -> Seq({"answer", "exited"})]
  /\ pending \subseteq Calls /\ stranded \subseteq Calls /\ received \subseteq Calls
  /\ stdin \in Seq(Calls) /\ stdout \in Seq(Line) /\ said \in 0..MaxLines
  /\ {alive, stdinOpen, stdoutOpen, dropped} \subseteq BOOLEAN
  /\ reader \in {"reading", "delivering", "sweeping", "ended"}
  /\ delivering \in Line
  /\ reader = "delivering" => delivering \in Calls

(* The table holds no sender of a call that has returned: it does not grow *)
(* by one with every timeout "for the life of the process".                *)
EntriesAwaited ==
  \A i \in pending : pc[i] \in {"registered", "waiting", "failing", "givingUp"}

(* However often the tool answers, and if it exits meanwhile, one message  *)
(* at most is sent to a call.                                              *)
SentOnce == \A i \in Calls : Len(chan[i]) <= 1

(* Once the end of the output has been swept, no call waits for a message  *)
(* that nobody is going to send.                                           *)
NobodyForgotten ==
  \A i \in Calls : reader \in {"sweeping", "ended"} /\ pc[i] = "waiting" =>
    i \in stranded \/ chan[i] # <<>>

(* A call is told that the tool has exited only if it has: one bad line    *)
(* does not fail every call under way.                                     *)
ExitedMeansExited == \A i \in Calls : chan[i] = <<"exited">> => ~alive

(* An answer that finds no sender is a second answer, or its caller had    *)
(* given up.                                                               *)
AnswersFindTheirCall ==
  [][\A i \in Calls \ pending :
       reader = "reading" /\ stdout # <<>> /\ Head(stdout) = i /\ stdout' = Tail(stdout) =>
         chan[i] # <<>> \/ pc[i] \in {"givingUp", "reaping", "done"}]_vars

(* A call returns once its budget runs out or the tool exits, and          *)
(* `shutdown` with the process gone: what the doc of `call_timeout` says.  *)
(* A tool that does not read its input holds a call in its write.          *)
CallsReturn == Timers => \A i \in Calls : (pc[i] = "registered") ~> (pc[i] = "done")

(* What the code does keep of it: a call whose request is in the pipe      *)
(* returns whatever the tool does, `shutdown` with the process gone, and   *)
(* the end of the tool also frees a call still blocked in its write.       *)
WrittenReturns ==
  Timers => \A i \in Calls :
    (pc[i] = "waiting" \/ (pc[i] = "registered" /\ ~alive)) ~> (pc[i] = "done")

(* A call under way when the tool exits returns without waiting for its    *)
(* budget to run out.                                                      *)
ExitReleases == \A i \in Calls : (~alive /\ pc[i] = "waiting") ~> (pc[i] # "waiting")

(* The handle can be dropped: the reader it joins comes to its end. *)
DropEnds == dropped ~> (reader = "ended")
=============================================================================
