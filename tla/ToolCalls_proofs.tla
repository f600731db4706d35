-------------------------- MODULE ToolCalls_proofs --------------------------
(***************************************************************************)
(* Proofs about ToolCalls, for any set of calls, any tool and any pipe.    *)
(***************************************************************************)
EXTENDS ToolCalls, SequenceTheorems, TLAPS

-----------------------------------------------------------------------------
(* The inductive invariant *)

(* A sender is in one place: in the table, in the reader's hands, or used. *)
Covered(i) ==
  \/ i \in pending \/ i \in stranded \/ chan[i] # <<>>
  \/ reader = "delivering" /\ delivering = i

SendersOnce ==
  /\ \A i \in pending : chan[i] = <<>> /\ i \notin stranded
  /\ \A i \in stranded : chan[i] = <<>>
  /\ reader = "delivering" => chan[delivering] = <<>> /\ delivering \notin pending
  /\ reader # "sweeping" => stranded = {}

SendersKept ==
  /\ \A i \in Calls : pc[i] = "idle" =>
       /\ chan[i] = <<>> /\ i \notin stranded
       /\ reader = "delivering" => delivering # i
  /\ \A i \in Calls : pc[i] \in {"registered", "waiting"} => Covered(i)

(* What the tool has read and said was asked by a call that has written. *)
Unwritten == {"idle", "registered", "failing"}
SpokenAfterWritten ==
  /\ \A i \in received : pc[i] \notin Unwritten
  /\ \A k \in 1..Len(stdin) : pc[stdin[k]] \notin Unwritten
  /\ \A k \in 1..Len(stdout) : stdout[k] \in Calls => stdout[k] \in received

(* The streams close when the process has ended, and the reader stops when *)
(* they have.                                                              *)
StreamsClose ==
  /\ ~stdinOpen \/ ~stdoutOpen => ~alive
  /\ StdinClosesFirst /\ ~stdoutOpen => ~stdinOpen

ReaderStops ==
  ~GarbledLines =>
    /\ \A k \in 1..Len(stdout) : stdout[k] # Garbage
    /\ reader \in {"sweeping", "ended"} => ~stdoutOpen
    /\ ExitedMeansExited
    /\ StdinClosesFirst => NobodyForgotten

IInv ==
  /\ TypeOK /\ EntriesAwaited /\ SentOnce /\ SendersOnce /\ SendersKept
  /\ SpokenAfterWritten /\ StreamsClose /\ ReaderStops

-----------------------------------------------------------------------------
(* Every step keeps it *)

(* A call that registers its sender has been sent nothing yet. *)
LEMMA RegisterKeeps ==
  ASSUME IInv, NEW i \in Calls, Register(i)
  PROVE  IInv'
<1> USE CallsAssumption DEF toolVars, readerVars, Register, Registered
<1>1. TypeOK'
  BY DEF TypeOK, Stage, IInv
<1>2. EntriesAwaited'
  BY DEF EntriesAwaited, TypeOK, IInv
<1>3. SentOnce'
  BY DEF SentOnce, IInv
<1>4. SendersOnce'
  BY DEF SendersOnce, IInv, SendersKept
<1>5. SendersKept'
  BY DEF SendersKept, Covered, IInv
<1>6. SpokenAfterWritten'
  BY DEF SpokenAfterWritten, Unwritten, IInv
<1>7. StreamsClose'
  BY DEF StreamsClose, IInv
<1>8. ReaderStops'
  BY DEF ReaderStops, ExitedMeansExited, NobodyForgotten, IInv
<1> QED BY <1>1, <1>2, <1>3, <1>4, <1>5, <1>6, <1>7, <1>8 DEF IInv

(* A write puts a request where the tool finds it, or fails; either way    *)
(* the sender stays where it is.                                           *)
LEMMA WriteKeeps ==
  ASSUME IInv, NEW i \in Calls, Write(i)
  PROVE  IInv'
<1> USE CallsAssumption DEF toolVars, readerVars, Write
<1>1. TypeOK'
  <2>1. pc' \in [Calls -> Stage]
    BY DEF TypeOK, Stage, IInv
  <2>2. stdin' \in Seq(Calls)
    <3>1. stdin \in Seq(Calls)
      BY DEF TypeOK, IInv
    <3> QED BY <3>1
  <2> QED BY <2>1, <2>2 DEF TypeOK, IInv
<1>2. EntriesAwaited'
  BY DEF EntriesAwaited, TypeOK, IInv
<1>3. SentOnce'
  BY DEF SentOnce, IInv
<1>4. SendersOnce'
  BY DEF SendersOnce, IInv
<1>5. SendersKept'
  BY DEF SendersKept, TypeOK, Covered, IInv
<1>6. SpokenAfterWritten'
  <2>1. stdin \in Seq(Calls) /\ Len(stdin) \in Nat /\ received \subseteq Calls
    BY DEF TypeOK, IInv
  <2>2. \A j \in Calls : pc[j] \notin Unwritten => pc'[j] \notin Unwritten
    BY DEF TypeOK, IInv, Unwritten
  <2>3. \A k \in 1..Len(stdin)' : pc'[stdin'[k]] \notin Unwritten
    <3>1. CASE UNCHANGED stdin
      BY <2>1, <2>2, <3>1 DEF SpokenAfterWritten, IInv
    <3>2. CASE stdin' = Append(stdin, i) /\ pc' = [pc EXCEPT ![i] = "waiting"]
      <4>1. pc'[i] \notin Unwritten
        BY <3>2 DEF TypeOK, IInv, Unwritten
      <4>2. \A k \in 1..Len(stdin') : (k \in 1..Len(stdin) /\ stdin'[k] = stdin[k]) \/ stdin'[k] = i
        BY <2>1, <3>2
      <4> QED BY <2>1, <2>2, <4>1, <4>2 DEF SpokenAfterWritten, IInv
    <3> QED BY <3>1, <3>2
  <2> QED BY <2>1, <2>2, <2>3 DEF SpokenAfterWritten, IInv
<1>7. StreamsClose'
  BY DEF StreamsClose, IInv
<1>8. ReaderStops'
  BY DEF ReaderStops, TypeOK, ExitedMeansExited, NobodyForgotten, IInv, StreamsClose
<1> QED BY <1>1, <1>2, <1>3, <1>4, <1>5, <1>6, <1>7, <1>8 DEF IInv

(* A call that ends unanswered takes out its entry and no other. *)
LEMMA WithdrawKeeps ==
  ASSUME IInv, NEW i \in Calls, Withdraw(i)
  PROVE  IInv'
<1> USE CallsAssumption DEF toolVars, readerVars, Withdraw, Withdrawn, Over
<1>1. TypeOK'
  BY DEF TypeOK, Stage, IInv
<1>2. EntriesAwaited'
  BY DEF EntriesAwaited, IInv
<1>3. SentOnce'
  BY DEF SentOnce, IInv
<1>4. SendersOnce'
  BY DEF SendersOnce, IInv
<1>5. SendersKept'
  BY DEF SendersKept, Covered, IInv
<1>6. SpokenAfterWritten'
  BY DEF SpokenAfterWritten, Unwritten, IInv
<1>7. StreamsClose'
  BY DEF StreamsClose, IInv
<1>8. ReaderStops'
  BY DEF ReaderStops, ExitedMeansExited, NobodyForgotten, IInv
<1> QED BY <1>1, <1>2, <1>3, <1>4, <1>5, <1>6, <1>7, <1>8 DEF IInv

(* A call that returns with its message leaves no entry behind. *)
LEMMA ReceiveKeeps ==
  ASSUME IInv, NEW i \in Calls, Receive(i)
  PROVE  IInv'
<1> USE CallsAssumption DEF toolVars, readerVars, Receive, Over
<1>1. TypeOK'
  BY DEF TypeOK, Stage, IInv
<1>2. EntriesAwaited'
  BY DEF EntriesAwaited, IInv, SendersOnce
<1>3. SentOnce'
  BY DEF SentOnce, IInv
<1>4. SendersOnce'
  BY DEF SendersOnce, IInv
<1>5. SendersKept'
  BY DEF SendersKept, Covered, IInv
<1>6. SpokenAfterWritten'
  BY DEF SpokenAfterWritten, Unwritten, IInv
<1>7. StreamsClose'
  BY DEF StreamsClose, IInv
<1>8. ReaderStops'
  BY DEF ReaderStops, ExitedMeansExited, NobodyForgotten, IInv
<1> QED BY <1>1, <1>2, <1>3, <1>4, <1>5, <1>6, <1>7, <1>8 DEF IInv

(* A call whose budget has run out still has its entry to withdraw. *)
LEMMA GiveUpKeeps ==
  ASSUME IInv, NEW i \in Calls, GiveUp(i)
  PROVE  IInv'
<1> USE CallsAssumption DEF toolVars, readerVars, GiveUp
<1>1. TypeOK'
  BY DEF TypeOK, Stage, IInv
<1>2. EntriesAwaited'
  BY DEF EntriesAwaited, IInv
<1>3. SentOnce'
  BY DEF SentOnce, IInv
<1>4. SendersOnce'
  BY DEF SendersOnce, IInv
<1>5. SendersKept'
  BY DEF SendersKept, Covered, IInv
<1>6. SpokenAfterWritten'
  BY DEF SpokenAfterWritten, Unwritten, IInv
<1>7. StreamsClose'
  BY DEF StreamsClose, IInv
<1>8. ReaderStops'
  BY DEF ReaderStops, ExitedMeansExited, NobodyForgotten, IInv
<1> QED BY <1>1, <1>2, <1>3, <1>4, <1>5, <1>6, <1>7, <1>8 DEF IInv

(* Reaping a process that has ended changes no sender. *)
LEMMA ReapKeeps ==
  ASSUME IInv, NEW i \in Calls, Reap(i)
  PROVE  IInv'
<1> USE CallsAssumption DEF toolVars, readerVars, Reap
<1>1. TypeOK'
  BY DEF TypeOK, Stage, IInv
<1>2. EntriesAwaited'
  BY DEF EntriesAwaited, IInv
<1>3. SentOnce'
  BY DEF SentOnce, IInv
<1>4. SendersOnce'
  BY DEF SendersOnce, IInv
<1>5. SendersKept'
  BY DEF SendersKept, Covered, IInv
<1>6. SpokenAfterWritten'
  BY DEF SpokenAfterWritten, Unwritten, IInv
<1>7. StreamsClose'
  BY DEF StreamsClose
<1>8. ReaderStops'
  BY DEF ReaderStops, ExitedMeansExited, NobodyForgotten, IInv
<1> QED BY <1>1, <1>2, <1>3, <1>4, <1>5, <1>6, <1>7, <1>8 DEF IInv

(* A process that is killed has ended, so its streams may close. *)
LEMMA KillKeeps ==
  ASSUME IInv, NEW i \in Calls, Kill(i)
  PROVE  IInv'
<1> USE CallsAssumption DEF toolVars, readerVars, Kill, AliveAfterGrace
<1>1. TypeOK'
  BY DEF TypeOK, IInv
<1>2. EntriesAwaited'
  BY DEF EntriesAwaited, IInv
<1>3. SentOnce'
  BY DEF SentOnce, IInv
<1>4. SendersOnce'
  BY DEF SendersOnce, IInv
<1>5. SendersKept'
  BY DEF SendersKept, Covered, IInv
<1>6. SpokenAfterWritten'
  BY DEF SpokenAfterWritten, IInv
<1>7. StreamsClose'
  BY DEF StreamsClose, IInv
<1>8. ReaderStops'
  BY DEF ReaderStops, ExitedMeansExited, NobodyForgotten, IInv
<1> QED BY <1>1, <1>2, <1>3, <1>4, <1>5, <1>6, <1>7, <1>8 DEF IInv

(* So has one whose handle is dropped. *)
LEMMA DropKeeps ==
  ASSUME IInv, Drop
  PROVE  IInv'
<1> USE CallsAssumption DEF toolVars, readerVars, Drop, AliveAfterDrop
<1>1. TypeOK'
  BY DEF TypeOK, IInv
<1>2. EntriesAwaited'
  BY DEF EntriesAwaited, IInv
<1>3. SentOnce'
  BY DEF SentOnce, IInv
<1>4. SendersOnce'
  BY DEF SendersOnce, IInv
<1>5. SendersKept'
  BY DEF SendersKept, IInv
<1>6. SpokenAfterWritten'
  BY DEF SpokenAfterWritten, IInv
<1>7. StreamsClose'
  BY DEF StreamsClose, IInv
<1>8. ReaderStops'
  BY DEF ReaderStops, ExitedMeansExited, NobodyForgotten, IInv
<1> QED BY <1>1, <1>2, <1>3, <1>4, <1>5, <1>6, <1>7, <1>8 DEF IInv

(* A sender taken out of the table is in the reader's hands. *)
LEMMA ReadLineKeeps ==
  ASSUME IInv, ReadLine
  PROVE  IInv'
<1> USE CallsAssumption DEF toolVars, readerVars, ReadLine, Awaited, Claimed
<1>1. TypeOK'
  BY DEF TypeOK, IInv
<1>2. EntriesAwaited'
  BY DEF EntriesAwaited, IInv
<1>3. SentOnce'
  BY DEF SentOnce, IInv
<1>4. SendersOnce'
  BY DEF SendersOnce, IInv
<1>5. SendersKept'
  BY DEF SendersKept, Covered, IInv, EntriesAwaited
<1>6. SpokenAfterWritten'
  BY DEF SpokenAfterWritten, IInv
<1>7. StreamsClose'
  BY DEF StreamsClose, IInv
<1>8. ReaderStops'
  BY DEF ReaderStops, ExitedMeansExited, NobodyForgotten, IInv
<1> QED BY <1>1, <1>2, <1>3, <1>4, <1>5, <1>6, <1>7, <1>8 DEF IInv

(* A sender that is used was unused before. *)
LEMMA DeliverKeeps ==
  ASSUME IInv, Deliver
  PROVE  IInv'
<1> USE CallsAssumption DEF toolVars, readerVars, Deliver
<1>1. TypeOK'
  BY DEF TypeOK, Line, IInv
<1>2. EntriesAwaited'
  BY DEF EntriesAwaited, IInv
<1>3. SentOnce'
  BY DEF SentOnce, IInv, SendersOnce
<1>4. SendersOnce'
  BY DEF SendersOnce, IInv
<1>5. SendersKept'
  <2>1. delivering \in Calls /\ chan'[delivering] # <<>>
    <3>1. delivering \in Calls /\ chan[delivering] \in Seq({"answer", "exited"})
      BY DEF TypeOK, IInv
    <3>2. chan'[delivering] = Append(chan[delivering], "answer")
      BY <3>1 DEF TypeOK, IInv
    <3>3. Len(chan'[delivering]) = Len(chan[delivering]) + 1 /\ Len(chan[delivering]) \in Nat
      BY <3>1, <3>2
    <3> QED BY <3>1, <3>3, EmptySeq
  <2>2. \A j \in Calls \ {delivering} : chan'[j] = chan[j]
    OBVIOUS
  <2>3. pc[delivering] # "idle"
    BY <2>1 DEF SendersKept, IInv
  <2>4. \A j \in Calls : Covered(j) => Covered(j)'
    BY <2>1, <2>2 DEF Covered
  <2> QED BY <2>1, <2>2, <2>3, <2>4 DEF SendersKept, IInv, TypeOK
<1>6. SpokenAfterWritten'
  BY DEF SpokenAfterWritten, IInv
<1>7. StreamsClose'
  BY DEF StreamsClose, IInv
<1>8. ReaderStops'
  <2>1. delivering \in Calls /\ chan[delivering] = <<>>
    BY DEF TypeOK, IInv, SendersOnce
  <2>2. chan'[delivering] # <<"exited">>
    <3>1. chan'[delivering] = Append(<<>>, "answer")
      BY <2>1 DEF TypeOK, IInv
    <3>2. Append(<<>>, "answer") = <<"answer">>
      OBVIOUS
    <3> QED BY <3>1, <3>2
  <2>3. \A j \in Calls \ {delivering} : chan'[j] = chan[j]
    OBVIOUS
  <2>4. ExitedMeansExited => ExitedMeansExited'
    BY <2>2, <2>3 DEF ExitedMeansExited
  <2>5. NobodyForgotten'
    BY DEF NobodyForgotten
  <2> QED BY <2>4, <2>5 DEF ReaderStops, IInv
<1> QED BY <1>1, <1>2, <1>3, <1>4, <1>5, <1>6, <1>7, <1>8 DEF IInv

(* The sweep takes every registered sender, and nobody registers unseen. *)
LEMMA SweepKeeps ==
  ASSUME IInv, Sweep
  PROVE  IInv'
<1> USE CallsAssumption DEF toolVars, readerVars, Sweep, OutputEnded, Stranded
<1>1. TypeOK'
  BY DEF TypeOK, IInv
<1>2. EntriesAwaited'
  BY DEF EntriesAwaited
<1>3. SentOnce'
  BY DEF SentOnce, IInv
<1>4. SendersOnce'
  BY DEF SendersOnce, IInv
<1>5. SendersKept'
  BY DEF SendersKept, Covered, IInv, EntriesAwaited, SendersOnce
<1>6. SpokenAfterWritten'
  BY DEF SpokenAfterWritten, IInv
<1>7. StreamsClose'
  BY DEF StreamsClose, IInv
<1>8. ReaderStops'
  BY DEF ReaderStops, ExitedMeansExited, NobodyForgotten, IInv, SendersOnce, SendersKept, Covered
<1> QED BY <1>1, <1>2, <1>3, <1>4, <1>5, <1>6, <1>7, <1>8 DEF IInv

(* A stranded call is told once. *)
LEMMA StrandKeeps ==
  ASSUME IInv, NEW i \in Calls, Strand(i)
  PROVE  IInv'
<1> USE CallsAssumption DEF toolVars, readerVars, Strand
<1>1. TypeOK'
  BY DEF TypeOK, IInv
<1>2. EntriesAwaited'
  BY DEF EntriesAwaited, IInv
<1>3. SentOnce'
  BY DEF SentOnce, IInv, SendersOnce
<1>4. SendersOnce'
  BY DEF SendersOnce, IInv
<1>5. SendersKept'
  BY DEF SendersKept, TypeOK, Covered, IInv
<1>6. SpokenAfterWritten'
  BY DEF SpokenAfterWritten, IInv
<1>7. StreamsClose'
  BY DEF StreamsClose, IInv
<1>8. ReaderStops'
  BY DEF ReaderStops, TypeOK, ExitedMeansExited, NobodyForgotten, IInv, StreamsClose, SendersOnce
<1> QED BY <1>1, <1>2, <1>3, <1>4, <1>5, <1>6, <1>7, <1>8 DEF IInv

(* The reader ends with no sender in its hands. *)
LEMMA ReaderEndsKeeps ==
  ASSUME IInv, ReaderEnds
  PROVE  IInv'
<1> USE CallsAssumption DEF toolVars, readerVars, ReaderEnds
<1>1. TypeOK'
  BY DEF TypeOK, IInv
<1>2. EntriesAwaited'
  BY DEF EntriesAwaited, IInv
<1>3. SentOnce'
  BY DEF SentOnce, IInv
<1>4. SendersOnce'
  BY DEF SendersOnce, IInv
<1>5. SendersKept'
  BY DEF SendersKept, Covered, IInv
<1>6. SpokenAfterWritten'
  BY DEF SpokenAfterWritten, IInv
<1>7. StreamsClose'
  BY DEF StreamsClose, IInv
<1>8. ReaderStops'
  BY DEF ReaderStops, ExitedMeansExited, NobodyForgotten, IInv
<1> QED BY <1>1, <1>2, <1>3, <1>4, <1>5, <1>6, <1>7, <1>8 DEF IInv

(* The tool reads what a call has written. *)
LEMMA ToolReadsKeeps ==
  ASSUME IInv, ToolReads
  PROVE  IInv'
<1> USE CallsAssumption DEF toolVars, readerVars, ToolReads
<1>1. TypeOK'
  BY DEF TypeOK, IInv
<1>2. EntriesAwaited'
  BY DEF EntriesAwaited, IInv
<1>3. SentOnce'
  BY DEF SentOnce, IInv
<1>4. SendersOnce'
  BY DEF SendersOnce, IInv
<1>5. SendersKept'
  BY DEF SendersKept, Covered, IInv
<1>6. SpokenAfterWritten'
  BY DEF SpokenAfterWritten, IInv
<1>7. StreamsClose'
  BY DEF StreamsClose, IInv
<1>8. ReaderStops'
  BY DEF ReaderStops, ExitedMeansExited, NobodyForgotten, IInv
<1> QED BY <1>1, <1>2, <1>3, <1>4, <1>5, <1>6, <1>7, <1>8 DEF IInv

(* The tool answers what it has read. *)
LEMMA ToolSaysKeeps ==
  ASSUME IInv, NEW line \in Line, ToolSays(line)
  PROVE  IInv'
<1> USE CallsAssumption DEF toolVars, readerVars, ToolSays
<1>1. TypeOK'
  BY DEF TypeOK, IInv
<1>2. EntriesAwaited'
  BY DEF EntriesAwaited, IInv
<1>3. SentOnce'
  BY DEF SentOnce, IInv
<1>4. SendersOnce'
  BY DEF SendersOnce, IInv
<1>5. SendersKept'
  BY DEF SendersKept, Covered, IInv
<1>6. SpokenAfterWritten'
  BY DEF SpokenAfterWritten, IInv
<1>7. StreamsClose'
  BY DEF StreamsClose, IInv
<1>8. ReaderStops'
  <2>1. stdout \in Seq(Line) /\ Len(stdout) \in Nat /\ line \in Line
    BY DEF TypeOK, IInv
  <2>2. \A k \in 1..Len(stdout') : (k \in 1..Len(stdout) /\ stdout'[k] = stdout[k]) \/ stdout'[k] = line
    BY <2>1
  <2>3. ~GarbledLines => line # Garbage
    BY <2>1 DEF TypeOK, IInv, Noise, Garbage
  <2> QED BY <2>2, <2>3 DEF ReaderStops, ExitedMeansExited, NobodyForgotten, IInv, StreamsClose
<1> QED BY <1>1, <1>2, <1>3, <1>4, <1>5, <1>6, <1>7, <1>8 DEF IInv

(* A tool that exits has ended. *)
LEMMA ToolExitsKeeps ==
  ASSUME IInv, ToolExits
  PROVE  IInv'
<1> USE CallsAssumption DEF toolVars, readerVars, ToolExits
<1>1. TypeOK'
  BY DEF TypeOK, IInv
<1>2. EntriesAwaited'
  BY DEF EntriesAwaited, IInv
<1>3. SentOnce'
  BY DEF SentOnce, IInv
<1>4. SendersOnce'
  BY DEF SendersOnce, IInv
<1>5. SendersKept'
  BY DEF SendersKept, Covered, IInv
<1>6. SpokenAfterWritten'
  BY DEF SpokenAfterWritten, IInv
<1>7. StreamsClose'
  BY DEF StreamsClose, IInv
<1>8. ReaderStops'
  BY DEF ReaderStops, ExitedMeansExited, NobodyForgotten, IInv
<1> QED BY <1>1, <1>2, <1>3, <1>4, <1>5, <1>6, <1>7, <1>8 DEF IInv

(* Standard input closes after the process has ended. *)
LEMMA CloseStdinKeeps ==
  ASSUME IInv, CloseStdin
  PROVE  IInv'
<1> USE CallsAssumption DEF toolVars, readerVars, CloseStdin
<1>1. TypeOK'
  <2>1. stdin' \in Seq(Calls)
    BY EmptySeq
  <2> QED BY <2>1 DEF TypeOK, IInv
<1>2. EntriesAwaited'
  BY DEF EntriesAwaited, IInv
<1>3. SentOnce'
  BY DEF SentOnce, IInv
<1>4. SendersOnce'
  BY DEF SendersOnce, IInv
<1>5. SendersKept'
  BY DEF SendersKept, Covered, IInv
<1>6. SpokenAfterWritten'
  BY DEF SpokenAfterWritten, IInv
<1>7. StreamsClose'
  BY DEF StreamsClose
<1>8. ReaderStops'
  BY DEF ReaderStops, ExitedMeansExited, NobodyForgotten, IInv
<1> QED BY <1>1, <1>2, <1>3, <1>4, <1>5, <1>6, <1>7, <1>8 DEF IInv

(* So does its output. *)
LEMMA CloseStdoutKeeps ==
  ASSUME IInv, CloseStdout
  PROVE  IInv'
<1> USE CallsAssumption DEF toolVars, readerVars, CloseStdout
<1>1. TypeOK'
  BY DEF TypeOK, IInv
<1>2. EntriesAwaited'
  BY DEF EntriesAwaited, IInv
<1>3. SentOnce'
  BY DEF SentOnce, IInv
<1>4. SendersOnce'
  BY DEF SendersOnce, IInv
<1>5. SendersKept'
  BY DEF SendersKept, Covered, IInv
<1>6. SpokenAfterWritten'
  BY DEF SpokenAfterWritten, IInv
<1>7. StreamsClose'
  BY DEF StreamsClose
<1>8. ReaderStops'
  BY DEF ReaderStops, ExitedMeansExited, NobodyForgotten, IInv
<1> QED BY <1>1, <1>2, <1>3, <1>4, <1>5, <1>6, <1>7, <1>8 DEF IInv

(* Every step keeps the invariant. *)
LEMMA NextKeeps ==
  ASSUME IInv, [Next]_vars
  PROVE  IInv'
<1>1. CASE Next
  BY <1>1, RegisterKeeps, WriteKeeps, WithdrawKeeps, ReceiveKeeps, GiveUpKeeps, ReapKeeps, KillKeeps, DropKeeps, ReadLineKeeps, DeliverKeeps, SweepKeeps, StrandKeeps, ReaderEndsKeeps, ToolReadsKeeps, ToolSaysKeeps, ToolExitsKeeps, CloseStdinKeeps, CloseStdoutKeeps DEF Next
<1>2. CASE UNCHANGED vars
  <2> USE <1>2 DEF vars, toolVars, readerVars
  <2>1. TypeOK' /\ EntriesAwaited' /\ SentOnce'
    BY DEF IInv, TypeOK, EntriesAwaited, SentOnce
  <2>2. SendersOnce' /\ SendersKept'
    BY DEF IInv, SendersOnce, SendersKept, Covered
  <2>3. SpokenAfterWritten' /\ StreamsClose'
    BY DEF IInv, SpokenAfterWritten, StreamsClose
  <2>4. ReaderStops'
    BY DEF IInv, ReaderStops, ExitedMeansExited, NobodyForgotten
  <2> QED BY <2>1, <2>2, <2>3, <2>4 DEF IInv
<1> QED BY <1>1, <1>2

(* The invariant holds before the first call. *)
LEMMA InitInv ==
  ASSUME Init
  PROVE  IInv
<1> USE CallsAssumption, EmptySeq DEF Init
<1>1. TypeOK
  <2>1. <<>> \in Seq({"answer", "exited"}) /\ <<>> \in Seq(Calls) /\ <<>> \in Seq(Line)
    OBVIOUS
  <2>2. {alive, stdinOpen, stdoutOpen, dropped} \subseteq BOOLEAN
    BY Zenon
  <2>3. pc \in [Calls -> Stage] /\ chan \in [Calls -> Seq({"answer", "exited"})]
    BY <2>1, Zenon DEF Stage
  <2> QED BY <2>1, <2>2, <2>3 DEF TypeOK, Line
<1>2. EntriesAwaited /\ SentOnce /\ SendersOnce /\ SendersKept
  BY DEF EntriesAwaited, SentOnce, SendersOnce, SendersKept
<1>3. SpokenAfterWritten /\ StreamsClose
  BY DEF SpokenAfterWritten, StreamsClose
<1>4. ReaderStops
  BY DEF ReaderStops, ExitedMeansExited, NobodyForgotten
<1> QED BY <1>1, <1>2, <1>3, <1>4 DEF IInv

(* The inductive invariant holds in every state. *)
THEOREM CallsInv == Spec => []IInv
<1>1. Init => IInv
  BY InitInv
<1>2. IInv /\ [Next]_vars => IInv'
  BY NextKeeps
<1> QED BY <1>1, <1>2, PTL DEF Spec

-----------------------------------------------------------------------------
(* What follows from it *)

(* Every variable of the host, its reader and the tool has its type, for   *)
(* any set of calls and any pipe.                                          *)
THEOREM CallsTypeCorrect == Spec => []TypeOK
<1>1. IInv => TypeOK
  BY DEF IInv
<1> QED BY <1>1, CallsInv, PTL

(* The table of senders holds none of a call that has returned, whatever   *)
(* the tool says and whenever it ends.                                     *)
THEOREM EntriesAwaitedAlways == Spec => []EntriesAwaited
<1>1. IInv => EntriesAwaited
  BY DEF IInv
<1> QED BY <1>1, CallsInv, PTL

(* No call is sent two messages: an answer, its repetition and the sweep   *)
(* at the end of the output cannot both find its sender.                   *)
THEOREM SentOnceAlways == Spec => []SentOnce
<1>1. IInv => SentOnce
  BY DEF IInv
<1> QED BY <1>1, CallsInv, PTL

(* No call is left waiting by the sweep, when the standard input of a      *)
(* process that ends is closed before its output and every line is text.   *)
THEOREM NobodyForgottenAlways ==
  ASSUME StdinClosesFirst, ~GarbledLines
  PROVE  Spec => []NobodyForgotten
<1>1. IInv => NobodyForgotten
  BY DEF IInv, ReaderStops
<1> QED BY <1>1, CallsInv, PTL

(* No call is told the tool has exited while it runs, if every line the    *)
(* tool says is text.                                                      *)
THEOREM ExitedMeansExitedAlways ==
  ASSUME ~GarbledLines
  PROVE  Spec => []ExitedMeansExited
<1>1. IInv => ExitedMeansExited
  BY DEF IInv, ReaderStops
<1> QED BY <1>1, CallsInv, PTL

(* An answer that finds no sender is a second one, or its caller had given *)
(* up: registering before writing leaves no moment in which an answer      *)
(* comes too early.                                                        *)
THEOREM AnswersFindTheirCallAlways == Spec => AnswersFindTheirCall
<1> DEFINE Found(i) ==
      reader = "reading" /\ stdout # <<>> /\ Head(stdout) = i /\ stdout' = Tail(stdout) =>
        chan[i] # <<>> \/ pc[i] \in {"givingUp", "reaping", "done"}
<1>1. IInv => \A i \in Calls \ pending : Found(i)
  <2> SUFFICES ASSUME IInv, NEW i \in Calls \ pending, reader = "reading", stdout # <<>>,
                      Head(stdout) = i, chan[i] = <<>>
               PROVE  pc[i] \in {"givingUp", "reaping", "done"}
    OBVIOUS
  <2>1. stdout \in Seq(Line) /\ Len(stdout) \in Nat \ {0} /\ stdout[1] = i
    BY EmptySeq DEF IInv, TypeOK
  <2>2. pc[i] \notin Unwritten
    BY <2>1 DEF IInv, SpokenAfterWritten
  <2>3. ~Covered(i)
    BY DEF IInv, SendersOnce, Covered
  <2>4. pc[i] # "waiting"
    BY <2>3 DEF IInv, SendersKept
  <2> QED BY <2>2, <2>4 DEF IInv, TypeOK, Stage, Unwritten
<1>2. IInv => [\A i \in Calls \ pending : Found(i)]_vars
  BY <1>1
<1> QED BY <1>2, CallsInv, PTL DEF AnswersFindTheirCall
=============================================================================
