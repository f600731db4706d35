------------------------- MODULE PtyBacklog_proofs --------------------------
(***************************************************************************)
(* Proofs about PtyBacklog, for every number of views and chunks, every    *)
(* stream of bytes and every budget.                                       *)
(***************************************************************************)
EXTENDS PtyBacklog, WellFoundedInduction, NaturalsInduction, SequenceTheorems,
        TLAPS

-----------------------------------------------------------------------------
(* Least and greatest numbers *)

(* A set of natural numbers that is not empty has a least element, < being *)
(* well-founded.                                                           *)
LEMMA MinimalExists ==
  ASSUME NEW R, NEW S, IsWellFoundedOn(R, Nat), S \subseteq Nat, S # {}
  PROVE  \E n \in S : \A m \in S : ~(<<m, n>> \in R)
BY WFMin

(* The same, stated for a relation that is < on the naturals. *)
LEMMA LeastByRelation ==
  ASSUME NEW R, NEW S, IsWellFoundedOn(R, Nat), S \subseteq Nat, S # {},
         \A m, n \in Nat : <<m, n>> \in R <=> m < n
  PROVE  \E n \in S : \A m \in S : n <= m
<1>1. PICK n \in S : \A m \in S : ~(<<m, n>> \in R)
  BY MinimalExists
<1>2. \A m \in S : n <= m
  <2> TAKE m \in S
  <2>1. m \in Nat /\ n \in Nat
    OBVIOUS
  <2>2. ~(m < n)
    BY <1>1, <2>1
  <2> QED BY <2>1, <2>2
<1> QED BY <1>2

(* So every nonempty set of natural numbers has a least element. *)
LEMMA LeastExists ==
  ASSUME NEW S, S \subseteq Nat, S # {}
  PROVE  \E n \in S : \A m \in S : n <= m
<1>1. \A m, n \in Nat : <<m, n>> \in OpToRel(<, Nat) <=> m < n
  BY DEF OpToRel
<1> QED BY <1>1, NatLessThanWellFounded, LeastByRelation

(* And every nonempty set of naturals with a bound has a greatest one. *)
LEMMA GreatestExists ==
  ASSUME NEW N \in Nat, NEW S \in SUBSET (0..N), S # {}
  PROVE  \E n \in S : \A m \in S : m <= n
<1> DEFINE D == {N - m : m \in S}
<1>1. D \subseteq Nat /\ D # {}
  <2>1. \A m \in S : N - m \in Nat
    OBVIOUS
  <2> QED BY <2>1
<1>2. PICK d \in D : \A e \in D : d <= e
  BY <1>1, LeastExists
<1>3. PICK n \in S : d = N - n
  BY <1>2
<1>4. \A m \in S : m <= n
  <2> TAKE m \in S
  <2>1. N - m \in D
    OBVIOUS
  <2>2. N - n <= N - m
    BY <1>2, <1>3, <2>1
  <2> QED BY <2>2
<1> QED BY <1>4

-----------------------------------------------------------------------------
(* The inductive invariant *)

(* The chunks below Sent have been emitted, to whoever was listening, or   *)
(* were stored before anyone had attached.                                 *)
Sent == IF pump = "emitting" THEN next - 1 ELSE next

(* The first chunk that view v has yet to handle. *)
First(v) == Sent - Len(events[v])

(* Events wait in the order they were emitted and none is missing; there   *)
(* are none before the first attach.                                       *)
EventsFollow ==
  \A v \in Views :
    /\ Len(events[v]) <= Sent
    /\ \A i \in 1..Len(events[v]) : events[v][i] = First(v) + i - 1
    /\ v \notin Listening \/ ~attached => events[v] = <<>>

(* Nothing lies between the backlog a view was handed and its events.      *)
RepliesMeet ==
  \A v \in Views : stage[v] = "answered" =>
    /\ attached /\ shown[v] = <<>>
    /\ reply[v].from <= reply[v].next /\ reply[v].next <= next
    /\ First(v) <= reply[v].next

(* What a view has shown ends where its events or its backlog go on.       *)
ShownMeets ==
  \A v \in Views : stage[v] = "ready" =>
    /\ attached /\ cursor[v] <= next
    /\ shown[v] # <<>> =>
         shown[v][Len(shown[v])] + 1 = IF First(v) > cursor[v] THEN First(v) ELSE cursor[v]

NothingShownYet ==
  \A v \in Views : stage[v] \in {"new", "subscribing", "asking"} => shown[v] = <<>>

EmittingIsAttached == pump = "emitting" => attached /\ next > 0

DeliveryInv ==
  EventsFollow /\ RepliesMeet /\ ShownMeets /\ NothingShownYet /\ EmittingIsAttached

IInv == TypeOK /\ DeliveryInv

-----------------------------------------------------------------------------
(* What the pump computes *)

(* What decodes lies between what was decoded and what was read. *)
LEMMA ValidUpToType ==
  ASSUME TypeOK, NEW upto \in Nat, read <= upto
  PROVE  ValidUpTo(upto) \in decoded..upto
<1> DEFINE S == {n \in decoded..upto : Whole(n)}
<1>1. upto \in Nat /\ S \in SUBSET (0..upto)
  BY DEF TypeOK
<1>2. decoded \in S
  <2>1. decoded \in decoded..upto
    BY DEF TypeOK
  <2>2. Whole(decoded)
    BY DEF Whole, TypeOK
  <2> QED BY <2>1, <2>2
<1>3. PICK n \in S : \A m \in S : m <= n
  BY <1>1, <1>2, GreatestExists
<1>4. \A m \in (n + 1)..upto : ~Whole(m)
  BY <1>1, <1>3 DEF TypeOK
<1> QED BY <1>3, <1>4 DEF ValidUpTo

(* Trimming never drops the newest chunk. *)
LEMMA OldestType ==
  ASSUME TypeOK, NEW n
  PROVE  Oldest(n) \in oldest..next
<1> DEFINE stays == {s \in oldest..next : s = next \/ Keeps(s, n)}
<1>1. next \in stays /\ stays \subseteq Nat
  BY BacklogAssumption DEF TypeOK
<1> HIDE DEF stays
<1>2. PICK s \in stays : \A t \in stays : s <= t
  BY <1>1, LeastExists
<1>3. (CHOOSE r \in stays : \A t \in stays : r <= t) \in stays
  BY <1>2
<1> QED BY <1>3 DEF stays, Oldest

-----------------------------------------------------------------------------
(* The invariant is inductive *)

LEMMA InitInv == Init => IInv
<1> SUFFICES ASSUME Init PROVE IInv
  OBVIOUS
<1>1. Len(stream) \in Nat
  BY BacklogAssumption DEF Init
<1>2. TypeOK
  <2>1. /\ stream \in Streams /\ read \in 0..Len(stream) /\ decoded \in 0..read
        /\ pump \in {"reading", "emitting", "leaving", "ended"}
    BY <1>1 DEF Init
  <2>2. next \in 0..MaxChunks /\ oldest \in 0..next
    BY BacklogAssumption DEF Init
  <2>3. {attached, exited, alive, inMap, closeSent} \subseteq BOOLEAN
    BY Zenon DEF Init
  <2>4. starts \in [Seqs -> Nat]
    BY Zenon DEF Init
  <2>5. /\ stage \in [Views -> Stage]
        /\ exitOn \in [Views -> BOOLEAN] /\ exitTold \in [Views -> BOOLEAN]
    BY DEF Init, Stage
  <2>6. events \in [Views -> Seq(Seqs)] /\ shown \in [Views -> Seq(Seqs)]
    BY DEF Init
  <2>7. /\ reply \in [Views -> [from : Nat, next : Nat, exited : BOOLEAN]]
        /\ cursor \in [Views -> Nat]
    BY DEF Init, NoReply
  <2> QED BY <2>1, <2>2, <2>3, <2>4, <2>5, <2>6, <2>7 DEF TypeOK
<1>3. DeliveryInv
  BY DEF Init, DeliveryInv, EventsFollow, RepliesMeet, ShownMeets, NothingShownYet,
         EmittingIsAttached, Listening, Sent, First
<1> QED BY <1>2, <1>3 DEF IInv

(* What the delivery of chunks does not depend on: the bytes read, the     *)
(* exit, the map the session is kept in and the wish to close it.          *)
LEMMA QuietInv ==
  ASSUME IInv, TypeOK',
         UNCHANGED <<next, attached, events, stage, reply, cursor, shown>>,
         pump' = pump \/ "emitting" \notin {pump, pump'}
  PROVE  IInv'
<1>1. Sent' = Sent /\ (pump' = "emitting" => pump = "emitting")
  BY DEF Sent
<1>2. \A v \in Views : First(v)' = First(v)
  BY <1>1 DEF First
<1>3. EventsFollow'
  BY <1>1, <1>2 DEF IInv, DeliveryInv, EventsFollow, Listening
<1>4. RepliesMeet' /\ ShownMeets'
  BY <1>2 DEF IInv, DeliveryInv, RepliesMeet, ShownMeets
<1>5. NothingShownYet' /\ EmittingIsAttached'
  BY <1>1 DEF IInv, DeliveryInv, NothingShownYet, EmittingIsAttached
<1> QED BY <1>3, <1>4, <1>5 DEF IInv, DeliveryInv

(* What the invariant asks of the steps that only record something. *)
LEMMA RecordInv ==
  ASSUME IInv,
         EndOfFile \/ EmitExit \/ ShellExits \/ Close
           \/ \E v \in Views : ListenExit(v) \/ HearExit(v) \/ AskClose(v)
  PROVE  IInv'
<1>1. CASE EndOfFile
  <2>1. TypeOK'
    BY <1>1 DEF EndOfFile, IInv, TypeOK, shellVars, sessionVars, viewVars
  <2> QED BY <1>1, <2>1, QuietInv DEF EndOfFile, viewVars
<1>2. CASE EmitExit
  <2>1. exitTold' \in [Views -> BOOLEAN]
    BY <1>2 DEF EmitExit, IInv, TypeOK
  <2>2. TypeOK'
    BY <1>2, <2>1 DEF EmitExit, IInv, TypeOK, shellVars, backlogVars, sessionVars
  <2> QED BY <1>2, <2>2, QuietInv DEF EmitExit, backlogVars
<1>3. CASE ShellExits
  <2>1. TypeOK'
    BY <1>3 DEF ShellExits, IInv, TypeOK, pumpVars, backlogVars, sessionVars, viewVars
  <2> QED BY <1>3, <2>1, QuietInv DEF ShellExits, pumpVars, backlogVars, viewVars
<1>4. CASE Close
  <2>1. TypeOK'
    BY <1>4 DEF Close, IInv, TypeOK, pumpVars, backlogVars, viewVars
  <2> QED BY <1>4, <2>1, QuietInv DEF Close, pumpVars, backlogVars, viewVars
<1>5. CASE \E v \in Views : ListenExit(v)
  <2>1. exitOn' \in [Views -> BOOLEAN]
    BY <1>5 DEF ListenExit, IInv, TypeOK
  <2>2. TypeOK'
    BY <1>5, <2>1
    DEF ListenExit, IInv, TypeOK, shellVars, pumpVars, backlogVars, sessionVars
  <2> QED BY <1>5, <2>2, QuietInv DEF ListenExit, pumpVars, backlogVars
<1>6. CASE \E v \in Views : HearExit(v)
  <2>1. exitTold' \in [Views -> BOOLEAN] /\ closeSent' \in BOOLEAN
    BY <1>6 DEF HearExit, IInv, TypeOK, Mounted
  <2>2. TypeOK'
    BY <1>6, <2>1 DEF HearExit, IInv, TypeOK, shellVars, pumpVars, backlogVars
  <2> QED BY <1>6, <2>2, QuietInv DEF HearExit, pumpVars, backlogVars
<1>7. CASE \E v \in Views : AskClose(v)
  <2>1. TypeOK'
    BY <1>7 DEF AskClose, IInv, TypeOK, shellVars, pumpVars, backlogVars, viewVars
  <2> QED BY <1>7, <2>1, QuietInv DEF AskClose, pumpVars, backlogVars, viewVars
<1> QED BY <1>1, <1>2, <1>3, <1>4, <1>5, <1>6, <1>7

(* A view that has only begun has nothing that could be out of order. *)
LEMMA BeginInv == ASSUME IInv, NEW v \in Views, Mount(v) \/ ListenData(v) PROVE IInv'
<1>1. UNCHANGED <<next, attached, pump, events, reply, cursor, shown>>
  BY DEF Mount, ListenData, pumpVars, backlogVars
<1>2. /\ stage[v] \in {"new", "subscribing"} /\ stage'[v] \in {"subscribing", "asking"}
      /\ \A u \in Views \ {v} : stage'[u] = stage[u]
      /\ stage' \in [Views -> Stage]
  BY DEF Mount, ListenData, IInv, TypeOK, Stage
<1>3. TypeOK'
  BY <1>1, <1>2
  DEF Mount, ListenData, IInv, TypeOK, shellVars, pumpVars, backlogVars, sessionVars
<1>4. Sent' = Sent /\ \A u \in Views : First(u)' = First(u)
  BY <1>1 DEF Sent, First
<1>5. EventsFollow'
  <2>1. \A u \in Views : u \notin Listening' => u \notin Listening
    BY <1>2 DEF Listening
  <2> QED BY <1>1, <1>4, <2>1 DEF IInv, DeliveryInv, EventsFollow
<1>6. RepliesMeet' /\ ShownMeets'
  BY <1>1, <1>2, <1>4 DEF IInv, DeliveryInv, RepliesMeet, ShownMeets
<1>7. NothingShownYet' /\ EmittingIsAttached'
  BY <1>1, <1>2 DEF IInv, DeliveryInv, NothingShownYet, EmittingIsAttached
<1> QED BY <1>3, <1>5, <1>6, <1>7 DEF IInv, DeliveryInv

(* A read keeps every type: the bounds of the backlog and of what is       *)
(* decoded.                                                                *)
LEMMA ReadType == ASSUME IInv, NEW n \in 1..Len(stream), Read(n) PROVE TypeOK'
<1>1. n \in Nat /\ read <= n /\ n <= Len(stream) /\ Len(stream) \in Nat
  BY BacklogAssumption DEF IInv, TypeOK, Read
<1>2. ValidUpTo(n) \in decoded..n
  BY <1>1, ValidUpToType DEF IInv
<1>3. CASE ValidUpTo(n) > decoded /\ Push(ValidUpTo(n))
  <2>1. Oldest(ValidUpTo(n)) \in oldest..next
    BY OldestType DEF IInv
  <2>2. oldest' \in 0..next' /\ next' \in 0..MaxChunks
    BY <1>3, <2>1, BacklogAssumption DEF Push, IInv, TypeOK
  <2>3. starts' \in [Seqs -> Nat]
    <3>1. decoded \in Nat /\ starts \in [Seqs -> Nat]
      BY <1>1 DEF IInv, TypeOK
    <3> QED BY <1>3, <3>1 DEF Push
  <2>4. decoded' \in 0..read' /\ read' \in 0..Len(stream)'
    BY <1>1, <1>2, <1>3 DEF Push, Read, IInv, TypeOK, shellVars
  <2>5. pump' \in {"reading", "emitting", "leaving", "ended"}
    BY <1>3 DEF Push
  <2> QED
    BY <2>2, <2>3, <2>4, <2>5 DEF Read, IInv, TypeOK, shellVars, sessionVars, viewVars
<1>4. CASE UNCHANGED <<decoded, pump, oldest, next, starts>>
  BY <1>1, <1>4 DEF Read, IInv, TypeOK, shellVars, sessionVars, viewVars
<1> QED BY <1>3, <1>4 DEF Read

(* A chunk stored is one more to send, unless it is about to be emitted. *)
LEMMA ReadInv == ASSUME IInv, NEW n \in 1..Len(stream), Read(n) PROVE IInv'
<1>1. TypeOK'
  BY ReadType
<1>2. CASE UNCHANGED <<decoded, pump, oldest, next, starts>>
  BY <1>1, <1>2, QuietInv DEF Read, viewVars
<1>3. CASE Push(ValidUpTo(n))
  <2>1. next \in Nat /\ next' = next + 1 /\ attached' = attached /\ pump = "reading"
    BY <1>3 DEF Push, Read, IInv, TypeOK
  <2>2. UNCHANGED <<events, stage, reply, cursor, shown>>
    BY DEF Read, viewVars
  <2>3. CASE attached
    <3>1. pump' = "emitting" /\ Sent' = Sent
      BY <1>3, <2>1, <2>3 DEF Push, Sent
    <3>2. \A v \in Views : First(v)' = First(v)
      BY <2>2, <3>1 DEF First
    <3>3. EventsFollow'
      BY <2>1, <2>2, <3>1, <3>2 DEF IInv, DeliveryInv, EventsFollow, Listening
    <3>4. RepliesMeet' /\ ShownMeets'
      BY <2>1, <2>2, <3>2 DEF IInv, DeliveryInv, RepliesMeet, ShownMeets, TypeOK
    <3>5. NothingShownYet' /\ EmittingIsAttached'
      BY <2>1, <2>2, <2>3 DEF IInv, DeliveryInv, NothingShownYet, EmittingIsAttached
    <3> QED BY <1>1, <3>3, <3>4, <3>5 DEF IInv, DeliveryInv
  <2>4. CASE ~attached
    <3>1. pump' = "reading" /\ Sent' = Sent + 1 /\ Sent \in Nat
      BY <1>3, <2>1, <2>4 DEF Push, Sent
    <3>2. \A v \in Views : events[v] = <<>>
      BY <2>4 DEF IInv, DeliveryInv, EventsFollow
    <3>3. EventsFollow'
      <4>1. \A v \in Views : events'[v] = <<>> /\ Len(events'[v]) = 0
        BY <2>2, <3>2
      <4> QED BY <3>1, <4>1 DEF EventsFollow
    <3>4. RepliesMeet' /\ ShownMeets'
      BY <2>1, <2>2, <2>4 DEF IInv, DeliveryInv, RepliesMeet, ShownMeets
    <3>5. NothingShownYet' /\ EmittingIsAttached'
      BY <2>2, <3>1 DEF IInv, DeliveryInv, NothingShownYet, EmittingIsAttached
    <3> QED BY <1>1, <3>3, <3>4, <3>5 DEF IInv, DeliveryInv
  <2> QED BY <2>3, <2>4
<1> QED BY <1>2, <1>3 DEF Read

(* An event emitted follows those that wait. *)
LEMMA EmitInv == ASSUME IInv, Emit PROVE IInv'
<1>1. /\ attached /\ next \in Nat /\ next > 0 /\ next <= MaxChunks
      /\ pump = "emitting" /\ pump' = "reading"
  BY BacklogAssumption DEF IInv, TypeOK, DeliveryInv, EmittingIsAttached, Emit
<1>2. UNCHANGED <<next, attached, stage, reply, cursor, shown>>
  BY DEF Emit, backlogVars
<1>3. Sent = next - 1 /\ Sent' = Sent + 1 /\ Sent \in Nat
  BY <1>1, <1>2 DEF Sent
<1>4. events \in [Views -> Seq(Seqs)] /\ next - 1 \in Seqs
  BY <1>1, BacklogAssumption DEF IInv, TypeOK, Seqs
<1>5. TypeOK'
  <2>1. events' \in [Views -> Seq(Seqs)]
    BY <1>4 DEF Emit, Emitted
  <2> QED BY <1>1, <2>1 DEF Emit, IInv, TypeOK, shellVars, backlogVars, sessionVars
<1>6. \A v \in Views : v \notin Listening => events'[v] = events[v] /\ events[v] = <<>>
  BY DEF Emit, IInv, DeliveryInv, EventsFollow
<1>7. \A v \in Views : v \in Listening =>
        /\ events'[v] = Append(events[v], next - 1)
        /\ Len(events'[v]) = Len(events[v]) + 1
        /\ First(v)' = First(v)
  <2> SUFFICES ASSUME NEW v \in Views, v \in Listening
               PROVE  /\ events'[v] = Append(events[v], next - 1)
                      /\ Len(events'[v]) = Len(events[v]) + 1
                      /\ First(v)' = First(v)
    OBVIOUS
  <2>1. events'[v] = Append(events[v], next - 1)
    BY DEF Emit, Emitted
  <2>2. events[v] \in Seq(Seqs)
    BY <1>4
  <2>3. Len(events'[v]) = Len(events[v]) + 1 /\ Len(events[v]) \in Nat
    BY <1>4, <2>1, <2>2
  <2> QED BY <1>3, <2>1, <2>3 DEF First
<1>8. EventsFollow'
  <2> SUFFICES ASSUME NEW v \in Views
               PROVE  /\ Len(events'[v]) <= Sent'
                      /\ \A i \in 1..Len(events'[v]) : events'[v][i] = First(v)' + i - 1
                      /\ v \notin Listening' \/ ~attached' => events'[v] = <<>>
    BY DEF EventsFollow
  <2>1. CASE v \notin Listening
    BY <1>2, <1>3, <1>6, <2>1 DEF Listening
  <2>2. CASE v \in Listening
    <3>1. events[v] \in Seq(Seqs) /\ Len(events[v]) \in Nat
      BY <1>4
    <3>2. Len(events[v]) <= Sent
      BY DEF IInv, DeliveryInv, EventsFollow
    <3>3. ASSUME NEW i \in 1..Len(events'[v]) PROVE events'[v][i] = First(v)' + i - 1
      <4>1. CASE i <= Len(events[v])
        <5>1. events'[v][i] = events[v][i]
          BY <1>4, <1>7, <2>2, <3>1, <4>1
        <5> QED BY <1>7, <2>2, <4>1, <5>1 DEF IInv, DeliveryInv, EventsFollow
      <4>2. CASE i = Len(events[v]) + 1
        <5>1. events'[v][i] = next - 1
          BY <1>4, <1>7, <2>2, <3>1, <4>2
        <5> QED BY <1>3, <1>7, <2>2, <3>1, <4>2, <5>1 DEF First
      <4> QED BY <1>7, <2>2, <3>1, <4>1, <4>2
    <3> QED BY <1>1, <1>2, <1>3, <1>7, <2>2, <3>1, <3>2, <3>3 DEF Listening
  <2> QED BY <2>1, <2>2
<1>9. RepliesMeet' /\ ShownMeets'
  <2>1. \A v \in Views : stage[v] \in {"answered", "ready"} => First(v)' = First(v)
    BY <1>7 DEF Listening
  <2> QED BY <1>2, <2>1 DEF IInv, DeliveryInv, RepliesMeet, ShownMeets
<1>10. NothingShownYet' /\ EmittingIsAttached'
  BY <1>1, <1>2 DEF IInv, DeliveryInv, NothingShownYet, EmittingIsAttached
<1> QED BY <1>5, <1>8, <1>9, <1>10 DEF IInv, DeliveryInv

(* The backend's answer names what is stored, of which all is sent or is   *)
(* about to be.                                                            *)
LEMMA AttachInv == ASSUME IInv, NEW v \in Views, Attach(v) PROVE IInv'
<1>1. UNCHANGED <<next, pump, events, cursor, shown>>
  BY DEF Attach, pumpVars, viewVars
<1>2. attached' \in BOOLEAN /\ (attached => attached')
  BY DEF Attach, AttachedNow, IInv, TypeOK
<1>3. TypeOK'
  <2>1. Attachment \in [from : Nat, next : Nat, exited : BOOLEAN]
    BY BacklogAssumption DEF Attachment, IInv, TypeOK
  <2>2. reply' \in [Views -> [from : Nat, next : Nat, exited : BOOLEAN]]
    BY <2>1 DEF Attach, IInv, TypeOK
  <2>3. stage' \in [Views -> Stage]
    BY DEF Attach, IInv, TypeOK, Stage
  <2> QED
    BY <1>1, <1>2, <2>2, <2>3 DEF Attach, IInv, TypeOK, shellVars, pumpVars, sessionVars
<1>4. /\ Sent' = Sent /\ Sent \in Int
      /\ \A u \in Views : First(u)' = First(u)
  BY <1>1 DEF Sent, First, IInv, TypeOK
<1>5. /\ \A u \in Views \ {v} : stage'[u] = stage[u] /\ reply'[u] = reply[u]
      /\ stage'[v] \in {"gone", "answered", "refused"}
      /\ stage[v] = "left" => stage'[v] = "gone"
      /\ stage[v] # "left" => stage[v] = "asking" /\ stage'[v] # "gone"
      /\ stage'[v] = "answered" => attached' /\ reply'[v] = Attachment
  BY DEF Attach, AttachedNow, IInv, TypeOK
<1>6. EventsFollow'
  <2>1. \A u \in Views : u \notin Listening' => u \notin Listening
    BY <1>5 DEF Listening
  <2> QED BY <1>1, <1>2, <1>4, <2>1 DEF IInv, DeliveryInv, EventsFollow
<1>7. RepliesMeet'
  <2> SUFFICES ASSUME NEW u \in Views, stage'[u] = "answered"
               PROVE  /\ attached' /\ shown'[u] = <<>>
                      /\ reply'[u].from <= reply'[u].next /\ reply'[u].next <= next'
                      /\ First(u)' <= reply'[u].next
    BY DEF RepliesMeet
  <2>1. CASE u # v
    BY <1>1, <1>2, <1>4, <1>5, <2>1 DEF IInv, DeliveryInv, RepliesMeet
  <2>2. CASE u = v
    <3>1. reply'[v].from = oldest /\ reply'[v].next = next /\ shown[v] = <<>>
      BY <1>5, <2>2 DEF Attachment, IInv, DeliveryInv, NothingShownYet
    <3>2. oldest <= next /\ next \in Nat
      BY BacklogAssumption DEF IInv, TypeOK
    <3>3. First(v) <= next
      <4>1. Len(events[v]) \in Nat
        BY DEF IInv, TypeOK
      <4> QED BY <3>2, <4>1 DEF First, Sent
    <3> QED BY <1>1, <1>4, <1>5, <2>2, <3>1, <3>2, <3>3
  <2> QED BY <2>1, <2>2
<1>8. ShownMeets'
  BY <1>1, <1>2, <1>4, <1>5 DEF IInv, DeliveryInv, ShownMeets
<1>9. NothingShownYet' /\ EmittingIsAttached'
  BY <1>1, <1>2, <1>5 DEF IInv, DeliveryInv, NothingShownYet, EmittingIsAttached
<1> QED BY <1>3, <1>6, <1>7, <1>8, <1>9 DEF IInv, DeliveryInv

(* What a view catches up with, as a run of chunks. *)
LEMMA CaughtUp ==
  ASSUME IInv, NEW v \in Views, CatchUp(v)
  PROVE  /\ reply[v].from \in Nat /\ reply[v].next \in Nat
         /\ reply[v].from <= reply[v].next /\ reply[v].next <= next
         /\ next \in Nat /\ next <= MaxChunks /\ MaxChunks \in Nat
         /\ shown[v] = <<>>
         /\ shown'[v] = [i \in 1..(reply[v].next - reply[v].from) |-> reply[v].from + i - 1]
         /\ shown'[v] \in Seq(Seqs)
         /\ Len(shown'[v]) = reply[v].next - reply[v].from
<1>1. /\ reply[v].from \in Nat /\ reply[v].next \in Nat
      /\ reply[v].from <= reply[v].next /\ reply[v].next <= next
      /\ next \in Nat /\ next <= MaxChunks /\ MaxChunks \in Nat
      /\ shown[v] = <<>>
  BY BacklogAssumption DEF IInv, TypeOK, DeliveryInv, RepliesMeet, CatchUp
<1>2. shown'[v] = [i \in 1..(reply[v].next - reply[v].from) |-> reply[v].from + i - 1]
  BY DEF CatchUp, IInv, TypeOK
<1>3. reply[v].next - reply[v].from \in Nat
  BY <1>1
<1>4. \A i \in 1..(reply[v].next - reply[v].from) : reply[v].from + i - 1 \in Seqs
  BY <1>1 DEF Seqs
<1>5. shown'[v] \in Seq(Seqs)
  BY <1>2, <1>3, <1>4
<1>6. Len(shown'[v]) = reply[v].next - reply[v].from
  BY <1>2, <1>3
<1> QED BY <1>1, <1>2, <1>5, <1>6

(* A view that has caught up ends where its backlog did, and its events    *)
(* begin no later.                                                         *)
LEMMA CatchUpInv == ASSUME IInv, NEW v \in Views, CatchUp(v) PROVE IInv'
<1>1. UNCHANGED <<next, pump, events, reply, attached>>
  BY DEF CatchUp, pumpVars, backlogVars
<1>2. /\ stage' = [stage EXCEPT ![v] = "ready"]
      /\ cursor' = [cursor EXCEPT ![v] = reply[v].next]
      /\ \A u \in Views \ {v} : shown'[u] = shown[u]
      /\ stage[v] = "answered"
  BY DEF CatchUp, IInv, TypeOK
<1>3. TypeOK'
  <2>1. shown' \in [Views -> Seq(Seqs)]
    BY CaughtUp DEF CatchUp, IInv, TypeOK
  <2>2. closeSent' \in BOOLEAN
    BY DEF CatchUp, IInv, TypeOK
  <2>3. cursor' \in [Views -> Nat] /\ stage' \in [Views -> Stage]
    BY <1>2, CaughtUp DEF IInv, TypeOK, Stage
  <2> QED
    BY <1>1, <2>1, <2>2, <2>3 DEF CatchUp, IInv, TypeOK, shellVars, pumpVars, backlogVars
<1>4. Sent' = Sent /\ \A u \in Views : First(u)' = First(u)
  BY <1>1 DEF Sent, First
<1>5. /\ \A u \in Views \ {v} : stage'[u] = stage[u] /\ cursor'[u] = cursor[u]
      /\ stage'[v] = "ready" /\ cursor'[v] = reply[v].next
  BY <1>2 DEF IInv, TypeOK
<1>6. EventsFollow'
  <2>1. \A u \in Views : u \notin Listening' => u \notin Listening
    BY <1>5 DEF Listening
  <2> QED BY <1>1, <1>4, <2>1 DEF IInv, DeliveryInv, EventsFollow
<1>7. RepliesMeet' /\ NothingShownYet' /\ EmittingIsAttached'
  BY <1>1, <1>2, <1>4, <1>5
  DEF IInv, DeliveryInv, RepliesMeet, NothingShownYet, EmittingIsAttached
<1>8. ShownMeets'
  <2> SUFFICES ASSUME NEW u \in Views, stage'[u] = "ready"
               PROVE  /\ attached' /\ cursor'[u] <= next'
                      /\ shown'[u] # <<>> =>
                           shown'[u][Len(shown'[u])] + 1
                             = IF First(u)' > cursor'[u] THEN First(u)' ELSE cursor'[u]
    BY DEF ShownMeets
  <2>1. CASE u # v
    BY <1>1, <1>2, <1>4, <1>5, <2>1 DEF IInv, DeliveryInv, ShownMeets
  <2>2. CASE u = v
    <3>1. attached /\ First(v) <= reply[v].next
      BY <1>2 DEF IInv, DeliveryInv, RepliesMeet
    <3>2. First(v) \in Int
      BY DEF First, Sent, IInv, TypeOK
    <3>3. shown'[v] # <<>> => shown'[v][Len(shown'[v])] + 1 = reply[v].next
      <4> SUFFICES ASSUME shown'[v] # <<>>
                   PROVE  shown'[v][Len(shown'[v])] + 1 = reply[v].next
        OBVIOUS
      <4> DEFINE n == reply[v].next - reply[v].from
      <4>1. shown'[v] \in Seq(Seqs) /\ Len(shown'[v]) = n
        BY CaughtUp
      <4>2. n # 0
        BY <4>1, EmptySeq
      <4>3. n \in Nat /\ reply[v].from \in Nat /\ reply[v].next \in Nat
        <5>1. /\ reply[v].from \in Nat /\ reply[v].next \in Nat
              /\ reply[v].from <= reply[v].next
          BY CaughtUp
        <5> QED BY <5>1
      <4>4. shown'[v] = [i \in 1..n |-> reply[v].from + i - 1]
        BY CaughtUp
      <4>5. shown'[v][n] = reply[v].from + n - 1
        BY <4>2, <4>3, <4>4
      <4> QED BY <4>1, <4>3, <4>5
    <3>4. reply[v].next <= next /\ reply[v].next \in Nat
      BY CaughtUp
    <3>5. First(v)' = First(v) /\ next' = next /\ attached' = attached
      BY <1>1, <1>4
    <3>6. cursor'[v] = reply[v].next
      BY <1>5
    <3> QED BY <2>2, <3>1, <3>2, <3>3, <3>4, <3>5, <3>6
  <2> QED BY <2>1, <2>2
<1> QED BY <1>3, <1>6, <1>7, <1>8 DEF IInv, DeliveryInv

(* A view that goes takes its events with it. *)
LEMMA UnmountInv == ASSUME IInv, NEW v \in Views, Unmount(v) PROVE IInv'
<1>1. UNCHANGED <<next, attached, pump, reply, cursor, shown>>
  BY DEF Unmount, pumpVars, backlogVars
<1>2. /\ stage'[v] \in {"left", "gone"} /\ events'[v] = <<>>
      /\ \A u \in Views \ {v} : stage'[u] = stage[u] /\ events'[u] = events[u]
      /\ stage' \in [Views -> Stage] /\ events' \in [Views -> Seq(Seqs)]
  BY DEF Unmount, IInv, TypeOK, Stage
<1>3. TypeOK'
  BY <1>1, <1>2 DEF Unmount, IInv, TypeOK, shellVars, pumpVars, backlogVars, sessionVars
<1>4. Sent' = Sent /\ Sent \in Nat
  <2>1. next \in Nat /\ (pump = "emitting" => next > 0)
    BY BacklogAssumption DEF IInv, TypeOK, DeliveryInv, EmittingIsAttached
  <2> QED BY <1>1, <2>1 DEF Sent
<1>5. \A u \in Views \ {v} : First(u)' = First(u)
  BY <1>2, <1>4 DEF First
<1>6. EventsFollow'
  <2> SUFFICES ASSUME NEW u \in Views
               PROVE  /\ Len(events'[u]) <= Sent'
                      /\ \A i \in 1..Len(events'[u]) : events'[u][i] = First(u)' + i - 1
                      /\ u \notin Listening' \/ ~attached' => events'[u] = <<>>
    BY DEF EventsFollow
  <2>1. CASE u = v
    <3>1. events'[v] = <<>> /\ Len(events'[v]) = 0
      BY <1>2
    <3> QED BY <1>4, <2>1, <3>1
  <2>2. CASE u # v
    <3>1. u \notin Listening' => u \notin Listening
      BY <1>2, <2>2 DEF Listening
    <3> QED BY <1>1, <1>2, <1>4, <1>5, <2>2, <3>1 DEF IInv, DeliveryInv, EventsFollow
  <2> QED BY <2>1, <2>2
<1>7. RepliesMeet' /\ ShownMeets'
  BY <1>1, <1>2, <1>5 DEF IInv, DeliveryInv, RepliesMeet, ShownMeets
<1>8. NothingShownYet' /\ EmittingIsAttached'
  BY <1>1, <1>2 DEF IInv, DeliveryInv, NothingShownYet, EmittingIsAttached
<1> QED BY <1>3, <1>6, <1>7, <1>8 DEF IInv, DeliveryInv

(* The event a view handles is the first that it has not, and it is shown  *)
(* exactly if nothing later has been.                                      *)
LEMMA Heard ==
  ASSUME IInv, NEW v \in Views, Hear(v)
  PROVE  /\ events[v] \in Seq(Seqs) /\ Len(events[v]) > 0 /\ Len(events[v]) \in Nat
         /\ Head(events[v]) = First(v) /\ First(v) \in Seqs /\ First(v) < next
         /\ First(v)' = First(v) + 1
         /\ events'[v] = Tail(events[v])
         /\ shown'[v] = IF First(v) >= cursor[v] THEN Append(shown[v], First(v)) ELSE shown[v]
         /\ cursor[v] \in Nat /\ shown[v] \in Seq(Seqs)
<1>1. events[v] \in Seq(Seqs) /\ events[v] # <<>>
  BY DEF Hear, IInv, TypeOK
<1>2. Len(events[v]) > 0 /\ Len(events[v]) \in Nat
  BY <1>1, EmptySeq
<1>3. /\ events[v][1] = First(v) + 1 - 1 /\ Len(events[v]) <= Sent
  BY <1>2 DEF IInv, DeliveryInv, EventsFollow
<1>4. next \in Nat /\ next <= MaxChunks /\ Sent <= next /\ Sent \in Int /\ MaxChunks \in Nat
  BY BacklogAssumption DEF IInv, TypeOK, Sent
<1>5. First(v) \in Nat /\ First(v) < next
  BY <1>2, <1>3, <1>4 DEF First
<1>6. Head(events[v]) = First(v) /\ First(v) \in Seqs
  BY <1>1, <1>3, <1>4, <1>5 DEF Seqs
<1>7. events'[v] = Tail(events[v]) /\ Len(events'[v]) = Len(events[v]) - 1
  BY <1>1, <1>2 DEF Hear, IInv, TypeOK
<1>8. First(v)' = First(v) + 1
  <2>1. Sent' = Sent
    BY DEF Hear, Sent, pumpVars, backlogVars
  <2>2. First(v)' = Sent' - Len(events'[v]) /\ First(v) = Sent - Len(events[v])
    BY DEF First
  <2> QED BY <1>2, <1>4, <1>7, <2>1, <2>2
<1>9. cursor[v] \in Nat /\ shown[v] \in Seq(Seqs)
  BY DEF IInv, TypeOK
<1>10. shown'[v] = IF First(v) >= cursor[v] THEN Append(shown[v], First(v)) ELSE shown[v]
  BY <1>6 DEF Hear, IsNew, IInv, TypeOK
<1> QED BY <1>1, <1>2, <1>5, <1>6, <1>7, <1>8, <1>9, <1>10

(* A view that handles an event ends with it, or still with its backlog if *)
(* it is older.                                                            *)
LEMMA HearInv == ASSUME IInv, NEW v \in Views, Hear(v) PROVE IInv'
<1>1. UNCHANGED <<next, attached, pump, stage, reply, cursor>> /\ stage[v] = "ready"
  BY DEF Hear, pumpVars, backlogVars
<1>2. \A u \in Views \ {v} : events'[u] = events[u] /\ shown'[u] = shown[u]
  BY DEF Hear, IInv, TypeOK
<1>3. Sent' = Sent /\ Listening' = Listening
  BY <1>1 DEF Sent, Listening
<1>4. \A u \in Views \ {v} : First(u)' = First(u)
  BY <1>2, <1>3 DEF First
<1>5. TypeOK'
  <2>1. events' \in [Views -> Seq(Seqs)]
    BY Heard DEF Hear, IInv, TypeOK
  <2>2. shown' \in [Views -> Seq(Seqs)]
    <3>1. Head(events[v]) \in Seqs /\ shown[v] \in Seq(Seqs)
      BY Heard
    <3> QED BY <3>1 DEF Hear, IInv, TypeOK
  <2> QED
    BY <1>1, <2>1, <2>2 DEF Hear, IInv, TypeOK, shellVars, pumpVars, backlogVars, sessionVars
<1>6. EventsFollow'
  <2> SUFFICES ASSUME NEW u \in Views
               PROVE  /\ Len(events'[u]) <= Sent'
                      /\ \A i \in 1..Len(events'[u]) : events'[u][i] = First(u)' + i - 1
                      /\ u \notin Listening' \/ ~attached' => events'[u] = <<>>
    BY DEF EventsFollow
  <2>1. CASE u = v
    <3>1. events[v] \in Seq(Seqs) /\ Len(events[v]) > 0 /\ Len(events[v]) \in Nat
      BY Heard
    <3>2. events'[v] = Tail(events[v]) /\ First(v)' = First(v) + 1
      BY Heard
    <3>3. Len(events'[v]) = Len(events[v]) - 1
      BY <3>1, <3>2
    <3>4. /\ Len(events[v]) <= Sent
          /\ \A i \in 1..Len(events[v]) : events[v][i] = First(v) + i - 1
      BY DEF IInv, DeliveryInv, EventsFollow
    <3>5. First(v) \in Int /\ Sent \in Int
      BY BacklogAssumption DEF First, Sent, IInv, TypeOK
    <3>6. ASSUME NEW i \in 1..Len(events'[v]) PROVE events'[v][i] = First(v)' + i - 1
      <4>1. events'[v][i] = events[v][i + 1] /\ i + 1 \in 1..Len(events[v])
        BY <3>1, <3>2, <3>3
      <4>2. events[v][i + 1] = First(v) + (i + 1) - 1
        BY <3>4, <4>1
      <4> QED BY <3>2, <3>5, <4>1, <4>2
    <3>7. v \in Listening' /\ attached'
      BY <1>1, <1>3 DEF Listening, IInv, DeliveryInv, ShownMeets
    <3> QED BY <1>3, <2>1, <3>1, <3>3, <3>4, <3>5, <3>6, <3>7
  <2>2. CASE u # v
    BY <1>1, <1>2, <1>3, <1>4, <2>2 DEF IInv, DeliveryInv, EventsFollow
  <2> QED BY <2>1, <2>2
<1>7. RepliesMeet' /\ NothingShownYet' /\ EmittingIsAttached'
  BY <1>1, <1>2, <1>4 DEF IInv, DeliveryInv, RepliesMeet, NothingShownYet, EmittingIsAttached
<1>8. ShownMeets'
  <2> SUFFICES ASSUME NEW u \in Views, stage[u] = "ready"
               PROVE  /\ attached' /\ cursor'[u] <= next'
                      /\ shown'[u] # <<>> =>
                           shown'[u][Len(shown'[u])] + 1
                             = IF First(u)' > cursor'[u] THEN First(u)' ELSE cursor'[u]
    BY <1>1 DEF ShownMeets
  <2>1. CASE u # v
    BY <1>1, <1>2, <1>4, <2>1 DEF IInv, DeliveryInv, ShownMeets
  <2>2. CASE u = v
    <3>1. /\ attached /\ cursor[v] <= next
          /\ shown[v] # <<>> =>
               shown[v][Len(shown[v])] + 1 = IF First(v) > cursor[v] THEN First(v) ELSE cursor[v]
      BY <1>1 DEF IInv, DeliveryInv, ShownMeets
    <3>2. First(v) \in Nat /\ First(v)' = First(v) + 1 /\ cursor[v] \in Nat
      BY Heard DEF Seqs
    <3>3. CASE First(v) >= cursor[v]
      <4>1. shown'[v] = Append(shown[v], First(v)) /\ shown[v] \in Seq(Seqs)
        BY <3>3, Heard
      <4>2. shown'[v][Len(shown'[v])] = First(v)
        BY <4>1
      <4> QED BY <1>1, <2>2, <3>1, <3>2, <3>3, <4>2
    <3>4. CASE First(v) < cursor[v]
      <4>1. shown'[v] = shown[v]
        BY <3>2, <3>4, Heard
      <4> QED BY <1>1, <2>2, <3>1, <3>2, <3>4, <4>1
    <3> QED BY <3>2, <3>3, <3>4
  <2> QED BY <2>1, <2>2
<1> QED BY <1>5, <1>6, <1>7, <1>8 DEF IInv, DeliveryInv

(* Every step keeps the invariant. *)
LEMMA NextInv == IInv /\ [Next]_vars => IInv'
<1> SUFFICES ASSUME IInv, [Next]_vars PROVE IInv'
  OBVIOUS
<1>1. CASE \E n \in 1..Len(stream) : Read(n)
  BY <1>1, ReadInv
<1>2. CASE Emit
  BY <1>2, EmitInv
<1>3. CASE EndOfFile \/ EmitExit \/ ShellExits \/ Close
  BY <1>3, RecordInv
<1>4. ASSUME NEW v \in Views,
             Mount(v) \/ ListenExit(v) \/ ListenData(v) \/ Attach(v) \/ CatchUp(v)
               \/ Hear(v) \/ HearExit(v) \/ Unmount(v) \/ AskClose(v)
      PROVE  IInv'
  BY <1>4, RecordInv, BeginInv, AttachInv, CatchUpInv, HearInv, UnmountInv
<1>5. CASE UNCHANGED vars
  BY <1>5 DEF vars, shellVars, pumpVars, backlogVars, sessionVars, viewVars, IInv, TypeOK,
              DeliveryInv, EventsFollow, RepliesMeet, ShownMeets, NothingShownYet,
              EmittingIsAttached, Listening, Sent, First
<1> QED BY <1>1, <1>2, <1>3, <1>4, <1>5 DEF Next

(* IInv holds of every state: what a view has shown, what waits for it and *)
(* what it will be handed meet without a gap and without an overlap.       *)
THEOREM DeliveryHolds == Spec => []IInv
<1> QED BY InitInv, NextInv, PTL DEF Spec

(* Every variable of a session holds what its declaration says. *)
THEOREM SessionTypeCorrect == Spec => []TypeOK
<1>1. IInv => TypeOK
  BY DEF IInv
<1> QED BY <1>1, DeliveryHolds, PTL

-----------------------------------------------------------------------------
(* A session shows the stream it promises *)

(* To show nothing is to show an empty run, which the promise counts as no *)
(* step; to show a run is one step of the promise.                         *)
LEMMA ShowsRun ==
  ASSUME NEW v \in Views, shown \in [Views -> Seq(Seqs)], next \in Nat,
         NEW first \in 0..(next - 1), NEW last \in 0..(next - 1), first <= last,
         shown[v] # <<>> => first = shown[v][Len(shown[v])] + 1,
         shown' = [shown EXCEPT ![v] = @ \o Promise!Run(first, last)],
         next' = next
  PROVE  Promise!Show(v)
BY DEF Promise!Show

(* A view that catches up shows, in one step, the backlog it was handed. *)
LEMMA CatchUpShows ==
  ASSUME IInv, NEW v \in Views, CatchUp(v)
  PROVE  Promise!Show(v) \/ UNCHANGED <<next, shown>>
<1> DEFINE from == reply[v].from
           to == reply[v].next
<1>1. /\ from \in Nat /\ to \in Nat /\ from <= to /\ to <= next /\ next \in Nat
      /\ shown[v] = <<>>
  BY CaughtUp
<1>2. /\ shown \in [Views -> Seq(Seqs)] /\ next' = next
      /\ shown' = [shown EXCEPT ![v] = [i \in 1..(to - from) |-> from + i - 1]]
  BY DEF CatchUp, IInv, TypeOK, backlogVars
<1>3. CASE from = to
  <2>1. [i \in 1..(to - from) |-> from + i - 1] = <<>>
    BY <1>1, <1>3
  <2> QED BY <1>1, <1>2, <2>1
<1>4. CASE from < to
  <2>1. Promise!Run(from, to - 1) = [i \in 1..(to - from) |-> from + i - 1]
    BY <1>1 DEF Promise!Run
  <2>2. \A i \in 1..(to - from) : from + i - 1 \in Nat
    BY <1>1
  <2>3. Promise!Run(from, to - 1) \in Seq(Nat)
    BY <1>1, <2>1, <2>2
  <2>4. <<>> \o Promise!Run(from, to - 1) = Promise!Run(from, to - 1)
    BY <2>3
  <2>5. shown' = [shown EXCEPT ![v] = @ \o Promise!Run(from, to - 1)]
    BY <1>1, <1>2, <2>1, <2>4
  <2>6. from \in 0..(next - 1) /\ to - 1 \in 0..(next - 1) /\ from <= to - 1
    BY <1>1, <1>4
  <2> QED BY <1>1, <1>2, <2>5, <2>6, ShowsRun
<1> QED BY <1>1, <1>3, <1>4

(* An event shown is the one that follows the last chunk shown. *)
LEMMA HearShows ==
  ASSUME IInv, NEW v \in Views, Hear(v)
  PROVE  Promise!Show(v) \/ UNCHANGED <<next, shown>>
<1>1. /\ First(v) \in Nat /\ First(v) < next /\ next \in Nat /\ cursor[v] \in Nat
      /\ shown[v] \in Seq(Seqs) /\ shown \in [Views -> Seq(Seqs)]
  <2>1. next \in Nat /\ cursor \in [Views -> Nat] /\ shown \in [Views -> Seq(Seqs)]
    BY BacklogAssumption DEF IInv, TypeOK
  <2>2. First(v) \in Seqs /\ First(v) < next
    BY Heard
  <2>3. Seqs \subseteq Nat
    BY BacklogAssumption DEF Seqs
  <2> QED BY <2>1, <2>2, <2>3
<1>2. next' = next
  BY DEF Hear, backlogVars
<1>3. shown' = [shown EXCEPT ![v] = shown'[v]]
  BY <1>1 DEF Hear
<1>4. CASE First(v) < cursor[v]
  <2>1. shown'[v] = shown[v]
    BY <1>1, <1>4, Heard
  <2> QED BY <1>1, <1>2, <1>3, <2>1
<1>5. CASE First(v) >= cursor[v]
  <2>1. shown'[v] = Append(shown[v], First(v))
    BY <1>5, Heard
  <2>2. Promise!Run(First(v), First(v)) = <<First(v)>>
    <3>1. Promise!Run(First(v), First(v)) = [i \in 1..1 |-> First(v)]
      BY <1>1 DEF Promise!Run
    <3> QED BY <3>1
  <2>3. shown'[v] = shown[v] \o Promise!Run(First(v), First(v))
    BY <1>1, <2>1, <2>2
  <2>4. shown[v] # <<>> => First(v) = shown[v][Len(shown[v])] + 1
    BY <1>1, <1>5 DEF IInv, DeliveryInv, ShownMeets, Hear
  <2>5. First(v) \in 0..(next - 1) /\ First(v) <= First(v)
    BY <1>1
  <2>6. shown' = [shown EXCEPT ![v] = @ \o Promise!Run(First(v), First(v))]
    BY <1>3, <2>3
  <2>7. Promise!Show(v)
    BY <1>1, <1>2, <2>4, <2>5, <2>6, ShowsRun
  <2> QED BY <2>7
<1> QED BY <1>1, <1>4, <1>5

(* A session implements the promise: each of its steps says something,     *)
(* shows something or leaves both alone.                                   *)
LEMMA StepsKeepThePromise == IInv /\ [Next]_vars => [Promise!Next]_(Promise!vars)
<1> SUFFICES ASSUME IInv, [Next]_vars PROVE Promise!Next \/ UNCHANGED <<next, shown>>
  BY DEF Promise!vars
<1>1. ASSUME NEW n \in 1..Len(stream), Read(n)
      PROVE  Promise!Next \/ UNCHANGED <<next, shown>>
  BY <1>1 DEF Read, Push, viewVars, Promise!Next, Promise!Say
<1>2. CASE Emit \/ EndOfFile \/ EmitExit \/ ShellExits \/ Close
  BY <1>2 DEF Emit, EndOfFile, EmitExit, ShellExits, Close, backlogVars, viewVars
<1>3. ASSUME NEW v \in Views,
             Mount(v) \/ ListenExit(v) \/ ListenData(v) \/ Attach(v) \/ HearExit(v)
               \/ Unmount(v) \/ AskClose(v)
      PROVE  UNCHANGED <<next, shown>>
  BY <1>3 DEF Mount, ListenExit, ListenData, Attach, HearExit, Unmount, AskClose,
              backlogVars, viewVars
<1>4. ASSUME NEW v \in Views, CatchUp(v) \/ Hear(v)
      PROVE  Promise!Next \/ UNCHANGED <<next, shown>>
  BY <1>4, CatchUpShows, HearShows DEF Promise!Next
<1>5. CASE UNCHANGED vars
  BY <1>5 DEF vars, backlogVars, viewVars
<1> QED BY <1>1, <1>2, <1>3, <1>4, <1>5 DEF Next

(* Whatever the interleaving of reads, emits, attaches, answers and events, *)
(* every view shows an unbroken run of the chunks, in order, none twice.    *)
THEOREM ShowsTheStreamAlways == Spec => ShowsTheStream
<1>1. Init => Promise!Init
  BY DEF Init, Promise!Init
<1> QED BY <1>1, DeliveryHolds, StepsKeepThePromise, PTL
        DEF Spec, ShowsTheStream, Promise!Spec

-----------------------------------------------------------------------------
(* What a view begins with *)

(* While everything said fits, the backlog begins at the first chunk, and  *)
(* it is empty only before there is one.                                   *)
BacklogWhole ==
  /\ decoded <= Budget => oldest = 0
  /\ oldest < next \/ next = 0

(* So does what a view is handed, and one handed nothing has the first     *)
(* chunk before it.                                                        *)
HandedWhole ==
  \A v \in Views : stage[v] = "answered" =>
    /\ decoded <= Budget => reply[v].from = 0
    /\ reply[v].from < reply[v].next \/ reply[v].next = 0
BeginsAtFirst ==
  \A v \in Views : stage[v] = "ready" /\ shown[v] = <<>> => cursor[v] = 0 /\ First(v) <= 0

HistoryInv == BacklogWhole /\ HandedWhole /\ BeginsAtFirst /\ HistoryKept

(* A chunk is dropped only when what was said is more than may be held. *)
LEMMA NothingTrimmed ==
  ASSUME TypeOK, NEW n \in Nat, n <= Budget
  PROVE  Oldest(n) = oldest
<1> DEFINE stays == {s \in oldest..next : s = next \/ Keeps(s, n)}
<1>1. \A s \in stays : s \in Nat /\ s <= next
  BY BacklogAssumption DEF TypeOK
<1>2. oldest \in stays
  <2>1. oldest \in oldest..next /\ (oldest = next \/ oldest \in Seqs)
    BY BacklogAssumption DEF TypeOK, Seqs
  <2>2. oldest \in Seqs => Keeps(oldest, n)
    <3>1. ASSUME oldest \in Seqs PROVE starts[oldest] \in Nat
      BY <3>1 DEF TypeOK
    <3> QED BY <3>1, BacklogAssumption DEF Keeps
  <2> QED BY <2>1, <2>2
<1>3. \A s \in stays : oldest <= s
  BY DEF TypeOK
<1> HIDE DEF stays
<1>4. (CHOOSE s \in stays : \A t \in stays : s <= t) = oldest
  <2> DEFINE least == CHOOSE s \in stays : \A t \in stays : s <= t
  <2>1. least \in stays /\ \A t \in stays : least <= t
    BY <1>2, <1>3
  <2>2. least <= oldest /\ oldest <= least /\ least \in Nat /\ oldest \in Nat
    BY <1>1, <1>2, <1>3, <2>1
  <2> HIDE DEF least
  <2>3. least = oldest
    BY <2>2
  <2> QED BY <2>3 DEF least
<1> QED BY <1>4 DEF Oldest, stays

(* Steps that neither store, hand out, show nor emit. *)
LEMMA HistoryQuiet ==
  ASSUME IInv, HistoryInv,
         UNCHANGED <<decoded, oldest, next, pump, reply, cursor, shown>>,
         \A v \in Views : /\ stage'[v] = "answered" => stage[v] = "answered"
                          /\ stage'[v] = "ready" => stage[v] = "ready" /\ events'[v] = events[v]
  PROVE  HistoryInv'
<1>1. \A v \in Views : events'[v] = events[v] => First(v)' = First(v)
  BY DEF First, Sent
<1>2. BacklogWhole' /\ HandedWhole' /\ HistoryKept'
  BY DEF HistoryInv, BacklogWhole, HandedWhole, HistoryKept
<1>3. BeginsAtFirst'
  BY <1>1 DEF HistoryInv, BeginsAtFirst
<1> QED BY <1>2, <1>3 DEF HistoryInv

(* A read trims only when too much was said, and then nothing is claimed.  *)
LEMMA ReadHistory ==
  ASSUME IInv, HistoryInv, NEW n \in 1..Len(stream), Read(n)
  PROVE  HistoryInv'
<1>1. UNCHANGED <<stage, events, reply, cursor, shown>>
  BY DEF Read, viewVars
<1>2. CASE UNCHANGED <<decoded, pump, oldest, next, starts>>
  BY <1>1, <1>2, HistoryQuiet
<1>3. CASE ValidUpTo(n) > decoded /\ Push(ValidUpTo(n))
  <2> DEFINE m == ValidUpTo(n)
  <2>1. n \in Nat /\ read <= n
    BY BacklogAssumption DEF IInv, TypeOK, Read
  <2>2. m \in Nat /\ m > decoded /\ decoded \in Nat /\ decoded' = m
    BY <1>3, <2>1, ValidUpToType DEF Push, IInv, TypeOK
  <2>3. /\ oldest' = Oldest(m) /\ Oldest(m) \in oldest..next /\ next' = next + 1
        /\ next \in Nat /\ oldest \in Nat
    BY <1>3, OldestType, BacklogAssumption DEF Push, IInv, TypeOK
  <2>4. m <= Budget => Oldest(m) = oldest
    BY <2>2, NothingTrimmed DEF IInv
  <2>5. m <= Budget => decoded <= Budget
    BY <2>2, BacklogAssumption
  <2>6. BacklogWhole'
    BY <2>2, <2>3, <2>4, <2>5 DEF HistoryInv, BacklogWhole
  <2>7. HandedWhole' /\ HistoryKept'
    BY <1>1, <2>2, <2>5 DEF HistoryInv, HandedWhole, HistoryKept
  <2>8. BeginsAtFirst'
    <3> SUFFICES ASSUME NEW v \in Views, stage[v] = "ready", shown[v] = <<>>
                 PROVE  cursor[v] = 0 /\ First(v)' <= 0
      BY <1>1 DEF BeginsAtFirst
    <3>1. attached /\ cursor[v] = 0 /\ First(v) <= 0
      BY DEF HistoryInv, BeginsAtFirst, IInv, DeliveryInv, ShownMeets
    <3>2. pump = "reading" /\ pump' = "emitting"
      BY <1>3, <3>1 DEF Read, Push
    <3>3. Sent' = Sent
      BY <2>3, <3>2 DEF Sent
    <3> QED BY <1>1, <3>1, <3>3 DEF First
  <2> QED BY <2>6, <2>7, <2>8 DEF HistoryInv
<1> QED BY <1>2, <1>3 DEF Read

(* A chunk emitted is the last a listening view has to handle. *)
LEMMA EmitHistory ==
  ASSUME IInv, HistoryInv, Emit
  PROVE  HistoryInv'
<1>1. UNCHANGED <<decoded, oldest, next, stage, reply, cursor, shown>>
  BY DEF Emit, backlogVars
<1>2. \A v \in Views : stage[v] = "ready" => First(v)' = First(v)
  <2> SUFFICES ASSUME NEW v \in Views, stage[v] = "ready" PROVE First(v)' = First(v)
    OBVIOUS
  <2>1. events'[v] = Append(events[v], next - 1) /\ events[v] \in Seq(Seqs)
    BY DEF Emit, Emitted, Listening, IInv, TypeOK
  <2>2. next \in Nat /\ next > 0 /\ next <= MaxChunks /\ MaxChunks \in Nat
    BY BacklogAssumption DEF Emit, IInv, TypeOK, DeliveryInv, EmittingIsAttached
  <2>3. next - 1 \in Seqs
    BY <2>2 DEF Seqs
  <2>4. Len(events'[v]) = Len(events[v]) + 1 /\ Len(events[v]) \in Nat
    BY <2>1, <2>3
  <2>5. Sent = next - 1 /\ Sent' = next
    BY <1>1 DEF Emit, Sent
  <2> QED BY <2>2, <2>4, <2>5 DEF First
<1>3. BacklogWhole' /\ HandedWhole' /\ HistoryKept'
  BY <1>1 DEF HistoryInv, BacklogWhole, HandedWhole, HistoryKept
<1>4. BeginsAtFirst'
  BY <1>1, <1>2 DEF HistoryInv, BeginsAtFirst
<1> QED BY <1>3, <1>4 DEF HistoryInv

(* A view is handed the backlog as it is. *)
LEMMA AttachHistory ==
  ASSUME IInv, HistoryInv, NEW v \in Views, Attach(v)
  PROVE  HistoryInv'
<1>1. UNCHANGED <<decoded, oldest, next, pump, events, cursor, shown>>
  BY DEF Attach, pumpVars, viewVars
<1>2. /\ \A u \in Views \ {v} : stage'[u] = stage[u] /\ reply'[u] = reply[u]
      /\ stage'[v] \in {"gone", "answered", "refused"}
      /\ stage'[v] = "answered" => reply'[v] = Attachment
  BY DEF Attach, IInv, TypeOK
<1>3. Attachment.from = oldest /\ Attachment.next = next
  BY DEF Attachment
<1>4. BacklogWhole' /\ HistoryKept'
  BY <1>1 DEF HistoryInv, BacklogWhole, HistoryKept
<1>5. HandedWhole'
  BY <1>1, <1>2, <1>3 DEF HistoryInv, HandedWhole, BacklogWhole
<1>6. BeginsAtFirst'
  <2>1. \A u \in Views : First(u)' = First(u)
    BY <1>1 DEF First, Sent
  <2> QED BY <1>1, <1>2, <2>1 DEF HistoryInv, BeginsAtFirst
<1> QED BY <1>4, <1>5, <1>6 DEF HistoryInv

(* What a view catches up with is what it was handed. *)
LEMMA CatchUpHistory ==
  ASSUME IInv, HistoryInv, NEW v \in Views, CatchUp(v)
  PROVE  HistoryInv'
<1>1. UNCHANGED <<decoded, oldest, next, pump, events, reply>>
  BY DEF CatchUp, pumpVars, backlogVars
<1>2. /\ \A u \in Views \ {v} : stage'[u] = stage[u] /\ cursor'[u] = cursor[u] /\ shown'[u] = shown[u]
      /\ stage[v] = "answered" /\ stage'[v] = "ready" /\ cursor'[v] = reply[v].next
  BY DEF CatchUp, IInv, TypeOK
<1>3. \A u \in Views : First(u)' = First(u)
  BY <1>1 DEF First, Sent
<1>4. BacklogWhole' /\ HandedWhole'
  BY <1>1, <1>2 DEF HistoryInv, BacklogWhole, HandedWhole
<1> DEFINE from == reply[v].from
           to == reply[v].next
           n == to - from
<1>5. /\ from \in Nat /\ to \in Nat /\ from <= to /\ n \in Nat
      /\ shown'[v] = [i \in 1..n |-> from + i - 1]
      /\ shown'[v] \in Seq(Seqs) /\ Len(shown'[v]) = n
  BY CaughtUp
<1>6. /\ decoded <= Budget => from = 0
      /\ from < to \/ to = 0
      /\ First(v) <= to
  BY <1>2 DEF HistoryInv, HandedWhole, IInv, DeliveryInv, RepliesMeet
<1>7. HistoryKept'
  <2> SUFFICES ASSUME NEW u \in Views, shown'[u] # <<>>, decoded <= Budget
               PROVE  shown'[u][1] = 0
    BY <1>1 DEF HistoryKept
  <2>1. CASE u # v
    BY <1>2, <2>1 DEF HistoryInv, HistoryKept
  <2>2. CASE u = v
    <3>1. n # 0
      BY <1>5, <2>2, EmptySeq
    <3>2. shown'[v][1] = from + 1 - 1
      BY <1>5, <3>1
    <3>3. from = 0
      BY <1>6
    <3>4. shown'[v][1] = 0
      BY <3>2, <3>3
    <3> QED BY <2>2, <3>4
  <2> QED BY <2>1, <2>2
<1>8. BeginsAtFirst'
  <2> SUFFICES ASSUME NEW u \in Views, stage'[u] = "ready", shown'[u] = <<>>
               PROVE  cursor'[u] = 0 /\ First(u) <= 0
    BY <1>3 DEF BeginsAtFirst
  <2>1. CASE u # v
    BY <1>2, <2>1 DEF HistoryInv, BeginsAtFirst
  <2>2. CASE u = v
    <3>1. n = 0
      BY <1>5, <2>2
    <3> QED BY <1>2, <1>5, <1>6, <2>2, <3>1
  <2> QED BY <2>1, <2>2
<1> QED BY <1>4, <1>7, <1>8 DEF HistoryInv

(* The first event of a view that was handed nothing is the first chunk. *)
LEMMA HearHistory ==
  ASSUME IInv, HistoryInv, NEW v \in Views, Hear(v)
  PROVE  HistoryInv'
<1>1. UNCHANGED <<decoded, oldest, next, pump, stage, reply, cursor>> /\ stage[v] = "ready"
  BY DEF Hear, pumpVars, backlogVars
<1>2. \A u \in Views \ {v} : events'[u] = events[u] /\ shown'[u] = shown[u]
  BY DEF Hear, IInv, TypeOK
<1>3. \A u \in Views \ {v} : First(u)' = First(u)
  BY <1>1, <1>2 DEF First, Sent
<1>4. BacklogWhole' /\ HandedWhole'
  BY <1>1 DEF HistoryInv, BacklogWhole, HandedWhole
<1>5. /\ First(v) \in Nat /\ cursor[v] \in Nat /\ shown[v] \in Seq(Seqs) /\ First(v) \in Seqs
      /\ shown'[v] = IF First(v) >= cursor[v] THEN Append(shown[v], First(v)) ELSE shown[v]
  BY Heard DEF Seqs
<1>6. CASE shown[v] = <<>>
  <2>1. cursor[v] = 0 /\ First(v) = 0
    BY <1>1, <1>5, <1>6 DEF HistoryInv, BeginsAtFirst
  <2>2. shown'[v] = <<First(v)>>
    BY <1>5, <1>6, <2>1
  <2>3. shown'[v] # <<>> /\ shown'[v][1] = 0
    BY <2>1, <2>2
  <2> QED BY <1>1, <1>2, <1>3, <1>4, <2>3 DEF HistoryInv, BeginsAtFirst, HistoryKept
<1>7. CASE shown[v] # <<>>
  <2>1. shown'[v] # <<>> /\ shown'[v][1] = shown[v][1]
    BY <1>5, <1>7
  <2> QED BY <1>1, <1>2, <1>3, <1>4, <1>7, <2>1 DEF HistoryInv, BeginsAtFirst, HistoryKept
<1> QED BY <1>6, <1>7

(* Every other step leaves what is stored, handed out and shown alone. *)
LEMMA HistoryNext == IInv /\ HistoryInv /\ [Next]_vars => HistoryInv'
<1> SUFFICES ASSUME IInv, HistoryInv, [Next]_vars PROVE HistoryInv'
  OBVIOUS
<1>1. ASSUME NEW n \in 1..Len(stream), Read(n) PROVE HistoryInv'
  BY <1>1, ReadHistory
<1>2. CASE ShellExits \/ Close
  BY <1>2, HistoryQuiet DEF ShellExits, Close, pumpVars, backlogVars, viewVars
<1>3. CASE EndOfFile \/ EmitExit
  <2>1. UNCHANGED <<decoded, oldest, next, stage, events, reply, cursor, shown>>
    BY <1>3 DEF EndOfFile, EmitExit, backlogVars, viewVars
  <2>2. \A v \in Views : First(v)' = First(v)
    BY <1>3, <2>1 DEF EndOfFile, EmitExit, First, Sent
  <2> QED BY <2>1, <2>2 DEF HistoryInv, BacklogWhole, HandedWhole, BeginsAtFirst, HistoryKept
<1>4. ASSUME NEW v \in Views, ListenExit(v) \/ HearExit(v) \/ AskClose(v) PROVE HistoryInv'
  BY <1>4, HistoryQuiet DEF ListenExit, HearExit, AskClose, pumpVars, backlogVars, viewVars
<1>5. ASSUME NEW v \in Views, Mount(v) \/ ListenData(v) \/ Unmount(v) PROVE HistoryInv'
  <2>1. UNCHANGED <<decoded, oldest, next, pump, reply, cursor, shown>>
    BY <1>5 DEF Mount, ListenData, Unmount, pumpVars, backlogVars
  <2>2. /\ stage'[v] \in {"subscribing", "asking", "left", "gone"}
        /\ \A u \in Views \ {v} : stage'[u] = stage[u] /\ events'[u] = events[u]
    BY <1>5 DEF Mount, ListenData, Unmount, IInv, TypeOK
  <2> QED BY <2>1, <2>2, HistoryQuiet
<1>6. CASE UNCHANGED vars
  BY <1>6, HistoryQuiet DEF vars, pumpVars, backlogVars, viewVars
<1> QED BY <1>1, <1>2, <1>3, <1>4, <1>5, <1>6, EmitHistory, AttachHistory, CatchUpHistory,
           HearHistory DEF Next

(* A view that attaches before more was said than the backlog may hold     *)
(* shows the session from its first chunk on, whether it is handed that    *)
(* chunk, hears it, or attaches between the two.                           *)
THEOREM HistoryAlwaysKept == Spec => []HistoryKept
<1>1. Init => HistoryInv
  BY DEF Init, HistoryInv, BacklogWhole, HandedWhole, BeginsAtFirst, HistoryKept
<1>2. HistoryInv => HistoryKept
  BY DEF HistoryInv
<1> QED BY <1>1, <1>2, HistoryNext, DeliveryHolds, PTL DEF Spec

-----------------------------------------------------------------------------
(* What is held back *)

(* A stream of characters: no byte is foreign to UTF-8, and a first byte   *)
(* and a second byte stand only beside each other.                         *)
IsText(s) ==
  \A i \in 1..Len(s) :
    /\ s[i] # "bad"
    /\ s[i] = "lead" /\ i < Len(s) => s[i + 1] = "trail"
    /\ s[i] = "trail" => i > 1 /\ s[i - 1] = "lead"

(* The pump stands between two characters. *)
AtACharacter == decoded < Len(stream) => stream[decoded + 1] # "trail"

(* What can be decoded at once is the longest that is whole. *)
LEMMA ValidUpToIsLongest ==
  ASSUME TypeOK, NEW upto \in Nat, read <= upto
  PROVE  /\ ValidUpTo(upto) \in decoded..upto /\ Whole(ValidUpTo(upto))
         /\ \A m \in decoded..upto : Whole(m) => m <= ValidUpTo(upto)
<1> DEFINE S == {n \in decoded..upto : Whole(n)}
           IsIt(n) == Whole(n) /\ \A m \in (n + 1)..upto : ~Whole(m)
<1>1. decoded \in Nat /\ decoded <= upto /\ S \in SUBSET (0..upto)
  BY BacklogAssumption DEF TypeOK
<1>2. decoded \in S
  BY <1>1 DEF Whole
<1>3. PICK n \in S : \A m \in S : m <= n
  BY <1>1, <1>2, GreatestExists
<1>4. n \in decoded..upto /\ IsIt(n)
  BY <1>1, <1>3
<1>5. ValidUpTo(upto) \in decoded..upto /\ IsIt(ValidUpTo(upto))
  BY <1>4 DEF ValidUpTo
<1>6. \A m \in decoded..upto : Whole(m) => m <= ValidUpTo(upto)
  BY <1>1, <1>5
<1> QED BY <1>5, <1>6

(* Of a text, all that is read decodes, or all but one byte. *)
LEMMA OneByteHeldBack ==
  ASSUME TypeOK, AtACharacter, IsText(stream), NEW upto \in Nat, read < upto, upto <= Len(stream)
  PROVE  upto - ValidUpTo(upto) <= 1
<1>1. /\ decoded \in Nat /\ decoded <= upto - 1 /\ Len(stream) \in Nat
      /\ \A i \in 1..Len(stream) : stream[i] \in ByteKind
  BY BacklogAssumption DEF TypeOK
<1> DEFINE m == IF stream[upto] = "lead" THEN upto - 1 ELSE upto
<1>2. m \in decoded..upto /\ m \in {upto - 1, upto}
  BY <1>1
<1>3. ~(m > decoded /\ stream[m] = "lead")
  BY <1>1 DEF IsText
<1> HIDE DEF m
<1>4. Whole(m)
  <2> SUFFICES ASSUME NEW i \in (decoded + 1)..m
               PROVE  \/ stream[i] = "single"
                      \/ stream[i] = "lead" /\ i < m /\ stream[i + 1] = "trail"
                      \/ stream[i] = "trail" /\ i > decoded + 1 /\ stream[i - 1] = "lead"
    BY DEF Whole
  <2>1. i \in 1..Len(stream) /\ i <= m /\ i > decoded /\ m <= Len(stream) /\ m \in Nat
    BY <1>1, <1>2
  <2>2. stream[i] \in {"single", "lead", "trail"}
    BY <1>1, <2>1 DEF ByteKind, IsText
  <2>3. CASE stream[i] = "lead"
    <3>1. i < m
      BY <1>3, <2>1, <2>3
    <3> QED BY <2>1, <2>3, <3>1 DEF IsText
  <2>4. CASE stream[i] = "trail"
    <3>1. i # decoded + 1
      BY <1>1, <2>1, <2>4 DEF AtACharacter
    <3> QED BY <1>1, <2>1, <2>4, <3>1 DEF IsText
  <2> QED BY <2>2, <2>3, <2>4
<1>5. m <= ValidUpTo(upto) /\ ValidUpTo(upto) \in decoded..upto
  BY <1>1, <1>2, <1>4, ValidUpToIsLongest DEF TypeOK
<1> QED BY <1>1, <1>2, <1>5

(* What was decoded ends with a character. *)
LEMMA DecodedEndsACharacter ==
  ASSUME TypeOK, IsText(stream), AtACharacter, NEW n \in decoded..Len(stream), Whole(n)
  PROVE  n < Len(stream) => stream[n + 1] # "trail"
<1>1. decoded \in Nat /\ Len(stream) \in Nat
  BY BacklogAssumption DEF TypeOK
<1>2. CASE n = decoded
  BY <1>2 DEF AtACharacter
<1>3. CASE n > decoded /\ n < Len(stream)
  <2>1. n \in (decoded + 1)..n /\ n + 1 \in 1..Len(stream)
    BY <1>1, <1>3
  <2>2. stream[n] # "lead"
    BY <1>1, <2>1 DEF Whole
  <2>3. stream[n + 1] = "trail" => stream[(n + 1) - 1] = "lead"
    BY <2>1 DEF IsText
  <2> QED BY <1>1, <2>2, <2>3
<1> QED BY <1>1, <1>2, <1>3

LEMMA TailNext ==
  ASSUME TypeOK, IsText(stream), AtACharacter, PendingIsATail, [Next]_vars
  PROVE  stream' = stream /\ AtACharacter' /\ PendingIsATail'
<1>1. ASSUME UNCHANGED <<stream, read, decoded>>
      PROVE  stream' = stream /\ AtACharacter' /\ PendingIsATail'
  BY <1>1 DEF AtACharacter, PendingIsATail
<1>2. ASSUME NEW n \in 1..Len(stream), Read(n)
      PROVE  stream' = stream /\ AtACharacter' /\ PendingIsATail'
  <2>1. n \in Nat /\ read < n /\ n <= Len(stream) /\ Len(stream) \in Nat /\ decoded \in Nat /\ read \in Nat
    BY <1>2, BacklogAssumption DEF TypeOK, Read
  <2>2. stream' = stream /\ read' = n
    BY <1>2 DEF Read, shellVars
  <2>3. decoded' = ValidUpTo(n)
    BY <1>2 DEF Read, Push
  <2>4. ValidUpTo(n) \in decoded..n /\ Whole(ValidUpTo(n))
    BY <2>1, ValidUpToIsLongest
  <2>5. n - ValidUpTo(n) <= 1
    BY <2>1, OneByteHeldBack
  <2>6. ValidUpTo(n) < Len(stream) => stream[ValidUpTo(n) + 1] # "trail"
    BY <2>1, <2>4, DecodedEndsACharacter
  <2> QED BY <2>2, <2>3, <2>5, <2>6 DEF AtACharacter, PendingIsATail
<1>3. CASE Emit \/ EndOfFile \/ EmitExit \/ ShellExits \/ Close \/ UNCHANGED vars
  BY <1>1, <1>3 DEF Emit, EndOfFile, EmitExit, ShellExits, Close, vars, shellVars, pumpVars
<1>4. ASSUME NEW v \in Views,
             Mount(v) \/ ListenExit(v) \/ ListenData(v) \/ Attach(v) \/ CatchUp(v)
               \/ Hear(v) \/ HearExit(v) \/ Unmount(v) \/ AskClose(v)
      PROVE  stream' = stream /\ AtACharacter' /\ PendingIsATail'
  BY <1>1, <1>4 DEF Mount, ListenExit, ListenData, Attach, CatchUp, Hear, HearExit, Unmount,
                    AskClose, shellVars, pumpVars
<1> QED BY <1>2, <1>3, <1>4 DEF Next

(* Between two reads the pump holds back at most the beginning of one      *)
(* character, if what the shell says is text.                              *)
THEOREM PendingAlwaysATail ==
  ASSUME \A s \in Streams : IsText(s)
  PROVE  Spec => []PendingIsATail
<1> DEFINE TailInv == IsText(stream) /\ AtACharacter /\ PendingIsATail
<1>1. Init => TailInv
  <2> SUFFICES ASSUME Init PROVE TailInv
    OBVIOUS
  <2>1. IsText(stream) /\ read = 0 /\ decoded = 0 /\ Len(stream) \in Nat
    BY BacklogAssumption DEF Init
  <2> QED BY <2>1 DEF IsText, AtACharacter, PendingIsATail
<1>2. TypeOK /\ TailInv /\ [Next]_vars => TailInv'
  BY TailNext
<1>3. TailInv => PendingIsATail
  OBVIOUS
<1> QED BY <1>1, <1>2, <1>3, SessionTypeCorrect, PTL DEF Spec

=============================================================================
