------------------------- MODULE DesignStore_proofs -------------------------
(* Proofs about DesignStore, for any number of calls, dependents, rows, runs    *)
(* and failures.                                                                *)
EXTENDS DesignStore, SequenceTheorems, TLAPS

-----------------------------------------------------------------------------
(* What the files hold and what a call carries                                  *)

Actors == {"human", "agent", "system"}
MoveStages == {"read_audit", "put_node", "put_audit", "roll_back"}

NodeType == [contract : Nat, stale : BOOLEAN, refs : BOOLEAN, life : Lifecycles]
AuditType == [from : Lifecycles, to : Lifecycles, actor : Actors]

TransitionCall ==
    [op : {"transition"}, at : MoveStages, n : Nodes, d : Nodes, to : Lifecycles, actor : Actors,
     before : NodeType, rows : Seq(AuditType), left : {{}}, contracts : [Contracted -> Nat]]
WriteNodeCall ==
    [op : {"write-node"}, at : MoveStages \cup {"put_edit", "drop"}, n : Nodes, new : NodeType,
     left : SUBSET Dependents, d : Nodes, before : NodeType, to : {"stale"}, actor : {"system"},
     rows : Seq(AuditType), contracts : {<<>>}]
WriteEdgeCall ==
    [op : {"write-edge"}, at : {"put_edge", "derive"}, n : Dependents, kind : EdgeKinds,
     to : {"live", "superseded"}]
PutRefsCall == [at : {"put_refs"}, op : {"write-edge"}, n : Dependents, new : NodeType]
DecideCall == [op : {"decision"}, at : {"put_successor"}, prior : {None}, successor : Rows]
SupersedeCall ==
    [op : {"decision"}, at : {"put_successor", "put_prior"}, prior : Rows, successor : Rows,
     new : DecisionRows]
IngestCall == [op : {"ingest-run"}, at : {"put_run"}, r : Runs, new : Artifacts]

CallType == {Idle} \cup TransitionCall \cup WriteNodeCall \cup WriteEdgeCall \cup PutRefsCall
                   \cup DecideCall \cup SupersedeCall \cup IngestCall

DiskTypes ==
    /\ node \in [Nodes -> NodeType] /\ view \in [Nodes -> NodeType]
    /\ audit \in [Nodes -> Seq(AuditType)]
    /\ edge \in [EdgeKinds \X Dependents -> {None, "live", "superseded"}]
    /\ row \in [Rows -> DecisionRows \cup {None}]
    /\ run \in [Runs -> Artifacts \cup {None}]
    /\ seen \in [Dependents -> [Contracted -> Nat]]

\* a move writes a file its call is at work on
MovesItsOwn(s) ==
    /\ s \in TransitionCall => s.d = s.n
    /\ s \in WriteNodeCall /\ s.at \in MoveStages => s.n \in Contracted /\ s.d \in Dependents
    /\ s \in WriteNodeCall /\ s.left # {} => s.n \in Contracted
    /\ s \in TransitionCall \cup WriteNodeCall /\ s.at \in MoveStages => s.before.life # s.to
    /\ s \in SupersedeCall => s.prior # s.successor

CallTypes == call \in [Calls -> CallType] /\ \A c \in Calls : MovesItsOwn(call[c])

Typed == DiskTypes /\ CallTypes

USE DEF MoveStages

(* Which calls are at which stage. *)
LEMMA Shapes ==
  ASSUME CallTypes, NEW c \in Calls
  PROVE  /\ call[c] \in CallType /\ MovesItsOwn(call[c])
         /\ call[c].at \in MoveStages => call[c] \in TransitionCall \cup WriteNodeCall
         /\ call[c].at \in {"put_edit", "drop"} => call[c] \in WriteNodeCall
         /\ call[c].at \in {"put_edge", "derive"} => call[c] \in WriteEdgeCall
         /\ call[c].at = "put_refs" => call[c] \in PutRefsCall
         /\ call[c].at = "put_successor" => call[c] \in DecideCall \cup SupersedeCall
         /\ call[c].at = "put_prior" => call[c] \in SupersedeCall
         /\ call[c].at = "put_run" => call[c] \in IngestCall
         /\ call[c].at = "idle" => call[c] = Idle
<1>1. call[c] \in CallType /\ MovesItsOwn(call[c])
  BY DEF CallTypes
<1> QED BY <1>1 DEF CallType, Idle, TransitionCall, WriteNodeCall, WriteEdgeCall, PutRefsCall,
                    DecideCall, SupersedeCall, IngestCall

(* What each sort of call is at work on. *)
LEMMA Subjects ==
  ASSUME NEW s
  PROVE  /\ s = Idle => Subject(s) = {}
         /\ s \in TransitionCall \cup WriteEdgeCall \cup PutRefsCall => Subject(s) = {s.n}
         /\ s \in WriteNodeCall =>
              Subject(s) = {s.n} \cup (IF s.n \in Contracted THEN Dependents ELSE {})
         /\ s \in DecideCall \cup SupersedeCall => Subject(s) = {s.prior, s.successor} \ {None}
         /\ s \in IngestCall => Subject(s) = {s.r}
<1>1. s = Idle => Subject(s) = {}
  BY DEF Idle, Subject
<1>2. s \in TransitionCall => Subject(s) = {s.n}
  BY DEF TransitionCall, Subject
<1>3. s \in WriteEdgeCall => Subject(s) = {s.n}
  BY DEF WriteEdgeCall, Subject
<1>4. s \in PutRefsCall => Subject(s) = {s.n}
  BY DEF PutRefsCall, Subject
<1>5. s \in WriteNodeCall => Subject(s) = {s.n} \cup (IF s.n \in Contracted THEN Dependents ELSE {})
  BY DEF WriteNodeCall, Subject
<1>6. s \in DecideCall => Subject(s) = {s.prior, s.successor} \ {None}
  BY DEF DecideCall, Subject
<1>7. s \in SupersedeCall => Subject(s) = {s.prior, s.successor} \ {None}
  BY DEF SupersedeCall, Subject
<1>8. s \in IngestCall => Subject(s) = {s.r}
  BY DEF IngestCall, Subject
<1> QED BY <1>1, <1>2, <1>3, <1>4, <1>5, <1>6, <1>7, <1>8

(* Which calls are of which operation. *)
OpsFit ==
    \A c \in Calls :
        /\ call[c].op = "transition" => call[c] \in TransitionCall /\ call[c].at \in MoveStages
        /\ call[c].op = "write-node" => call[c] \in WriteNodeCall

LEMMA CallOps == Typed => OpsFit
<1> SUFFICES ASSUME CallTypes, NEW c \in Calls
             PROVE  /\ call[c].op = "transition" => call[c] \in TransitionCall
                    /\ call[c].op = "write-node" => call[c] \in WriteNodeCall
  BY DEF TransitionCall, Typed, OpsFit
<1>1. call[c] \in CallType
  BY Shapes
<1>2. \A s \in WriteEdgeCall \cup PutRefsCall : s.op = "write-edge"
  BY DEF WriteEdgeCall, PutRefsCall
<1>3. \A s \in DecideCall \cup SupersedeCall : s.op = "decision"
  BY DEF DecideCall, SupersedeCall
<1>4. \A s \in IngestCall : s.op = "ingest-run"
  BY DEF IngestCall
<1>5. Idle.op = "none" /\ (\A s \in TransitionCall : s.op = "transition")
      /\ (\A s \in WriteNodeCall : s.op = "write-node")
  BY DEF Idle, TransitionCall, WriteNodeCall
<1> QED BY <1>1, <1>2, <1>3, <1>4, <1>5 DEF CallType

(* A call that moves a node is at work on it. *)
LEMMA MovedIsSubject ==
  ASSUME NEW s \in TransitionCall \cup WriteNodeCall, MovesItsOwn(s), s.at \in MoveStages
  PROVE  s.d \in Subject(s) /\ s.d \in Nodes
BY Subjects DEF MovesItsOwn, Nodes, TransitionCall, WriteNodeCall

(* A step of call c puts it in state s and leaves the others. *)
LEMMA CallMoves ==
  ASSUME CallTypes, NEW c \in Calls, NEW s \in CallType, MovesItsOwn(s),
         call' = [call EXCEPT ![c] = s]
  PROVE  /\ CallTypes' /\ call'[c] = s
         /\ \A b \in Calls \ {c} : call'[b] = call[b]
<1>1. /\ call' \in [Calls -> CallType] /\ call'[c] = s
      /\ \A b \in Calls \ {c} : call'[b] = call[b]
  BY DEF CallTypes
<1>2. \A b \in Calls : MovesItsOwn(call'[b])
  BY <1>1 DEF CallTypes
<1>3. CallTypes'
  BY <1>1, <1>2 DEF CallTypes, MovesItsOwn
<1> QED BY <1>1, <1>3

-----------------------------------------------------------------------------
(* What a step does                                                             *)

Others(c) == \A b \in Calls \ {c} : call'[b] = call[b]

(* Only files in F are written. *)
Writes(F) ==
    /\ \A n \in Nodes \ F : node'[n] = node[n] /\ audit'[n] = audit[n]
    /\ \A d \in Dependents \ F : seen'[d] = seen[d] /\ \A k \in EdgeKinds : edge'[<<k, d>>] = edge[<<k, d>>]
    /\ \A r \in Rows \ F : row'[r] = row[r]
    /\ \A r \in Runs \ F : run'[r] = run[r]

(* A call begins, excusing what another is at work on, or goes on and writes *)
(* what it is at work on.                                                     *)
Starts(c) ==
    /\ call[c] = Idle
    /\ excused \cup {f \in Subject(call'[c]) : InFlight(f)} \subseteq excused'
    /\ UNCHANGED <<disk, seen>>

Proceeds(c) ==
    /\ excused \subseteq excused'
    /\ Subject(call'[c]) \subseteq Subject(call[c])
    /\ Writes(Subject(call[c]))

Steps(c) == Typed' /\ Others(c) /\ (Starts(c) \/ Proceeds(c))

NodeStages == MoveStages \cup {"put_edit", "drop"}
EdgeStages == {"put_edge", "derive", "put_refs"}
RowStages == {"put_successor", "put_prior"}
Within(c, stages) == {call[c].at, call'[c].at} \subseteq stages \cup {"idle"}

(* A call begins in state s. *)
LEMMA BeginStarts ==
  ASSUME Typed, NEW c \in Calls, call[c].at = "idle", NEW s \in CallType, MovesItsOwn(s),
         NEW undone, Begin(c, undone, s), UNCHANGED <<disk, view, seen>>
  PROVE  Steps(c) /\ Starts(c) /\ call'[c] = s
<1>1. call[c] = Idle
  BY Shapes DEF Typed
<1>2. CallTypes' /\ call'[c] = s /\ Others(c)
  BY CallMoves DEF Typed, Begin, Others
<1>3. DiskTypes'
  BY DEF Typed, DiskTypes, disk
<1>4. Starts(c)
  BY <1>1, <1>2 DEF Starts, Begin
<1> QED BY <1>2, <1>3, <1>4 DEF Steps, Typed

(* A call that answers with an error leaves everything. *)
LEMMA NothingSteps ==
  ASSUME Typed, NEW c \in Calls, UNCHANGED <<disk, call, view, seen, excused>>
  PROVE  Steps(c) /\ Proceeds(c) /\ call' = call
<1>1. DiskTypes' /\ CallTypes'
  BY DEF Typed, DiskTypes, CallTypes, disk, MovesItsOwn
<1>2. Proceeds(c)
  BY DEF Proceeds, Writes, disk
<1> QED BY <1>1, <1>2 DEF Steps, Typed, Others

(* A call goes on in state s. *)
LEMMA GoesOn ==
  ASSUME Typed, NEW c \in Calls, NEW s \in CallType, MovesItsOwn(s),
         call' = [call EXCEPT ![c] = s], Subject(s) \subseteq Subject(call[c]),
         excused \subseteq excused', Writes(Subject(call[c])), DiskTypes'
  PROVE  Steps(c) /\ Proceeds(c) /\ call'[c] = s
<1>1. CallTypes' /\ call'[c] = s /\ Others(c)
  BY CallMoves DEF Typed, Others
<1> QED BY <1>1 DEF Steps, Proceeds, Typed

(* A call that returns is idle and at work on nothing. *)
LEMMA IdleCall == Idle \in CallType /\ MovesItsOwn(Idle) /\ Subject(Idle) = {} /\ Idle.at = "idle"
BY Subjects DEF CallType, MovesItsOwn, Idle, TransitionCall, WriteNodeCall, SupersedeCall

(* A call that answers after a failed write has written nothing. *)
LEMMA FailsSteps ==
  ASSUME Typed, NEW c \in Calls, NEW lost, Return(c, lost), Fault, UNCHANGED <<view, seen>>
  PROVE  Steps(c) /\ Proceeds(c) /\ call'[c] = Idle /\ Idle.at = "idle"
         /\ UNCHANGED disk
<1>1. UNCHANGED <<disk, view, seen>> /\ call' = [call EXCEPT ![c] = Idle] /\ excused \subseteq excused'
  BY DEF Return, Fault
<1>2. DiskTypes'
  BY <1>1 DEF Typed, DiskTypes, disk
<1>3. Writes(Subject(call[c])) /\ Subject(Idle) \subseteq Subject(call[c])
  BY <1>1, IdleCall DEF Writes, disk
<1> QED BY <1>1, <1>2, <1>3, IdleCall, GoesOn

-----------------------------------------------------------------------------
(* Moving and editing nodes                                                     *)

(* Every call of these is one that moves or edits a node. *)
NodeStep(c) == Steps(c) /\ Within(c, NodeStages) /\ UNCHANGED <<edge, row, run>>

Moves(s) == s \in TransitionCall \cup WriteNodeCall /\ MovesItsOwn(s)

LEMMA TransitionIsNodeStep ==
  ASSUME Typed, NEW c \in Calls, NEW n \in Moved, NEW to \in Lifecycles,
         NEW actor \in {"human", "agent"}, Transition(c, n, to, actor)
  PROVE  NodeStep(c)
<1> DEFINE s == [op |-> "transition", at |-> "read_audit", n |-> n, d |-> n, to |-> to,
                 actor |-> actor, before |-> node[n], rows |-> <<>>, left |-> {},
                 contracts |-> [k \in Contracted |-> node[k].contract]]
<1>1. n \in Nodes /\ call[c].at = "idle"
  BY IdsDiffer DEF Transition, Ready
<1>2. node[n] \in NodeType /\ [k \in Contracted |-> node[k].contract] \in [Contracted -> Nat]
  BY <1>1 DEF Typed, DiskTypes, NodeType, Contracted, Nodes
<1>3. <<>> \in Seq(AuditType)
  OBVIOUS
<1>4. s \in TransitionCall
  BY <1>1, <1>2, <1>3 DEF TransitionCall, Actors
<1>5. CASE view[n].life = node[n].life /\ Allowed(node[n].life, to, actor)
  <2>1. MovesItsOwn(s)
    BY <1>5 DEF MovesItsOwn, Allowed, WriteNodeCall, SupersedeCall
  <2>2. Begin(c, {}, s) /\ UNCHANGED <<disk, view, seen>>
    BY <1>5 DEF Transition
  <2>3. s \in CallType /\ s.at = "read_audit"
    BY <1>4 DEF CallType
  <2> HIDE DEF s
  <2> QED BY <1>1, <2>1, <2>2, <2>3, BeginStarts DEF NodeStep, Within, NodeStages, disk
<1>6. CASE ~(view[n].life = node[n].life /\ Allowed(node[n].life, to, actor))
  <2>1. UNCHANGED <<disk, call, view, seen, excused>>
    BY <1>6 DEF Transition, Refuse
  <2> QED BY <1>1, <2>1, NothingSteps DEF NodeStep, Within, disk
<1> QED BY <1>5, <1>6

LEMMA WriteNodeIsNodeStep ==
  ASSUME Typed, NEW c \in Calls, NEW n \in Nodes, NEW contract \in 0 .. MaxContract, WriteNode(c, n, contract)
  PROVE  NodeStep(c)
<1> DEFINE new == [view[n] EXCEPT !.contract = contract]
           before == [node |-> node, edge |-> edge]
           drops == IF ContractChanged(before, n, new) THEN StaleCascade(n, before) ELSE {}
           s == [op |-> "write-node", at |-> "put_edit", n |-> n, new |-> new, left |-> drops,
                 d |-> n, before |-> node[n], to |-> "stale", actor |-> "system", rows |-> <<>>,
                 contracts |-> <<>>]
<1>1. call[c].at = "idle" /\ Begin(c, IF Undoes(n) THEN {n} ELSE {}, s) /\ UNCHANGED <<disk, view, seen>>
  BY DEF WriteNode, Ready
<1>2. new \in NodeType /\ node[n] \in NodeType
  <2>1. view[n] \in NodeType /\ node[n] \in NodeType
    BY DEF Typed, DiskTypes
  <2>2. contract \in Nat
    OBVIOUS
  <2> QED BY <2>1, <2>2 DEF NodeType
<1>3. drops \subseteq Dependents /\ (drops # {} => n \in Contracted)
  BY DEF ContractChanged, StaleCascade
<1>4. <<>> \in Seq(AuditType)
  OBVIOUS
<1> HIDE DEF new, drops
<1>5. s \in WriteNodeCall
  BY <1>2, <1>3, <1>4 DEF WriteNodeCall
<1>6. s \in CallType /\ s.at = "put_edit" /\ MovesItsOwn(s)
  BY <1>3, <1>5 DEF CallType, MovesItsOwn, TransitionCall, SupersedeCall, WriteNodeCall
<1> HIDE DEF s
<1> QED BY <1>1, <1>6, BeginStarts DEF NodeStep, Within, NodeStages, disk

LEMMA PutEditIsNodeStep ==
  ASSUME Typed, NEW c \in Calls, PutEdit(c)
  PROVE  NodeStep(c)
<1> DEFINE s == call[c]
           to_drop == [s EXCEPT !.at = "drop"]
<1>1. s \in WriteNodeCall /\ MovesItsOwn(s) /\ s.at = "put_edit"
  BY Shapes DEF Typed, PutEdit
<1>2. Subject(s) = {s.n} \cup (IF s.n \in Contracted THEN Dependents ELSE {}) /\ s.n \in Nodes
  BY <1>1, Subjects DEF WriteNodeCall
<1>3. ASSUME node' = [node EXCEPT ![s.n] = s.new], UNCHANGED <<audit, edge, row, run>>,
             NEW next \in {Idle, to_drop}, call' = [call EXCEPT ![c] = next]
      PROVE  NodeStep(c)
  <2>1. UNCHANGED <<view, seen>> /\ excused \subseteq excused'
    BY <1>1 DEF PutEdit, Return, Goto, Fault
  <2>2. to_drop \in WriteNodeCall /\ to_drop.n = s.n /\ to_drop.at = "drop" /\ MovesItsOwn(to_drop)
    BY <1>1 DEF WriteNodeCall, MovesItsOwn, TransitionCall, SupersedeCall
  <2>3. next \in CallType /\ MovesItsOwn(next) /\ Subject(next) \subseteq Subject(s)
        /\ next.at \in {"drop", "idle"}
    BY <1>1, <2>2, Subjects, IdleCall DEF CallType, WriteNodeCall
  <2>4. DiskTypes'
    BY <1>1, <1>2, <1>3, <2>1 DEF Typed, DiskTypes, WriteNodeCall
  <2>5. Writes(Subject(s))
    BY <1>1, <1>2, <1>3, <2>1 DEF Writes, Typed, DiskTypes
  <2> QED BY <1>1, <1>3, <2>1, <2>3, <2>4, <2>5, GoesOn DEF NodeStep, Within, NodeStages
<1>4. CASE Fault /\ Return(c, {})
  BY <1>1, <1>4, FailsSteps DEF PutEdit, disk, NodeStep, Within, NodeStages
<1> QED BY <1>3, <1>4 DEF PutEdit, Return, Goto

(* A move goes on with another field filled in. *)
Onward(s, t, at, rows) == t = [s EXCEPT !.at = at, !.rows = rows]

LEMMA MoveGoesOn ==
  ASSUME NEW s, Moves(s), NEW at \in MoveStages \cup {"drop"}, NEW rows \in Seq(AuditType),
         s.at \in MoveStages, at = "drop" => s \in WriteNodeCall,
         NEW t, Onward(s, t, at, rows)
  PROVE  Moves(t) /\ t \in CallType /\ Subject(t) = Subject(s) /\ t.at = at
<1> USE DEF Onward
<1>1. s \in TransitionCall /\ at # "drop" => t \in TransitionCall /\ t.at = at /\ t.n = s.n /\ t.d = s.d
  BY DEF TransitionCall
<1>2. s \in WriteNodeCall => t \in WriteNodeCall /\ t.at = at /\ t.n = s.n /\ t.d = s.d /\ t.left = s.left
  BY DEF WriteNodeCall
<1>3. t.before = s.before /\ t.to = s.to
  BY DEF Moves, TransitionCall, WriteNodeCall
<1>4. s \in TransitionCall => s.op = "transition" /\ s \notin WriteNodeCall /\ s \notin SupersedeCall
                              /\ (at # "drop" => t.op = "transition")
  BY DEF TransitionCall, WriteNodeCall, SupersedeCall
<1>5. s \in WriteNodeCall => s.op = "write-node" /\ s \notin TransitionCall /\ s \notin SupersedeCall
                              /\ t.op = "write-node"
  BY DEF TransitionCall, WriteNodeCall, SupersedeCall
<1>6. t \in TransitionCall \cup WriteNodeCall => t \notin SupersedeCall
  BY DEF TransitionCall, WriteNodeCall, SupersedeCall
<1>7. t \in TransitionCall => t.op = "transition"
  BY DEF TransitionCall
<1>8. t \in WriteNodeCall => t.op = "write-node"
  BY DEF WriteNodeCall
<1>9. t \in CallType /\ t \in TransitionCall \cup WriteNodeCall
  BY <1>1, <1>2 DEF CallType, Moves
<1>10. Subject(t) = Subject(s)
  BY <1>1, <1>2, Subjects DEF Moves
<1>11. MovesItsOwn(t)
  BY <1>1, <1>2, <1>3, <1>4, <1>5, <1>6, <1>7, <1>8, <1>9 DEF Moves, MovesItsOwn
<1>12. t.at = at
  BY <1>1, <1>2 DEF Moves
<1> QED BY <1>9, <1>10, <1>11, <1>12 DEF Moves

LEMMA MovingCalls ==
  ASSUME Typed, NEW c \in Calls, call[c].at \in MoveStages
  PROVE  /\ Moves(call[c]) /\ call[c].d \in Subject(call[c]) /\ call[c].d \in Nodes
         /\ call[c].rows \in Seq(AuditType) /\ call[c].before \in NodeType
         /\ call[c].to \in Lifecycles /\ call[c].actor \in Actors
         /\ AuditRow(call[c]) \in AuditType /\ After(call[c].before, call[c].to) \in NodeType
<1> DEFINE s == call[c]
<1>1. Moves(s) /\ s.at \in MoveStages
  BY Shapes DEF Moves, Typed
<1>2. s.d \in Subject(s) /\ s.d \in Nodes
  BY <1>1, MovedIsSubject DEF Moves
<1>3. s.rows \in Seq(AuditType) /\ s.before \in NodeType /\ s.to \in Lifecycles /\ s.actor \in Actors
  BY <1>1 DEF Moves, TransitionCall, WriteNodeCall, Lifecycles, Actors
<1> HIDE DEF s
<1>4. AuditRow(s) \in AuditType
  BY <1>3 DEF AuditRow, AuditType, NodeType
<1>5. After(s.before, s.to) \in NodeType
  BY <1>3 DEF After, NodeType
<1> QED BY <1>1, <1>2, <1>3, <1>4, <1>5 DEF s

LEMMA ReadAuditIsNodeStep ==
  ASSUME Typed, NEW c \in Calls, ReadAudit(c)
  PROVE  /\ NodeStep(c) /\ Proceeds(c)
         /\ call'[c] = [call[c] EXCEPT !.at = "put_node", !.rows = audit[call[c].d]]
<1> DEFINE s == call[c]
           t == [s EXCEPT !.at = "put_node", !.rows = audit[s.d]]
<1>1. Moves(s) /\ s.d \in Nodes /\ s.at = "read_audit"
  BY MovingCalls DEF ReadAudit
<1>2. audit[s.d] \in Seq(AuditType)
  BY <1>1 DEF Typed, DiskTypes
<1>3. Onward(s, t, "put_node", audit[s.d])
  BY DEF Onward
<1>4. UNCHANGED <<disk, view, seen, excused>> /\ call' = [call EXCEPT ![c] = t]
  BY DEF ReadAudit, Goto
<1>5. DiskTypes' /\ Writes(Subject(s))
  BY <1>4 DEF Typed, DiskTypes, Writes, disk
<1> HIDE DEF t
<1>6. t \in CallType /\ Moves(t) /\ Subject(t) = Subject(s) /\ t.at = "put_node"
  BY <1>1, <1>2, <1>3, MoveGoesOn
<1> QED BY <1>1, <1>4, <1>5, <1>6, GoesOn DEF NodeStep, Within, NodeStages, Moves, disk, t

LEMMA PutNodeIsNodeStep ==
  ASSUME Typed, NEW c \in Calls, PutNode(c)
  PROVE  NodeStep(c) /\ Proceeds(c)
<1> DEFINE s == call[c]
           t == [s EXCEPT !.at = "put_audit", !.rows = s.rows]
<1>1. Moves(s) /\ s.d \in Nodes /\ s.d \in Subject(s) /\ s.at = "put_node" /\ s.rows \in Seq(AuditType)
      /\ After(s.before, s.to) \in NodeType
  BY MovingCalls DEF PutNode
<1>2. Onward(s, t, "put_audit", s.rows) /\ t = [s EXCEPT !.at = "put_audit"]
  BY <1>1 DEF Onward, Moves, TransitionCall, WriteNodeCall
<1> HIDE DEF t
<1>3. ASSUME node' = [node EXCEPT ![s.d] = After(s.before, s.to)], UNCHANGED <<audit, edge, row, run>>,
             seen' = IF s.to = "accepted" /\ s.d \in Dependents
                     THEN [seen EXCEPT ![s.d] = s.contracts] ELSE seen,
             call' = [call EXCEPT ![c] = [s EXCEPT !.at = "put_audit"]], UNCHANGED <<view, excused>>
      PROVE  NodeStep(c) /\ Proceeds(c)
  <2>1. s.to = "accepted" => s.contracts \in [Contracted -> Nat]
    BY <1>1 DEF Moves, TransitionCall, WriteNodeCall
  <2>2. seen' \in [Dependents -> [Contracted -> Nat]]
        /\ \A d \in Dependents \ {s.d} : seen'[d] = seen[d]
    <3>1. seen \in [Dependents -> [Contracted -> Nat]]
      BY DEF Typed, DiskTypes
    <3>2. CASE s.to = "accepted" /\ s.d \in Dependents
      <4>1. seen' = [seen EXCEPT ![s.d] = s.contracts]
        BY <1>3, <3>2
      <4> QED BY <2>1, <3>1, <3>2, <4>1
    <3>3. CASE ~(s.to = "accepted" /\ s.d \in Dependents)
      <4>1. seen' = seen
        BY <1>3, <3>3
      <4> QED BY <3>1, <4>1
    <3> QED BY <3>2, <3>3
  <2>3. node' \in [Nodes -> NodeType] /\ \A n \in Nodes \ {s.d} : node'[n] = node[n]
    BY <1>1, <1>3 DEF Typed, DiskTypes
  <2>4. DiskTypes'
    BY <1>3, <2>2, <2>3 DEF Typed, DiskTypes
  <2>5. Writes(Subject(s))
    BY <1>1, <1>3, <2>2, <2>3 DEF Writes
  <2>6. t \in CallType /\ Moves(t) /\ Subject(t) = Subject(s) /\ t.at = "put_audit"
    BY <1>1, <1>2, MoveGoesOn
  <2> QED BY <1>1, <1>2, <1>3, <2>4, <2>5, <2>6, GoesOn DEF NodeStep, Within, NodeStages, Moves
<1>4. ASSUME NEW lost, Return(c, lost), Fault, UNCHANGED <<view, seen>>
      PROVE  NodeStep(c) /\ Proceeds(c)
  BY <1>1, <1>4, FailsSteps DEF NodeStep, Within, NodeStages, disk
<1> QED BY <1>3, <1>4 DEF PutNode, Goto

LEMMA PutAuditIsNodeStep ==
  ASSUME Typed, NEW c \in Calls, PutAudit(c)
  PROVE  NodeStep(c) /\ Proceeds(c)
<1> DEFINE s == call[c]
           t(at) == [s EXCEPT !.at = at, !.rows = s.rows]
<1>1. Moves(s) /\ s.d \in Nodes /\ s.d \in Subject(s) /\ s.at = "put_audit" /\ s.rows \in Seq(AuditType)
      /\ AuditRow(s) \in AuditType
  BY MovingCalls DEF PutAudit
<1>2. ASSUME NEW at \in {"roll_back", "drop"}
      PROVE  t(at) = [s EXCEPT !.at = at] /\ Onward(s, t(at), at, s.rows)
  BY <1>1 DEF Onward, Moves, TransitionCall, WriteNodeCall
<1> HIDE DEF t
<1>3. ASSUME NEW at \in {"roll_back", "drop"}, at = "drop" => s.left # {}
      PROVE  t(at) \in CallType /\ Moves(t(at)) /\ Subject(t(at)) = Subject(s) /\ t(at).at = at
  <2>1. at = "drop" => s \in WriteNodeCall
    BY <1>1, <1>3 DEF Moves, TransitionCall
  <2> QED BY <1>1, <1>2, <2>1, MoveGoesOn
<1>4. ASSUME audit' = [audit EXCEPT ![s.d] = Append(s.rows, AuditRow(s))],
             UNCHANGED <<node, edge, row, run, view, seen>>, excused \subseteq excused',
             NEW next \in CallType, Moves(next) \/ next = Idle, next.at \in {"drop", "idle"},
             Subject(next) \subseteq Subject(s), call' = [call EXCEPT ![c] = next]
      PROVE  NodeStep(c) /\ Proceeds(c)
  <2>1. Append(s.rows, AuditRow(s)) \in Seq(AuditType)
    BY <1>1
  <2>2. audit' \in [Nodes -> Seq(AuditType)] /\ \A n \in Nodes \ {s.d} : audit'[n] = audit[n]
    BY <1>1, <1>4, <2>1 DEF Typed, DiskTypes
  <2>3. DiskTypes' /\ Writes(Subject(s))
    BY <1>1, <1>4, <2>2 DEF Typed, DiskTypes, Writes
  <2> QED BY <1>1, <1>4, <2>3, GoesOn, IdleCall DEF NodeStep, Within, NodeStages, Moves
<1>5. ASSUME Fault, Goto(c, [s EXCEPT !.at = "roll_back"]), UNCHANGED <<view, seen>>
      PROVE  NodeStep(c) /\ Proceeds(c)
  <2>1. t("roll_back") \in CallType /\ Moves(t("roll_back")) /\ Subject(t("roll_back")) = Subject(s)
        /\ t("roll_back").at = "roll_back" /\ t("roll_back") = [s EXCEPT !.at = "roll_back"]
    BY <1>2, <1>3
  <2>2. UNCHANGED <<disk, view, seen, excused>> /\ call' = [call EXCEPT ![c] = t("roll_back")]
    BY <1>5, <2>1 DEF Fault, Goto
  <2>3. DiskTypes' /\ Writes(Subject(s))
    BY <2>2 DEF Typed, DiskTypes, Writes, disk
  <2> QED BY <1>1, <2>1, <2>2, <2>3, GoesOn DEF NodeStep, Within, NodeStages, Moves, disk
<1>6. CASE audit' = [audit EXCEPT ![s.d] = Append(s.rows, AuditRow(s))]
           /\ (IF s.left = {} THEN Return(c, {}) ELSE Goto(c, [s EXCEPT !.at = "drop"]))
           /\ UNCHANGED <<node, edge, row, run, faults>>
  <2>1. UNCHANGED <<view, seen>>
    BY DEF PutAudit
  <2>2. CASE s.left = {}
    BY <1>4, <1>6, <2>1, <2>2, IdleCall DEF Return
  <2>3. CASE s.left # {}
    BY <1>2, <1>3, <1>4, <1>6, <2>1, <2>3 DEF Goto
  <2> QED BY <2>2, <2>3
<1> QED BY <1>5, <1>6 DEF PutAudit

LEMMA RollBackIsNodeStep ==
  ASSUME Typed, NEW c \in Calls, RollBack(c)
  PROVE  NodeStep(c) /\ Proceeds(c) /\ call'[c] = Idle
<1> DEFINE s == call[c]
           lost == s.left \cup (IF s.op = "write-node" THEN {s.d} ELSE {})
<1>1. s.d \in Nodes /\ s.d \in Subject(s) /\ s.at = "roll_back" /\ s.before \in NodeType
  BY MovingCalls DEF RollBack
<1>2. ASSUME NEW gone, Return(c, gone), Fault, UNCHANGED <<view, seen>>
      PROVE  NodeStep(c) /\ Proceeds(c) /\ call'[c] = Idle
  BY <1>1, <1>2, FailsSteps DEF NodeStep, Within, NodeStages, disk
<1>3. ASSUME node' = [node EXCEPT ![s.d] = s.before], UNCHANGED <<audit, edge, row, run, view, seen>>,
             NEW gone, Return(c, gone)
      PROVE  NodeStep(c) /\ Proceeds(c) /\ call'[c] = Idle
  <2>1. DiskTypes' /\ Writes(Subject(s))
    BY <1>1, <1>3 DEF Typed, DiskTypes, Writes
  <2>2. call' = [call EXCEPT ![c] = Idle] /\ excused \subseteq excused' /\ Subject(Idle) \subseteq Subject(s)
    BY <1>3, IdleCall DEF Return
  <2> QED BY <1>1, <1>3, <2>1, <2>2, IdleCall, GoesOn DEF NodeStep, Within, NodeStages
<1> QED BY <1>2, <1>3 DEF RollBack

(* The state in which the drop of dependent d begins. *)
Dropped(s, d) ==
    [[s EXCEPT !.left = @ \ {d}] EXCEPT !.at = "read_audit", !.d = d, !.before = node[d],
                                        !.to = "stale", !.actor = "system"]

LEMMA DropIsNodeStep ==
  ASSUME Typed, NEW c \in Calls, NEW d \in Dependents, Drop(c, d)
  PROVE  /\ NodeStep(c) /\ Proceeds(c) /\ UNCHANGED <<disk, view, seen>>
         /\ call[c] \in WriteNodeCall /\ call[c].n \in Contracted
         /\ \/ call'[c] = Dropped(call[c], d) /\ node[d].life = "accepted" /\ excused' = excused
            \/ call'[c] = Idle /\ excused' = excused \cup call[c].left
<1> DEFINE s == call[c]
           t == Dropped(s, d)
           lost == (s.left \ {d}) \cup {d}
<1>1. s \in WriteNodeCall /\ s.at = "drop" /\ d \in s.left /\ s.n \in Contracted /\ d \in Nodes
  BY Shapes DEF Drop, MovesItsOwn, Typed, Nodes
<1>2. Subject(s) = {s.n} \cup Dependents
  BY <1>1, Subjects
<1>3. UNCHANGED <<disk, view, seen>> /\ node[d] \in NodeType
  BY <1>1 DEF Drop, Typed, DiskTypes
<1>4. DiskTypes' /\ Writes(Subject(s))
  BY <1>3 DEF Typed, DiskTypes, Writes, disk
<1>5. [s EXCEPT !.left = @ \ {d}] \in WriteNodeCall /\ [s EXCEPT !.left = @ \ {d}].left = s.left \ {d}
      /\ [s EXCEPT !.left = @ \ {d}].op = "write-node"
  BY <1>1 DEF WriteNodeCall
<1>6. CASE "accepted" = node[d].life /\ Allowed(node[d].life, "stale", "system")
  <2>1. t \in WriteNodeCall /\ t.at = "read_audit" /\ t.n = s.n /\ t.d = d /\ t.left = s.left \ {d}
        /\ t.before = node[d] /\ t.to = "stale"
    BY <1>1, <1>3 DEF Dropped, WriteNodeCall, Lifecycles, Actors
  <2>2. MovesItsOwn(t)
    <3> HIDE DEF t
    <3> QED BY <1>1, <1>6, <2>1 DEF MovesItsOwn, WriteNodeCall, TransitionCall, SupersedeCall
  <2>3. t \in CallType /\ Subject(t) = Subject(s)
    BY <1>1, <1>2, <2>1, Subjects DEF CallType
  <2>4. call' = [call EXCEPT ![c] = t] /\ excused' = excused
    BY <1>6 DEF Drop, ReadNode, Goto, Dropped
  <2> HIDE DEF t
  <2>5. NodeStep(c) /\ Proceeds(c) /\ call'[c] = t
    BY <1>1, <1>3, <1>4, <2>1, <2>2, <2>3, <2>4, GoesOn DEF NodeStep, Within, NodeStages, disk
  <2> QED BY <1>1, <1>3, <1>6, <2>4, <2>5 DEF t
<1>7. CASE ~("accepted" = node[d].life /\ Allowed(node[d].life, "stale", "system"))
  <2>1. Return(c, lost)
    BY <1>5, <1>7 DEF Drop, ReadNode
  <2>2. call' = [call EXCEPT ![c] = Idle] /\ excused' = excused \cup s.left
    BY <1>1, <2>1 DEF Return
  <2>3. NodeStep(c) /\ Proceeds(c) /\ call'[c] = Idle
    BY <1>1, <1>3, <1>4, <2>2, IdleCall, GoesOn DEF NodeStep, Within, NodeStages, disk
  <2> QED BY <1>1, <1>3, <2>2, <2>3
<1> QED BY <1>6, <1>7

-----------------------------------------------------------------------------
(* Drawing edges and deriving the cache                                         *)

EdgeStep(c) ==
    Steps(c) /\ Within(c, EdgeStages) /\ UNCHANGED <<audit, row, run, seen>>

LEMMA WriteEdgeIsEdgeStep ==
  ASSUME Typed, NEW c \in Calls, NEW k \in EdgeKinds, NEW d \in Dependents,
         NEW to \in {"live", "superseded"}, WriteEdge(c, k, d, to)
  PROVE  EdgeStep(c) /\ Starts(c) /\ call'[c].at = "put_edge"
<1> DEFINE s == [op |-> "write-edge", at |-> "put_edge", n |-> d, kind |-> k, to |-> to]
<1>1. call[c].at = "idle" /\ Begin(c, {}, s) /\ UNCHANGED <<disk, view, seen>>
  BY DEF WriteEdge, Ready
<1>2. s \in WriteEdgeCall
  BY DEF WriteEdgeCall
<1>3. s \in CallType /\ MovesItsOwn(s) /\ s.at = "put_edge"
  BY <1>2 DEF CallType, MovesItsOwn, TransitionCall, WriteNodeCall, SupersedeCall
<1> HIDE DEF s
<1> QED BY <1>1, <1>3, BeginStarts DEF EdgeStep, Within, EdgeStages, disk

LEMMA EdgeCalls ==
  ASSUME Typed, NEW c \in Calls, call[c].at \in EdgeStages
  PROVE  /\ call[c] \in WriteEdgeCall \cup PutRefsCall /\ call[c].n \in Dependents /\ call[c].n \in Nodes
         /\ Subject(call[c]) = {call[c].n}
         /\ call[c].at \in {"put_edge", "derive"} => call[c] \in WriteEdgeCall
         /\ call[c].at = "put_refs" => call[c] \in PutRefsCall
<1>1. call[c] \in WriteEdgeCall \cup PutRefsCall /\ (call[c].at \in {"put_edge", "derive"} => call[c] \in WriteEdgeCall)
      /\ (call[c].at = "put_refs" => call[c] \in PutRefsCall)
  BY Shapes DEF EdgeStages, Typed
<1> QED BY <1>1, Subjects DEF WriteEdgeCall, PutRefsCall, Nodes

LEMMA PutEdgeIsEdgeStep ==
  ASSUME Typed, NEW c \in Calls, PutEdge(c)
  PROVE  EdgeStep(c) /\ Proceeds(c) /\ node' = node
<1> DEFINE s == call[c]
           t == [s EXCEPT !.at = "derive"]
<1>1. s \in WriteEdgeCall /\ s.at = "put_edge" /\ s.n \in Dependents /\ Subject(s) = {s.n}
  BY EdgeCalls DEF PutEdge, EdgeStages
<1>2. t \in WriteEdgeCall /\ t.n = s.n /\ t.at = "derive"
  BY <1>1 DEF WriteEdgeCall
<1>3. t \in CallType /\ MovesItsOwn(t) /\ Subject(t) = Subject(s)
  BY <1>1, <1>2, Subjects DEF CallType, MovesItsOwn, TransitionCall, WriteNodeCall, SupersedeCall, WriteEdgeCall
<1> HIDE DEF t
<1>4. ASSUME edge' = [edge EXCEPT ![<<s.kind, s.n>>] = s.to], UNCHANGED <<node, audit, row, run, view, seen>>,
             NEW next \in {t, Idle}, call' = [call EXCEPT ![c] = next], excused \subseteq excused'
      PROVE  EdgeStep(c) /\ Proceeds(c) /\ node' = node
  <2>1. <<s.kind, s.n>> \in EdgeKinds \X Dependents /\ s.to \in {None, "live", "superseded"}
    BY <1>1 DEF WriteEdgeCall
  <2>2. DiskTypes' /\ Writes(Subject(s))
    BY <1>1, <1>4, <2>1 DEF Typed, DiskTypes, Writes
  <2>3. next \in CallType /\ MovesItsOwn(next) /\ Subject(next) \subseteq Subject(s)
        /\ next.at \in {"derive", "idle"}
    BY <1>2, <1>3, IdleCall
  <2> QED BY <1>1, <1>4, <2>2, <2>3, GoesOn DEF EdgeStep, Within, EdgeStages
<1>5. CASE edge' = [edge EXCEPT ![<<s.kind, s.n>>] = s.to]
           /\ (IF s.kind = "references_ui" THEN Goto(c, [s EXCEPT !.at = "derive"]) ELSE Return(c, {s.n}))
           /\ UNCHANGED <<node, audit, row, run, faults>>
  <2>1. UNCHANGED <<view, seen>>
    BY DEF PutEdge
  <2>2. CASE s.kind = "references_ui"
    BY <1>4, <1>5, <2>1, <2>2 DEF Goto, t
  <2>3. CASE s.kind # "references_ui"
    BY <1>4, <1>5, <2>1, <2>3 DEF Return
  <2> QED BY <2>2, <2>3
<1>6. ASSUME NEW lost, Return(c, lost), Fault, UNCHANGED <<view, seen>>
      PROVE  EdgeStep(c) /\ Proceeds(c) /\ node' = node
  BY <1>1, <1>6, FailsSteps DEF EdgeStep, Within, EdgeStages, disk
<1> QED BY <1>5, <1>6 DEF PutEdge

LEMMA DeriveIsEdgeStep ==
  ASSUME Typed, NEW c \in Calls, Derive(c)
  PROVE  /\ EdgeStep(c) /\ Proceeds(c) /\ UNCHANGED <<disk, excused>>
         /\ \/ /\ call'[c].at = "put_refs" /\ call'[c].n = call[c].n
               /\ call'[c].new = [node[call[c].n] EXCEPT !.refs = LiveEdge("references_ui", call[c].n)]
            \/ call'[c] = Idle /\ node[call[c].n].refs = LiveEdge("references_ui", call[c].n)
<1> DEFINE s == call[c]
           derived == LiveEdge("references_ui", s.n)
           t == [at |-> "put_refs", op |-> s.op, n |-> s.n, new |-> [node[s.n] EXCEPT !.refs = derived]]
<1>1. s \in WriteEdgeCall /\ s.at = "derive" /\ s.n \in Dependents /\ s.n \in Nodes /\ Subject(s) = {s.n}
  BY EdgeCalls DEF Derive, EdgeStages
<1>2. node[s.n] \in NodeType /\ derived \in BOOLEAN /\ s.op = "write-edge"
  BY <1>1 DEF Typed, DiskTypes, LiveEdge, WriteEdgeCall
<1> HIDE DEF derived
<1>3. [node[s.n] EXCEPT !.refs = derived] \in NodeType
  BY <1>2 DEF NodeType
<1>4. t \in PutRefsCall /\ t.n = s.n /\ t.at = "put_refs"
  BY <1>1, <1>2, <1>3 DEF PutRefsCall
<1>5. t \in CallType /\ MovesItsOwn(t) /\ Subject(t) = Subject(s)
  BY <1>1, <1>4, Subjects DEF CallType, MovesItsOwn, TransitionCall, WriteNodeCall, SupersedeCall, PutRefsCall
<1>6. UNCHANGED <<disk, view, seen>>
  BY DEF Derive
<1>7. DiskTypes' /\ Writes(Subject(s))
  BY <1>6 DEF Typed, DiskTypes, Writes, disk
<1>8. CASE node[s.n].refs = derived
  <2>1. Return(c, {})
    BY <1>8 DEF Derive, derived
  <2>2. call' = [call EXCEPT ![c] = Idle] /\ excused' = excused
    BY <2>1 DEF Return
  <2> QED BY <1>1, <1>6, <1>7, <1>8, <2>2, IdleCall, GoesOn DEF EdgeStep, Within, EdgeStages, disk, derived
<1>9. CASE node[s.n].refs # derived
  <2>1. Goto(c, t)
    BY <1>9 DEF Derive, derived
  <2>2. t.new = [node[s.n] EXCEPT !.refs = derived]
    OBVIOUS
  <2> HIDE DEF t
  <2>3. call' = [call EXCEPT ![c] = t] /\ excused' = excused
    BY <2>1 DEF Goto
  <2>4. EdgeStep(c) /\ Proceeds(c) /\ call'[c] = t
    BY <1>1, <1>4, <1>5, <1>6, <1>7, <2>3, GoesOn DEF EdgeStep, Within, EdgeStages, disk
  <2> QED BY <1>4, <1>6, <2>2, <2>3, <2>4 DEF derived
<1> QED BY <1>8, <1>9

LEMMA PutRefsIsEdgeStep ==
  ASSUME Typed, NEW c \in Calls, PutRefs(c)
  PROVE  EdgeStep(c) /\ Proceeds(c) /\ call'[c] = Idle /\ edge' = edge
<1> DEFINE s == call[c]
<1>1. s \in PutRefsCall /\ s.at = "put_refs" /\ s.n \in Nodes /\ Subject(s) = {s.n}
  BY EdgeCalls DEF PutRefs, EdgeStages
<1>2. ASSUME node' = [node EXCEPT ![s.n] = s.new], UNCHANGED <<audit, edge, row, run, view, seen>>,
             NEW lost, Return(c, lost)
      PROVE  EdgeStep(c) /\ Proceeds(c) /\ call'[c] = Idle /\ edge' = edge
  <2>1. s.new \in NodeType
    BY <1>1 DEF PutRefsCall
  <2>2. DiskTypes' /\ Writes(Subject(s))
    BY <1>1, <1>2, <2>1 DEF Typed, DiskTypes, Writes
  <2>3. call' = [call EXCEPT ![c] = Idle] /\ excused \subseteq excused' /\ Subject(Idle) \subseteq Subject(s)
    BY <1>2, IdleCall DEF Return
  <2> QED BY <1>1, <1>2, <2>2, <2>3, IdleCall, GoesOn DEF EdgeStep, Within, EdgeStages
<1>3. ASSUME NEW lost, Return(c, lost), Fault, UNCHANGED <<view, seen>>
      PROVE  EdgeStep(c) /\ Proceeds(c) /\ call'[c] = Idle /\ edge' = edge
  BY <1>1, <1>3, FailsSteps DEF EdgeStep, Within, EdgeStages, disk
<1> QED BY <1>2, <1>3 DEF PutRefs

-----------------------------------------------------------------------------
(* Deciding and ingesting                                                       *)

RowStep(c) == Steps(c) /\ Within(c, RowStages) /\ UNCHANGED <<node, audit, edge, run, seen>>
RunStep(c) == Steps(c) /\ Within(c, {"put_run"}) /\ UNCHANGED <<node, audit, edge, row, seen>>

LEMMA WriteDecisionIsRowStep ==
  ASSUME Typed, NEW c \in Calls, NEW r \in Rows, WriteDecision(c, r)
  PROVE  /\ RowStep(c) /\ UNCHANGED row
         /\ \/ Proceeds(c) /\ call' = call
            \/ /\ Starts(c) /\ row[r] = None
               /\ call'[c] = [op |-> "decision", at |-> "put_successor", prior |-> None, successor |-> r]
<1> DEFINE s == [op |-> "decision", at |-> "put_successor", prior |-> None, successor |-> r]
<1>1. call[c].at = "idle"
  BY DEF WriteDecision, Ready
<1>2. CASE row[r] = None
  <2>1. Begin(c, {}, s) /\ UNCHANGED <<disk, view, seen>>
    BY <1>2 DEF WriteDecision
  <2>2. s \in CallType /\ MovesItsOwn(s) /\ s.at = "put_successor"
    BY DEF CallType, DecideCall, MovesItsOwn, TransitionCall, WriteNodeCall, SupersedeCall
  <2> HIDE DEF s
  <2>3. RowStep(c) /\ UNCHANGED row /\ Starts(c) /\ call'[c] = s
    BY <1>1, <2>1, <2>2, BeginStarts DEF RowStep, Within, RowStages, disk
  <2> QED BY <1>2, <2>3 DEF s
<1>3. CASE row[r] # None
  <2>1. UNCHANGED <<disk, call, view, seen, excused>>
    BY <1>3 DEF WriteDecision, Refuse
  <2> QED BY <1>1, <2>1, NothingSteps DEF RowStep, Within, disk
<1> QED BY <1>2, <1>3

(* A superseded copy of a row. *)
LEMMA CopyIsARow ==
  ASSUME NEW x \in DecisionRows, NEW r \in Rows, NEW y, y = [x EXCEPT !.status = "superseded", !.by = r]
  PROVE  y \in DecisionRows /\ y.status = "superseded" /\ y.by = r /\ y.supersedes = x.supersedes
BY DEF DecisionRows

(* Row p superseded by r. *)
Superseded(p, r) == [row[p] EXCEPT !.status = "superseded", !.by = r]

LEMMA SupersedeDecisionIsRowStep ==
  ASSUME Typed, NEW c \in Calls, NEW p \in Rows, NEW r \in Rows, SupersedeDecision(c, p, r)
  PROVE  /\ RowStep(c) /\ UNCHANGED row
         /\ \/ Proceeds(c) /\ call' = call
            \/ /\ Starts(c) /\ Supersedable(p, r)
               /\ call'[c] = [op |-> "decision", at |-> "put_successor", prior |-> p, successor |-> r,
                              new |-> Superseded(p, r)]
<1> DEFINE new == [row[p] EXCEPT !.status = "superseded", !.by = r]
           s == [op |-> "decision", at |-> "put_successor", prior |-> p, successor |-> r, new |-> new]
<1>1. call[c].at = "idle"
  BY DEF SupersedeDecision, Ready
<1>2. CASE Supersedable(p, r)
  <2>1. Begin(c, {}, s) /\ UNCHANGED <<disk, view, seen>>
    BY <1>2 DEF SupersedeDecision
  <2>2. new \in DecisionRows
    BY <1>2 DEF Supersedable, Typed, DiskTypes, DecisionRows
  <2> HIDE DEF new
  <2>3. s \in SupersedeCall /\ p # r /\ s.prior = p /\ s.successor = r
    BY <1>2, <2>2 DEF SupersedeCall, Supersedable
  <2>4. s \in CallType /\ MovesItsOwn(s) /\ s.at = "put_successor"
    BY <2>3 DEF CallType, MovesItsOwn, TransitionCall, WriteNodeCall, SupersedeCall
  <2> HIDE DEF s
  <2>5. RowStep(c) /\ UNCHANGED row /\ Starts(c) /\ call'[c] = s
    BY <1>1, <2>1, <2>4, BeginStarts DEF RowStep, Within, RowStages, disk
  <2> QED BY <1>2, <2>5 DEF s, new, Superseded
<1>3. CASE ~Supersedable(p, r)
  <2>1. UNCHANGED <<disk, call, view, seen, excused>>
    BY <1>3 DEF SupersedeDecision
  <2> QED BY <1>1, <2>1, NothingSteps DEF RowStep, Within, disk
<1> QED BY <1>2, <1>3

LEMMA RowCalls ==
  ASSUME Typed, NEW c \in Calls, call[c].at \in RowStages
  PROVE  /\ call[c] \in DecideCall \cup SupersedeCall
         /\ call[c].successor \in Rows /\ call[c].prior \in Rows \cup {None}
         /\ Subject(call[c]) = {call[c].prior, call[c].successor} \ {None}
         /\ (call[c].prior # None \/ call[c].at = "put_prior") =>
               call[c] \in SupersedeCall /\ call[c].prior # call[c].successor /\ call[c].new \in DecisionRows
<1>1. call[c] \in DecideCall \cup SupersedeCall /\ (call[c].at = "put_prior" => call[c] \in SupersedeCall)
      /\ MovesItsOwn(call[c])
  BY Shapes DEF RowStages, Typed
<1> QED BY <1>1, Subjects DEF DecideCall, SupersedeCall, MovesItsOwn

LEMMA PutSuccessorIsRowStep ==
  ASSUME Typed, NEW c \in Calls, PutSuccessor(c)
  PROVE  /\ RowStep(c) /\ Proceeds(c)
         /\ \/ call'[c] = Idle /\ UNCHANGED row
            \/ /\ row' = [row EXCEPT ![call[c].successor] = ActiveRow(call[c].prior)]
               /\ \/ call[c].prior = None /\ call'[c] = Idle
                  \/ call[c].prior # None /\ call'[c] = [call[c] EXCEPT !.at = "put_prior"]
<1> DEFINE s == call[c]
           t == [s EXCEPT !.at = "put_prior"]
<1>1. s \in DecideCall \cup SupersedeCall /\ s.at = "put_successor" /\ s.successor \in Rows
      /\ s.prior \in Rows \cup {None} /\ Subject(s) = {s.prior, s.successor} \ {None}
      /\ (s.prior # None => s \in SupersedeCall)
  BY RowCalls DEF PutSuccessor, RowStages
<1>2. s.successor \in Subject(s)
  BY <1>1, NoneIsNothing DEF Files
<1>3. s.prior # None => t \in SupersedeCall /\ t.at = "put_prior" /\ Subject(t) = Subject(s) /\ MovesItsOwn(t)
  <2>1. s.prior # None => t \in SupersedeCall /\ t.at = "put_prior" /\ t.prior = s.prior
                          /\ t.successor = s.successor /\ s.prior # s.successor
    BY <1>1, RowCalls DEF SupersedeCall, RowStages
  <2> HIDE DEF t
  <2> QED BY <1>1, <2>1, Subjects DEF MovesItsOwn, SupersedeCall, TransitionCall, WriteNodeCall
<1>4. ActiveRow(s.prior) \in DecisionRows
  BY <1>1 DEF ActiveRow, DecisionRows
<1> HIDE DEF t
<1>5. ASSUME row' = [row EXCEPT ![s.successor] = ActiveRow(s.prior)],
             UNCHANGED <<node, audit, edge, run, view, seen>>, excused \subseteq excused',
             NEW next, next = Idle \/ (next = t /\ s.prior # None), call' = [call EXCEPT ![c] = next]
      PROVE  RowStep(c) /\ Proceeds(c) /\ call'[c] = next
  <2>1. DiskTypes' /\ Writes(Subject(s))
    BY <1>1, <1>2, <1>4, <1>5 DEF Typed, DiskTypes, Writes
  <2>2. next \in CallType /\ MovesItsOwn(next) /\ Subject(next) \subseteq Subject(s)
        /\ next.at \in {"put_prior", "idle"}
    BY <1>3, <1>5, IdleCall DEF CallType
  <2> QED BY <1>1, <1>5, <2>1, <2>2, GoesOn DEF RowStep, Within, RowStages
<1>6. CASE row' = [row EXCEPT ![s.successor] = ActiveRow(s.prior)]
           /\ (IF s.prior = None THEN Return(c, {}) ELSE Goto(c, [s EXCEPT !.at = "put_prior"]))
           /\ UNCHANGED <<node, audit, edge, run, faults>>
  <2>1. UNCHANGED <<view, seen>>
    BY DEF PutSuccessor
  <2>2. CASE s.prior = None
    <3>1. call' = [call EXCEPT ![c] = Idle] /\ excused \subseteq excused'
      BY <1>6, <2>2 DEF Return
    <3> QED BY <1>5, <1>6, <2>1, <2>2, <3>1
  <2>3. CASE s.prior # None
    <3>1. call' = [call EXCEPT ![c] = t] /\ excused \subseteq excused'
      BY <1>6, <2>3 DEF Goto, t
    <3>2. RowStep(c) /\ Proceeds(c) /\ call'[c] = t
      BY <1>5, <1>6, <2>1, <2>3, <3>1
    <3> QED BY <1>6, <2>3, <3>2 DEF t
  <2> QED BY <2>2, <2>3
<1>7. ASSUME NEW lost, Return(c, lost), Fault, UNCHANGED <<view, seen>>
      PROVE  RowStep(c) /\ Proceeds(c) /\ call'[c] = Idle /\ UNCHANGED row
  BY <1>1, <1>7, FailsSteps DEF RowStep, Within, RowStages, disk
<1> QED BY <1>6, <1>7 DEF PutSuccessor

LEMMA PutPriorIsRowStep ==
  ASSUME Typed, NEW c \in Calls, PutPrior(c)
  PROVE  /\ RowStep(c) /\ Proceeds(c) /\ call'[c] = Idle
         /\ \/ row' = [row EXCEPT ![call[c].prior] = call[c].new]
            \/ UNCHANGED row /\ {call[c].prior, call[c].successor} \subseteq excused'
<1> DEFINE s == call[c]
<1>1. s \in SupersedeCall /\ s.at = "put_prior" /\ s.new \in DecisionRows
      /\ Subject(s) = {s.prior, s.successor} \ {None}
  BY RowCalls DEF PutPrior, RowStages
<1>2. s.prior \in Rows /\ s.prior \in Subject(s)
  BY <1>1, NoneIsNothing DEF Files, SupersedeCall
<1>3. ASSUME row' = [row EXCEPT ![s.prior] = s.new], UNCHANGED <<node, audit, edge, run, view, seen>>,
             NEW lost, Return(c, lost)
      PROVE  RowStep(c) /\ Proceeds(c) /\ call'[c] = Idle
  <2>1. DiskTypes' /\ Writes(Subject(s))
    BY <1>1, <1>2, <1>3 DEF Typed, DiskTypes, Writes
  <2>2. call' = [call EXCEPT ![c] = Idle] /\ excused \subseteq excused' /\ Subject(Idle) \subseteq Subject(s)
    BY <1>3, IdleCall DEF Return
  <2> QED BY <1>1, <1>3, <2>1, <2>2, IdleCall, GoesOn DEF RowStep, Within, RowStages
<1>4. ASSUME Return(c, {s.prior, s.successor}), Fault, UNCHANGED <<view, seen>>
      PROVE  RowStep(c) /\ Proceeds(c) /\ call'[c] = Idle /\ UNCHANGED row
             /\ {s.prior, s.successor} \subseteq excused'
  <2>1. RowStep(c) /\ Proceeds(c) /\ call'[c] = Idle /\ UNCHANGED row
    BY <1>1, <1>4, FailsSteps DEF RowStep, Within, RowStages, disk
  <2> QED BY <1>4, <2>1 DEF Return
<1> QED BY <1>3, <1>4 DEF PutPrior

LEMMA IngestRunIsRunStep ==
  ASSUME Typed, NEW c \in Calls, NEW r \in Runs, NEW artifact \in Artifacts, IngestRun(c, r, artifact)
  PROVE  /\ RunStep(c) /\ UNCHANGED run
         /\ \/ Proceeds(c) /\ call' = call
            \/ Starts(c) /\ run[r] = None /\ call'[c].at = "put_run" /\ call'[c].r = r
<1> DEFINE s == [op |-> "ingest-run", at |-> "put_run", r |-> r, new |-> artifact]
<1>1. call[c].at = "idle"
  BY DEF IngestRun, Ready
<1>2. CASE artifact.schema = "kaava-bench-v1" /\ artifact.answered /\ run[r] = None
  <2>1. Begin(c, {}, s) /\ UNCHANGED <<disk, view, seen>>
    BY <1>2 DEF IngestRun
  <2>2. s \in CallType /\ MovesItsOwn(s) /\ s.at = "put_run" /\ s.r = r
    BY DEF CallType, IngestCall, MovesItsOwn, TransitionCall, WriteNodeCall, SupersedeCall
  <2> HIDE DEF s
  <2> QED BY <1>1, <1>2, <2>1, <2>2, BeginStarts DEF RunStep, Within, disk
<1>3. CASE ~(artifact.schema = "kaava-bench-v1" /\ artifact.answered /\ run[r] = None)
  <2>1. UNCHANGED <<disk, call, view, seen, excused>>
    BY <1>3 DEF IngestRun, Refuse
  <2> QED BY <1>1, <2>1, NothingSteps DEF RunStep, Within, disk
<1> QED BY <1>2, <1>3

LEMMA PutRunIsRunStep ==
  ASSUME Typed, NEW c \in Calls, PutRun(c)
  PROVE  /\ RunStep(c) /\ Proceeds(c) /\ call'[c] = Idle
         /\ \A r \in Runs \ {call[c].r} : run'[r] = run[r]
<1> DEFINE s == call[c]
<1>1. s \in IngestCall /\ s.at = "put_run" /\ s.r \in Runs /\ s.new \in Artifacts /\ Subject(s) = {s.r}
  <2>1. s \in IngestCall /\ s.at = "put_run"
    BY Shapes DEF PutRun, Typed
  <2> QED BY <2>1, Subjects DEF IngestCall
<1>2. UNCHANGED <<node, audit, edge, row, view, seen>>
      /\ (run' = [run EXCEPT ![s.r] = s.new] \/ run' = run)
  BY DEF PutRun, Fault, disk
<1>3. call' = [call EXCEPT ![c] = Idle] /\ excused \subseteq excused' /\ Subject(Idle) \subseteq Subject(s)
  BY IdleCall DEF PutRun, Return
<1>4. DiskTypes' /\ Writes(Subject(s)) /\ \A r \in Runs \ {s.r} : run'[r] = run[r]
  BY <1>1, <1>2 DEF Typed, DiskTypes, Writes
<1> QED BY <1>1, <1>2, <1>3, <1>4, IdleCall, GoesOn DEF RunStep, Within

-----------------------------------------------------------------------------
(* The steps by what they write                                                 *)

NodeAction(c) ==
    \/ \E n \in Moved, to \in Lifecycles, actor \in {"human", "agent"} : Transition(c, n, to, actor)
    \/ \E n \in Nodes, contract \in 0 .. MaxContract : WriteNode(c, n, contract)
    \/ \E d \in Dependents : Drop(c, d)
    \/ ReadAudit(c) \/ PutNode(c) \/ PutAudit(c) \/ RollBack(c) \/ PutEdit(c)

EdgeAction(c) ==
    \/ \E k \in EdgeKinds, d \in Dependents, to \in {"live", "superseded"} : WriteEdge(c, k, d, to)
    \/ PutEdge(c) \/ Derive(c) \/ PutRefs(c)

RowAction(c) ==
    \/ \E r \in Rows : WriteDecision(c, r)
    \/ \E p, r \in Rows : SupersedeDecision(c, p, r)
    \/ PutSuccessor(c) \/ PutPrior(c)

RunAction(c) ==
    \/ \E r \in Runs, artifact \in Artifacts : IngestRun(c, r, artifact)
    \/ PutRun(c)

(* The process exits, or nothing but a client's copy changes. *)
Exits ==
    /\ UNCHANGED <<disk, seen>>
    /\ call' = [c \in Calls |-> Idle]
    /\ excused' = excused \cup UNION {Subject(call[c]) : c \in Calls}

Rests == UNCHANGED <<disk, seen, call, excused>>

LEMMA NodeActionSteps ==
  ASSUME Typed, NEW c \in Calls, NodeAction(c)
  PROVE  NodeStep(c)
<1>1. CASE \E n \in Moved, to \in Lifecycles, actor \in {"human", "agent"} : Transition(c, n, to, actor)
  BY <1>1, TransitionIsNodeStep
<1>2. CASE \E n \in Nodes, contract \in 0 .. MaxContract : WriteNode(c, n, contract)
  BY <1>2, WriteNodeIsNodeStep
<1>3. CASE \E d \in Dependents : Drop(c, d)
  BY <1>3, DropIsNodeStep
<1> QED BY <1>1, <1>2, <1>3, ReadAuditIsNodeStep, PutNodeIsNodeStep, PutAuditIsNodeStep,
           RollBackIsNodeStep, PutEditIsNodeStep DEF NodeAction

LEMMA EdgeActionSteps ==
  ASSUME Typed, NEW c \in Calls, EdgeAction(c)
  PROVE  EdgeStep(c)
<1>1. CASE \E k \in EdgeKinds, d \in Dependents, to \in {"live", "superseded"} : WriteEdge(c, k, d, to)
  BY <1>1, WriteEdgeIsEdgeStep
<1> QED BY <1>1, PutEdgeIsEdgeStep, DeriveIsEdgeStep, PutRefsIsEdgeStep DEF EdgeAction

LEMMA RowActionSteps ==
  ASSUME Typed, NEW c \in Calls, RowAction(c)
  PROVE  RowStep(c)
<1>1. CASE \E r \in Rows : WriteDecision(c, r)
  BY <1>1, WriteDecisionIsRowStep
<1>2. CASE \E p, r \in Rows : SupersedeDecision(c, p, r)
  BY <1>2, SupersedeDecisionIsRowStep
<1> QED BY <1>1, <1>2, PutSuccessorIsRowStep, PutPriorIsRowStep DEF RowAction

LEMMA RunActionSteps ==
  ASSUME Typed, NEW c \in Calls, RunAction(c)
  PROVE  RunStep(c)
<1>1. CASE \E r \in Runs, artifact \in Artifacts : IngestRun(c, r, artifact)
  BY <1>1, IngestRunIsRunStep
<1> QED BY <1>1, PutRunIsRunStep DEF RunAction

LEMMA NextSplits ==
  ASSUME Typed, [Next]_vars
  PROVE  \/ Rests /\ Typed'
         \/ Exits /\ Typed'
         \/ \E c \in Calls : NodeAction(c) \/ EdgeAction(c) \/ RowAction(c) \/ RunAction(c)
<1>1. CASE UNCHANGED vars
  <2>1. Rests /\ view' = view
    BY <1>1 DEF vars, Rests, disk
  <2> QED BY <2>1 DEF Rests, disk, Typed, DiskTypes, CallTypes, MovesItsOwn
<1>2. CASE LoadGraph
  <2>1. Rests /\ view' = node
    BY <1>2 DEF LoadGraph, Rests, disk
  <2> QED BY <2>1 DEF Rests, disk, Typed, DiskTypes, CallTypes, MovesItsOwn
<1>3. CASE Exit
  <2>1. Exits /\ view' = view
    BY <1>3 DEF Exit, Exits
  <2>2. CallTypes'
    BY <2>1, IdleCall DEF Exits, CallTypes, MovesItsOwn
  <2>3. DiskTypes'
    BY <2>1 DEF Exits, disk, Typed, DiskTypes
  <2> QED BY <2>1, <2>2, <2>3 DEF Typed
<1>4. CASE \E c \in Calls : NodeAction(c) \/ EdgeAction(c) \/ RowAction(c) \/ RunAction(c)
  BY <1>4
<1> QED BY <1>1, <1>2, <1>3, <1>4 DEF Next, NodeAction, EdgeAction, RowAction, RunAction

-----------------------------------------------------------------------------
(* Two calls are at work on one file only when that is excused.                 *)

Exclusive ==
    \A b, c \in Calls : b # c => Subject(call[b]) \cap Subject(call[c]) \subseteq excused

Base == Typed /\ Exclusive

LEMMA InitBase == Init => Base
<1> SUFFICES ASSUME Init PROVE Base
  OBVIOUS
<1>1. call \in [Calls -> CallType] /\ \A c \in Calls : call[c] = Idle
  BY IdleCall DEF Init
<1>2. CallTypes
  BY <1>1, IdleCall DEF CallTypes
<1>3. node \in [Nodes -> NodeType] /\ view \in [Nodes -> NodeType]
  BY DEF Init, NodeType, Lifecycles
<1>4. audit \in [Nodes -> Seq(AuditType)]
  BY DEF Init
<1>5. edge \in [EdgeKinds \X Dependents -> {None, "live", "superseded"}]
      /\ row \in [Rows -> DecisionRows \cup {None}] /\ run \in [Runs -> Artifacts \cup {None}]
      /\ seen \in [Dependents -> [Contracted -> Nat]]
  BY DEF Init
<1>6. Exclusive
  BY <1>1, IdleCall DEF Exclusive
<1> QED BY <1>2, <1>3, <1>4, <1>5, <1>6 DEF Base, Typed, DiskTypes

LEMMA StepsBase ==
  ASSUME Base, NEW c \in Calls, Steps(c)
  PROVE  Base' /\ excused \subseteq excused'
<1>1. excused \subseteq excused' /\ Typed' /\ Others(c)
  BY DEF Steps, Starts, Proceeds
<1>2. ASSUME NEW b \in Calls \ {c}
      PROVE  Subject(call'[b]) \cap Subject(call'[c]) \subseteq excused'
  <2>1. call'[b] = call[b]
    BY <1>1 DEF Others
  <2>2. CASE Starts(c)
    BY <2>1, <2>2 DEF Starts, InFlight
  <2>3. CASE Proceeds(c)
    BY <1>1, <2>1, <2>3 DEF Proceeds, Base, Exclusive
  <2> QED BY <2>2, <2>3 DEF Steps
<1>3. ASSUME NEW a \in Calls \ {c}, NEW b \in Calls \ {c}, a # b
      PROVE  Subject(call'[a]) \cap Subject(call'[b]) \subseteq excused'
  BY <1>1, <1>3 DEF Others, Base, Exclusive
<1>4. Exclusive'
  BY <1>2, <1>3 DEF Exclusive
<1> QED BY <1>1, <1>4 DEF Base

LEMMA NextBase == Base /\ [Next]_vars => Base' /\ excused \subseteq excused'
<1> SUFFICES ASSUME Base, [Next]_vars PROVE Base' /\ excused \subseteq excused'
  OBVIOUS
<1>1. CASE Rests /\ Typed'
  BY <1>1 DEF Rests, Base, Exclusive
<1>2. CASE Exits /\ Typed'
  BY <1>2, IdleCall DEF Exits, Base, Exclusive
<1>3. ASSUME NEW c \in Calls, NodeAction(c) \/ EdgeAction(c) \/ RowAction(c) \/ RunAction(c)
      PROVE  Base' /\ excused \subseteq excused'
  <2>1. Steps(c)
    BY <1>3, NodeActionSteps, EdgeActionSteps, RowActionSteps, RunActionSteps
       DEF Base, NodeStep, EdgeStep, RowStep, RunStep
  <2> QED BY <2>1, StepsBase
<1> QED BY <1>1, <1>2, <1>3, NextSplits DEF Base

(* File f is as it was. *)
Same(f) ==
    /\ f \in Nodes => node'[f] = node[f] /\ audit'[f] = audit[f]
    /\ f \in Dependents => seen'[f] = seen[f] /\ \A k \in EdgeKinds : edge'[<<k, f>>] = edge[<<k, f>>]
    /\ f \in Rows => row'[f] = row[f]
    /\ f \in Runs => run'[f] = run[f]

(* The files a call is at work on stay while only another call steps. *)
LEMMA Undisturbed ==
  ASSUME Base, NEW c \in Calls, Steps(c), NEW b \in Calls \ {c},
         NEW f \in Subject(call[b]), f \notin excused'
  PROVE  /\ f \notin excused /\ f \notin Subject(call[c]) /\ f \notin Subject(call'[c])
         /\ call'[b] = call[b] /\ Same(f)
<1>1. Base' /\ excused \subseteq excused' /\ call'[b] = call[b]
  BY StepsBase DEF Steps, Others
<1>2. f \notin excused /\ f \notin Subject(call[c]) /\ f \notin Subject(call'[c])
  BY <1>1 DEF Base, Exclusive
<1>3. CASE Starts(c)
  BY <1>1, <1>2, <1>3 DEF Starts, disk, Same
<1>4. CASE Proceeds(c)
  BY <1>1, <1>2, <1>4 DEF Proceeds, Writes, Same
<1> QED BY <1>1, <1>2, <1>3, <1>4 DEF Steps

(* So do the files no stepping call is at work on. *)
LEMMA Untouched ==
  ASSUME NEW c \in Calls, Steps(c), NEW f, f \notin Subject(call[c])
  PROVE  Same(f)
<1>1. CASE Starts(c)
  BY <1>1 DEF Starts, disk, Same
<1>2. CASE Proceeds(c)
  BY <1>2 DEF Proceeds, Writes, Same
<1> QED BY <1>1, <1>2 DEF Steps

(* BaseHolds: every call in flight is in one of the states its handler goes     *)
(* through, and two calls share a file only when that is excused.               *)
THEOREM BaseHolds == Spec => []Base
<1>1. Init => Base
  BY InitBase
<1>2. Base /\ [Next]_vars => Base'
  BY NextBase
<1> QED BY <1>1, <1>2, PTL DEF Spec

-----------------------------------------------------------------------------
(* The decision log                                                             *)

(* Whatever is excused, rows name rows that exist, ... *)
RowSound(x) ==
    /\ x.status = "superseded" <=> x.by # None
    /\ x.by # None => row[x.by] # None
    /\ x.supersedes # None => row[x.supersedes] # None

RowsSound == \A r \in Rows : row[r] # None => RowSound(row[r]) /\ row[r].supersedes # r

(* ... and so does what a supersession is about to write. *)
SupersedeSound(s) ==
    s.at \in RowStages /\ s.prior # None =>
        /\ row[s.prior] # None
        /\ s.new.status = "superseded" /\ s.new.by = s.successor /\ s.new.supersedes # s.prior
        /\ s.new.supersedes # None => row[s.new.supersedes] # None
        /\ s.at = "put_prior" => row[s.successor] # None

(* A decision call writes rows it has found as they stand. *)
FreshRow(s) ==
    /\ s.at = "put_successor" /\ s.successor \notin excused => row[s.successor] = None
    /\ s.at \in RowStages /\ s.prior # None /\ s.prior \notin excused =>
          /\ row[s.prior].status = "active"
          /\ s.new = [row[s.prior] EXCEPT !.status = "superseded", !.by = s.successor]
    /\ s.at = "put_prior" /\ s.successor \notin excused => row[s.successor] = ActiveRow(s.prior)

(* Two rows point at each other, or a call is between its two writes. *)
Superseding(s, p, r) == s.at = "put_prior" /\ s.prior = p /\ s.successor = r

Linked(p, r) ==
    p \notin excused /\ r \notin excused /\ row[p] # None /\ row[r] # None =>
        \/ row[r].supersedes = p <=> row[p].by = r
        \/ \E c \in Calls : Superseding(call[c], p, r)

RowInv ==
    /\ Base /\ RowsSound
    /\ \A c \in Calls : SupersedeSound(call[c]) /\ FreshRow(call[c])
    /\ \A p, r \in Rows : Linked(p, r)

(* No row is ever removed. *)
RowsStay == \A r \in Rows : row[r] # None => row'[r] # None

LEMMA RowValue ==
  ASSUME Typed, NEW r \in Rows, row[r] # None
  PROVE  /\ row[r] \in DecisionRows /\ row[r].supersedes \in Rows \cup {None}
         /\ row[r].by \in Rows \cup {None} /\ row[r].status \in {"active", "superseded"}
BY DEF Typed, DiskTypes, DecisionRows

LEMMA NoneIsNoFile == None \notin Rows /\ None \notin Nodes /\ None \notin DecisionRows
BY NoneIsNothing DEF Files

(* Every step but a decision's leaves the log and the calls that write it. *)
Elsewhere(c) == UNCHANGED row /\ call[c].at \notin RowStages /\ call'[c].at \notin RowStages

LEMMA OthersElsewhere ==
  ASSUME Typed, NEW c \in Calls, NodeAction(c) \/ EdgeAction(c) \/ RunAction(c)
  PROVE  Steps(c) /\ Elsewhere(c)
BY NodeActionSteps, EdgeActionSteps, RunActionSteps
   DEF NodeStep, EdgeStep, RunStep, Within, NodeStages, EdgeStages, RowStages, Elsewhere

LEMMA OtherDecisions ==
  ASSUME Base, NEW c \in Calls, Steps(c), RowsStay, NEW b \in Calls \ {c},
         SupersedeSound(call[b]), FreshRow(call[b])
  PROVE  SupersedeSound(call[b])' /\ FreshRow(call[b])'
<1>1. excused \subseteq excused' /\ call'[b] = call[b]
  BY StepsBase DEF Steps, Others
<1>. PICK s : s = call[b] /\ s = call'[b] /\ SupersedeSound(s) /\ FreshRow(s)
  BY <1>1
<1>2. s.at \in RowStages =>
        /\ s.successor \in Rows /\ s.prior \in Rows \cup {None}
        /\ Subject(s) = {s.prior, s.successor} \ {None}
        /\ s.prior # None => s.new \in DecisionRows
        /\ s.at = "put_prior" => s.prior # None
  BY RowCalls, NoneIsNoFile DEF Base, SupersedeCall
<1>3. s.at \in RowStages /\ s.successor \notin excused' => row'[s.successor] = row[s.successor]
  <2> SUFFICES ASSUME s.at \in RowStages, s.successor \notin excused'
               PROVE  row'[s.successor] = row[s.successor]
    OBVIOUS
  <2>1. s.successor \in Rows /\ s.successor \in Subject(call[b])
    BY <1>2, NoneIsNoFile
  <2>2. Same(s.successor)
    BY <2>1, Undisturbed
  <2> QED BY <2>1, <2>2 DEF Same
<1>4. s.at \in RowStages /\ s.prior # None /\ s.prior \notin excused' => row'[s.prior] = row[s.prior]
  <2> SUFFICES ASSUME s.at \in RowStages, s.prior # None, s.prior \notin excused'
               PROVE  row'[s.prior] = row[s.prior]
    OBVIOUS
  <2>1. s.prior \in Rows /\ s.prior \in Subject(call[b])
    BY <1>2, NoneIsNoFile
  <2>2. Same(s.prior)
    BY <2>1, Undisturbed
  <2> QED BY <2>1, <2>2 DEF Same
<1>5. s.at \in RowStages /\ s.prior # None => s.new.supersedes \in Rows \cup {None}
  BY <1>2 DEF DecisionRows
<1>6. SupersedeSound(s)'
  BY <1>1, <1>2, <1>5 DEF SupersedeSound, RowsStay, RowStages
<1>7. FreshRow(s)'
  BY <1>1, <1>2, <1>3, <1>4 DEF FreshRow, RowStages, ActiveRow
<1> QED BY <1>6, <1>7

(* Links stay while neither row is written and no supersession of them ends. *)
LEMMA LinkedStays ==
  ASSUME NEW p \in Rows, NEW r \in Rows, Linked(p, r), excused \subseteq excused',
         row'[p] = row[p], row'[r] = row[r],
         \A b \in Calls : Superseding(call[b], p, r) => Superseding(call'[b], p, r)
  PROVE  Linked(p, r)'
BY DEF Linked

(* The log kept by a step that writes no row. *)
LEMMA NoRowWritten ==
  ASSUME RowInv, UNCHANGED row, Base', excused \subseteq excused',
         \A b \in Calls : SupersedeSound(call[b])' /\ FreshRow(call[b])',
         \A b \in Calls : call[b].at = "put_prior" => call'[b] = call[b]
  PROVE  RowInv'
<1>1. RowsSound'
  BY DEF RowInv, RowsSound, RowSound
<1>2. ASSUME NEW p \in Rows, NEW r \in Rows
      PROVE  Linked(p, r)'
  <2>1. \A b \in Calls : Superseding(call[b], p, r) => Superseding(call'[b], p, r)
    BY DEF Superseding
  <2>2. Linked(p, r)
    BY DEF RowInv
  <2> QED BY <2>1, <2>2, LinkedStays
<1> QED BY <1>1, <1>2 DEF RowInv

LEMMA RestsRowInv ==
  ASSUME RowInv, Rests, Typed', Base'
  PROVE  RowInv'
<1>1. UNCHANGED <<row, call, excused>>
  BY DEF Rests, disk
<1>2. RowsSound'
  BY <1>1 DEF RowInv, RowsSound, RowSound
<1>3. \A c \in Calls : SupersedeSound(call[c])' /\ FreshRow(call[c])'
  BY <1>1 DEF RowInv, SupersedeSound, FreshRow
<1>4. \A p, r \in Rows : Linked(p, r)'
  BY <1>1 DEF RowInv, Linked, Superseding
<1> QED BY <1>2, <1>3, <1>4 DEF RowInv

LEMMA ExitsRowInv ==
  ASSUME RowInv, Exits, Base'
  PROVE  RowInv'
<1>1. UNCHANGED row /\ excused \subseteq excused'
  BY DEF Exits, disk
<1>2. ASSUME NEW c \in Calls
      PROVE  call'[c].at = "idle" /\ (call[c].at = "put_prior" => {call[c].prior, call[c].successor} \subseteq excused')
  <2>1. call'[c] = Idle /\ Subject(call[c]) \subseteq excused'
    BY DEF Exits
  <2>2. call[c].at = "put_prior" => {call[c].prior, call[c].successor} \subseteq Subject(call[c])
    BY RowCalls, NoneIsNoFile DEF RowInv, Base, RowStages, SupersedeCall
  <2> QED BY <2>1, <2>2, IdleCall
<1>3. \A c \in Calls : SupersedeSound(call[c])' /\ FreshRow(call[c])'
  BY <1>2 DEF SupersedeSound, FreshRow, RowStages
<1>4. RowsSound'
  BY <1>1 DEF RowInv, RowsSound, RowSound
<1>5. ASSUME NEW p \in Rows, NEW r \in Rows
      PROVE  Linked(p, r)'
  <2>1. Linked(p, r)
    BY DEF RowInv
  <2> QED BY <1>1, <1>2, <2>1 DEF Linked, Superseding
<1> QED BY <1>3, <1>4, <1>5 DEF RowInv

(* A step of another kind. *)
LEMMA ElsewhereRowInv ==
  ASSUME RowInv, NEW c \in Calls, Steps(c), Elsewhere(c)
  PROVE  RowInv'
<1>1. Base' /\ excused \subseteq excused' /\ RowsStay
  BY StepsBase DEF RowInv, Elsewhere, RowsStay
<1>2. ASSUME NEW b \in Calls
      PROVE  SupersedeSound(call[b])' /\ FreshRow(call[b])'
  <2>1. CASE b # c
    BY <1>1, <2>1, OtherDecisions DEF RowInv
  <2>2. CASE b = c
    <3>1. call'[b].at \notin RowStages
      BY <2>2 DEF Elsewhere
    <3> QED BY <3>1 DEF SupersedeSound, FreshRow, RowStages
  <2> QED BY <2>1, <2>2
<1>3. \A b \in Calls : call[b].at = "put_prior" => call'[b] = call[b]
  BY DEF Elsewhere, Steps, Others, RowStages
<1> QED BY <1>1, <1>2, <1>3, NoRowWritten DEF Elsewhere

(* A step of c that begins, leaves or goes back from a decision. *)
LEMMA OwnDecision ==
  ASSUME RowInv, NEW c \in Calls, Steps(c), RowsStay, SupersedeSound(call[c])', FreshRow(call[c])'
  PROVE  Base' /\ excused \subseteq excused'
         /\ \A b \in Calls : SupersedeSound(call[b])' /\ FreshRow(call[b])'
<1>1. Base' /\ excused \subseteq excused'
  BY StepsBase DEF RowInv
<1>2. ASSUME NEW b \in Calls \ {c}
      PROVE  SupersedeSound(call[b])' /\ FreshRow(call[b])'
  BY OtherDecisions DEF RowInv
<1> QED BY <1>1, <1>2

LEMMA WriteDecisionRowInv ==
  ASSUME RowInv, NEW c \in Calls, NEW r \in Rows, WriteDecision(c, r)
  PROVE  RowInv'
<1>1. RowStep(c) /\ UNCHANGED row
      /\ \/ Proceeds(c) /\ call' = call
         \/ /\ Starts(c) /\ row[r] = None
            /\ call'[c] = [op |-> "decision", at |-> "put_successor", prior |-> None, successor |-> r]
  BY WriteDecisionIsRowStep DEF RowInv, Base
<1>2. call[c].at = "idle" /\ RowsStay /\ Steps(c)
  BY <1>1 DEF WriteDecision, Ready, RowsStay, RowStep
<1>3. CASE call' = call
  <2>1. call'[c].at \notin RowStages /\ Elsewhere(c)
    BY <1>1, <1>2, <1>3 DEF Elsewhere, RowStages
  <2> QED BY <1>2, <2>1, ElsewhereRowInv
<1>4. CASE row[r] = None /\ call'[c] = [op |-> "decision", at |-> "put_successor", prior |-> None, successor |-> r]
  <2>1. SupersedeSound(call[c])' /\ FreshRow(call[c])'
    BY <1>1, <1>4 DEF SupersedeSound, FreshRow, RowStages
  <2>2. \A b \in Calls : call[b].at = "put_prior" => call'[b] = call[b]
    BY <1>2 DEF Steps, Others
  <2> QED BY <1>1, <1>2, <2>1, <2>2, OwnDecision, NoRowWritten
<1> QED BY <1>1, <1>3, <1>4

LEMMA SupersedeDecisionRowInv ==
  ASSUME RowInv, NEW c \in Calls, NEW p \in Rows, NEW r \in Rows, SupersedeDecision(c, p, r)
  PROVE  RowInv'
<1> DEFINE new == Superseded(p, r)
<1>1. RowStep(c) /\ UNCHANGED row
      /\ \/ Proceeds(c) /\ call' = call
         \/ /\ Starts(c) /\ Supersedable(p, r)
            /\ call'[c] = [op |-> "decision", at |-> "put_successor", prior |-> p, successor |-> r, new |-> new]
  BY SupersedeDecisionIsRowStep DEF RowInv, Base
<1>2. call[c].at = "idle" /\ RowsStay /\ Steps(c)
  BY <1>1 DEF SupersedeDecision, Ready, RowsStay, RowStep
<1>3. CASE call' = call
  <2>1. call'[c].at \notin RowStages /\ Elsewhere(c)
    BY <1>1, <1>2, <1>3 DEF Elsewhere, RowStages
  <2> QED BY <1>2, <2>1, ElsewhereRowInv
<1>4. CASE /\ Supersedable(p, r)
           /\ call'[c] = [op |-> "decision", at |-> "put_successor", prior |-> p, successor |-> r, new |-> new]
  <2>1. row[p] # None /\ row[p].status = "active" /\ row[r] = None /\ row[p] \in DecisionRows
    BY <1>4, RowValue DEF Supersedable, RowInv, Base
  <2>2. new.status = "superseded" /\ new.by = r /\ new.supersedes = row[p].supersedes
        /\ new = [row[p] EXCEPT !.status = "superseded", !.by = r]
    BY <2>1 DEF DecisionRows, Superseded
  <2> HIDE DEF new
  <2>3. row[p].supersedes # p /\ (row[p].supersedes # None => row[row[p].supersedes] # None)
    BY <2>1 DEF RowInv, RowsSound, RowSound
  <2>4. call'[c].at = "put_successor" /\ call'[c].prior = p /\ call'[c].successor = r /\ call'[c].new = new
    BY <1>4
  <2>5. SupersedeSound(call[c])'
    BY <1>1, <2>4, <2>1, <2>2, <2>3 DEF SupersedeSound, RowStages
  <2>6. FreshRow(call[c])'
    BY <1>1, <2>4, <2>1, <2>2 DEF FreshRow, RowStages
  <2>7. \A b \in Calls : call[b].at = "put_prior" => call'[b] = call[b]
    BY <1>2 DEF Steps, Others
  <2> QED BY <1>1, <1>2, <2>5, <2>6, <2>7, OwnDecision, NoRowWritten
<1> QED BY <1>1, <1>3, <1>4

(* Rows stay sound while each that is written is sound and names no row missing. *)
LEMMA SoundStays ==
  ASSUME Typed, RowsSound, RowsStay, NEW x \in Rows, row[x] # None, row'[x] = row[x]
  PROVE  RowSound(row[x])' /\ row'[x].supersedes # x
<1>1. RowSound(row[x]) /\ row[x].supersedes # x /\ row[x].by \in Rows \cup {None}
      /\ row[x].supersedes \in Rows \cup {None}
  BY RowValue DEF RowsSound
<1> QED BY <1>1 DEF RowSound, RowsStay

LEMMA PutSuccessorRowInv ==
  ASSUME RowInv, NEW c \in Calls, PutSuccessor(c)
  PROVE  RowInv'
<1> DEFINE s == call[c]
           r == s.successor
           p0 == s.prior
<1>1. RowStep(c) /\ Proceeds(c) /\ s.at = "put_successor" /\ Typed
      /\ \/ call'[c] = Idle /\ UNCHANGED row
         \/ /\ row' = [row EXCEPT ![r] = ActiveRow(p0)]
            /\ \/ p0 = None /\ call'[c] = Idle
               \/ p0 # None /\ call'[c] = [s EXCEPT !.at = "put_prior"]
  BY PutSuccessorIsRowStep DEF RowInv, Base, PutSuccessor
<1>2. r \in Rows /\ p0 \in Rows \cup {None} /\ r # None /\ (p0 # None => p0 # r /\ s \in SupersedeCall)
  BY <1>1, RowCalls, NoneIsNoFile DEF RowStages
<1>3. SupersedeSound(s) /\ FreshRow(s) /\ Steps(c) /\ RowsSound
  BY <1>1 DEF RowInv, RowStep
<1>4. Base' /\ excused \subseteq excused' /\ Others(c)
  BY <1>3, StepsBase DEF RowInv, Steps
<1>5. CASE call'[c] = Idle /\ UNCHANGED row
  <2>1. SupersedeSound(call[c])' /\ FreshRow(call[c])' /\ RowsStay
    BY <1>5, IdleCall DEF SupersedeSound, FreshRow, RowStages, RowsStay
  <2>2. \A b \in Calls : call[b].at = "put_prior" => call'[b] = call[b]
    BY <1>1, <1>4 DEF Others
  <2> QED BY <1>3, <1>5, <2>1, <2>2, OwnDecision, NoRowWritten
<1>6. CASE /\ row' = [row EXCEPT ![r] = ActiveRow(p0)]
           /\ \/ p0 = None /\ call'[c] = Idle
              \/ p0 # None /\ call'[c] = [s EXCEPT !.at = "put_prior"]
  <2>1. row \in [Rows -> DecisionRows \cup {None}] /\ ActiveRow(p0) \in DecisionRows
    BY <1>1, <1>2 DEF Typed, DiskTypes, ActiveRow, DecisionRows
  <2>2. row'[r] = ActiveRow(p0) /\ row'[r] # None /\ \A x \in Rows \ {r} : row'[x] = row[x]
    BY <1>2, <1>6, <2>1, NoneIsNoFile
  <2>3. RowsStay /\ (p0 # None => row'[p0] # None)
    BY <1>1, <1>2, <1>3, <2>2 DEF RowsStay, SupersedeSound, RowStages
  <2>4. RowsSound'
    <3>1. ASSUME NEW x \in Rows, row'[x] # None
          PROVE  RowSound(row[x])' /\ row'[x].supersedes # x
      <4>1. CASE x = r
        BY <1>2, <2>2, <2>3, <4>1 DEF RowSound, ActiveRow
      <4>2. CASE x # r
        BY <1>1, <1>3, <2>2, <2>3, <3>1, <4>2, SoundStays
      <4> QED BY <4>1, <4>2
    <3> QED BY <3>1 DEF RowsSound
  <2>5. p0 # None =>
          /\ call'[c].at = "put_prior" /\ call'[c].prior = p0 /\ call'[c].successor = r
          /\ call'[c].new = s.new /\ s.new.supersedes \in Rows \cup {None}
    BY <1>2, <1>6 DEF SupersedeCall, DecisionRows
  <2>6. SupersedeSound(call[c])'
    <3>1. CASE p0 = None
      BY <1>6, <3>1, IdleCall DEF SupersedeSound, RowStages
    <3>2. CASE p0 # None
      BY <1>1, <1>3, <2>2, <2>3, <2>5, <3>2 DEF SupersedeSound, RowStages, RowsStay
    <3> QED BY <3>1, <3>2
  <2>7. FreshRow(call[c])'
    <3>1. CASE p0 = None
      BY <1>6, <3>1, IdleCall DEF FreshRow, RowStages
    <3>2. CASE p0 # None
      <4>1. row'[p0] = row[p0]
        BY <1>2, <2>2, <3>2
      <4>2. p0 \notin excused =>
              row[p0].status = "active" /\ s.new = [row[p0] EXCEPT !.status = "superseded", !.by = r]
        BY <1>1, <1>3, <3>2 DEF FreshRow, RowStages
      <4> QED BY <1>4, <2>2, <2>5, <3>2, <4>1, <4>2 DEF FreshRow, RowStages, ActiveRow
    <3> QED BY <3>1, <3>2
  <2>8. ASSUME NEW p \in Rows, NEW q \in Rows
        PROVE  Linked(p, q)'
    <3>1. SUFFICES ASSUME p \notin excused', q \notin excused', row'[p] # None, row'[q] # None
                   PROVE  \/ row'[q].supersedes = p <=> row'[p].by = q
                          \/ \E b \in Calls : Superseding(call'[b], p, q)
      BY DEF Linked
    <3>2. p \notin excused /\ q \notin excused /\ Linked(p, q)
      BY <1>4, <3>1 DEF RowInv
    <3>3. r \notin excused => row[r] = None
      BY <1>1, <1>3 DEF FreshRow
    <3>4. CASE q = r /\ p = p0
      <4>1. Superseding(call'[c], p, q)
        BY <1>2, <2>5, <3>4, NoneIsNoFile DEF Superseding
      <4> QED BY <4>1
    <3>5. CASE q = r /\ p # p0 /\ p # r
      <4>1. row'[q].supersedes = p0 /\ row'[p] = row[p]
        BY <2>2, <3>5 DEF ActiveRow
      <4>2. row[p].by # r
        BY <1>3, <3>1, <3>2, <3>3, <3>5, <4>1, NoneIsNoFile DEF RowsSound, RowSound
      <4> QED BY <3>5, <4>1, <4>2
    <3>6. CASE q = r /\ p # p0 /\ p = r
      BY <1>2, <2>2, <3>6 DEF ActiveRow
    <3>7. CASE q # r /\ p = r
      <4>1. row'[q] = row[q] /\ row'[p].by = None
        BY <2>2, <3>7 DEF ActiveRow
      <4>2. row[q].supersedes # r
        BY <1>3, <3>1, <3>2, <3>3, <3>7, <4>1, NoneIsNoFile DEF RowsSound, RowSound
      <4> QED BY <3>7, <4>1, <4>2, NoneIsNoFile
    <3>8. CASE q # r /\ p # r
      <4>1. \A b \in Calls : Superseding(call[b], p, q) => Superseding(call'[b], p, q)
        BY <1>1, <1>4 DEF Superseding, Others
      <4>2. Linked(p, q)'
        BY <1>4, <2>2, <3>2, <3>8, <4>1, LinkedStays
      <4> QED BY <3>1, <4>2 DEF Linked
    <3> QED BY <3>4, <3>5, <3>6, <3>7, <3>8
  <2>9. \A b \in Calls : SupersedeSound(call[b])' /\ FreshRow(call[b])'
    BY <1>3, <2>3, <2>6, <2>7, OwnDecision
  <2> QED BY <1>4, <2>4, <2>8, <2>9 DEF RowInv
<1> QED BY <1>1, <1>5, <1>6

LEMMA PutPriorRowInv ==
  ASSUME RowInv, NEW c \in Calls, PutPrior(c)
  PROVE  RowInv'
<1> DEFINE s == call[c]
           r == s.successor
           p0 == s.prior
<1>1. /\ RowStep(c) /\ call'[c] = Idle /\ s.at = "put_prior" /\ Typed
      /\ \/ row' = [row EXCEPT ![p0] = s.new]
         \/ UNCHANGED row /\ {p0, r} \subseteq excused'
  BY PutPriorIsRowStep DEF RowInv, Base, PutPrior
<1>2. r \in Rows /\ p0 \in Rows /\ p0 # None /\ p0 # r /\ s.new \in DecisionRows
      /\ Subject(s) = {p0, r} \ {None}
  BY <1>1, RowCalls, NoneIsNoFile DEF RowStages, SupersedeCall
<1>3. SupersedeSound(s) /\ FreshRow(s) /\ Steps(c) /\ RowsSound
  BY <1>1 DEF RowInv, RowStep
<1>4. Base' /\ excused \subseteq excused' /\ Others(c)
  BY <1>3, StepsBase DEF RowInv, Steps
<1>5. SupersedeSound(call[c])' /\ FreshRow(call[c])'
  BY <1>1, IdleCall DEF SupersedeSound, FreshRow, RowStages
<1>6. CASE UNCHANGED row /\ {p0, r} \subseteq excused'
  <2>1. RowsStay
    BY <1>6 DEF RowsStay
  <2>2. RowsSound'
    BY <1>3, <1>6 DEF RowsSound, RowSound
  <2>3. ASSUME NEW p \in Rows, NEW q \in Rows
        PROVE  Linked(p, q)'
    <3>1. CASE p = p0 /\ q = r
      BY <1>6, <3>1 DEF Linked
    <3>2. CASE ~(p = p0 /\ q = r)
      <4>1. \A b \in Calls : Superseding(call[b], p, q) => Superseding(call'[b], p, q)
        BY <1>4, <3>2 DEF Superseding, Others
      <4> QED BY <1>4, <1>6, <4>1, LinkedStays DEF RowInv
    <3> QED BY <3>1, <3>2
  <2> QED BY <1>3, <1>5, <2>1, <2>2, <2>3, OwnDecision DEF RowInv
<1>7. CASE row' = [row EXCEPT ![p0] = s.new]
  <2>1. row'[p0] = s.new /\ row'[p0] # None /\ \A x \in Rows \ {p0} : row'[x] = row[x]
    BY <1>1, <1>2, <1>7, NoneIsNoFile DEF Typed, DiskTypes
  <2>2. RowsStay /\ row[p0] # None /\ row[r] # None
    BY <1>1, <1>2, <1>3, <2>1 DEF RowsStay, SupersedeSound, RowStages
  <2>3. s.new.status = "superseded" /\ s.new.by = r /\ s.new.supersedes # p0
        /\ (s.new.supersedes # None => s.new.supersedes \in Rows /\ row[s.new.supersedes] # None)
    BY <1>1, <1>2, <1>3 DEF SupersedeSound, RowStages, DecisionRows
  <2>4. RowsSound'
    <3>1. ASSUME NEW x \in Rows, row'[x] # None
          PROVE  RowSound(row[x])' /\ row'[x].supersedes # x
      <4>1. CASE x = p0
        BY <1>2, <2>1, <2>2, <2>3, <4>1, NoneIsNoFile DEF RowSound, RowsStay
      <4>2. CASE x # p0
        BY <1>1, <1>3, <2>1, <2>2, <3>1, <4>2, SoundStays
      <4> QED BY <4>1, <4>2
    <3> QED BY <3>1 DEF RowsSound
  <2>5. p0 \notin excused =>
          /\ row[p0].status = "active" /\ row[p0].by = None
          /\ row'[p0].supersedes = row[p0].supersedes
    <3>1. row[p0] \in DecisionRows /\ RowSound(row[p0])
      BY <1>1, <1>2, <1>3, <2>2, RowValue DEF RowsSound
    <3>2. p0 \notin excused =>
            row[p0].status = "active" /\ s.new = [row[p0] EXCEPT !.status = "superseded", !.by = r]
      BY <1>1, <1>2, <1>3 DEF FreshRow, RowStages
    <3> QED BY <2>1, <3>1, <3>2 DEF RowSound, DecisionRows
  <2>6. ASSUME NEW p \in Rows, NEW q \in Rows
        PROVE  Linked(p, q)'
    <3>1. SUFFICES ASSUME p \notin excused', q \notin excused', row'[p] # None, row'[q] # None
                   PROVE  \/ row'[q].supersedes = p <=> row'[p].by = q
                          \/ \E b \in Calls : Superseding(call'[b], p, q)
      BY DEF Linked
    <3>2. p \notin excused /\ q \notin excused /\ Linked(p, q)
      BY <1>4, <3>1 DEF RowInv
    <3>3. CASE p = p0 /\ q = r
      <4>1. row'[r] = row[r] /\ row[r] = ActiveRow(p0)
        BY <1>1, <1>2, <1>3, <2>1, <3>2, <3>3 DEF FreshRow
      <4> QED BY <2>1, <2>3, <3>3, <4>1 DEF ActiveRow
    <3>4. CASE p = p0 /\ q = p0
      BY <1>2, <2>1, <2>3, <3>4
    <3>5. CASE p = p0 /\ q # r /\ q # p0
      <4>1. row'[q] = row[q] /\ row[q] # None /\ row'[p].by = r /\ row[p].by # q
        BY <2>1, <2>3, <2>5, <3>1, <3>2, <3>5, NoneIsNoFile
      <4>2. ASSUME NEW b \in Calls, Superseding(call[b], p, q)
            PROVE  FALSE
        <5>1. call[b].at = "put_prior" /\ call[b].prior = p0 /\ call[b].successor = q /\ b # c
          BY <3>5, <4>2 DEF Superseding
        <5>2. Subject(call[b]) = {p0, q} \ {None}
          BY <1>1, <5>1, RowCalls DEF RowStages
        <5> QED BY <1>2, <3>2, <3>5, <5>1, <5>2 DEF RowInv, Base, Exclusive
      <4>3. row[q].supersedes # p
        BY <2>2, <3>2, <3>5, <4>1, <4>2 DEF Linked
      <4> QED BY <3>5, <4>1, <4>3
    <3>6. CASE p # p0
      <4>1. row'[p] = row[p] /\ row'[q].supersedes = row[q].supersedes /\ row[q] # None
        BY <2>1, <2>2, <2>5, <3>1, <3>2, <3>6
      <4>2. \A b \in Calls : Superseding(call[b], p, q) => Superseding(call'[b], p, q)
        BY <1>4, <3>6 DEF Superseding, Others
      <4> QED BY <3>1, <3>2, <4>1, <4>2 DEF Linked
    <3> QED BY <3>3, <3>4, <3>5, <3>6
  <2> QED BY <1>3, <1>5, <2>2, <2>4, <2>6, OwnDecision DEF RowInv
<1> QED BY <1>1, <1>6, <1>7

LEMMA InitRowInv == Init => RowInv
<1> SUFFICES ASSUME Init PROVE RowInv
  OBVIOUS
<1>1. Base
  BY InitBase
<1>2. \A c \in Calls : call[c] = Idle
  BY DEF Init
<1>3. \A r \in Rows : row[r] = None
  BY DEF Init
<1> QED BY <1>1, <1>2, <1>3, IdleCall DEF RowInv, RowsSound, SupersedeSound, FreshRow, Linked, RowStages

LEMMA NextRowInv == RowInv /\ [Next]_vars => RowInv'
<1> SUFFICES ASSUME RowInv, [Next]_vars PROVE RowInv'
  OBVIOUS
<1>1. Base' /\ Typed /\ Typed'
  BY NextBase DEF RowInv, Base
<1>2. ASSUME NEW c \in Calls, NodeAction(c) \/ EdgeAction(c) \/ RunAction(c)
      PROVE  RowInv'
  BY <1>1, <1>2, OthersElsewhere, ElsewhereRowInv
<1>3. ASSUME NEW c \in Calls, RowAction(c)
      PROVE  RowInv'
  BY <1>3, WriteDecisionRowInv, SupersedeDecisionRowInv, PutSuccessorRowInv, PutPriorRowInv DEF RowAction
<1> QED BY <1>1, <1>2, <1>3, NextSplits, RestsRowInv, ExitsRowInv

(* ChainAlwaysHolds: a superseded row names a successor whose file exists, and  *)
(* settled rows point at each other one to one (schematify.rs, the supersede    *)
(* handler's two writes), in every run, with every call allowed in it.          *)
THEOREM ChainAlwaysHolds == Spec => []ChainHolds
<1>1. RowInv => ChainHolds
  <2> SUFFICES ASSUME RowInv, NEW p \in Rows, row[p] # None
               PROVE  /\ row[p].status = "superseded" => row[p].by \in Rows /\ row[row[p].by] # None
                      /\ \A s \in Rows : Settled(p) /\ Settled(s) /\ row[s] # None =>
                            (row[s].supersedes = p <=> row[p].by = s)
    BY DEF ChainHolds
  <2>1. RowSound(row[p]) /\ row[p].by \in Rows \cup {None}
    BY RowValue DEF RowInv, RowsSound, Base
  <2>2. ASSUME NEW s \in Rows, Settled(p), Settled(s), row[s] # None
        PROVE  row[s].supersedes = p <=> row[p].by = s
    <3>1. Linked(p, s)
      BY DEF RowInv
    <3>2. ASSUME NEW c \in Calls, Superseding(call[c], p, s)
          PROVE  FALSE
      <4>1. p \in Subject(call[c])
        BY <3>2, RowCalls, NoneIsNoFile DEF Superseding, RowStages, RowInv, Base
      <4> QED BY <2>2, <4>1 DEF Settled, InFlight
    <3> QED BY <2>2, <3>1, <3>2 DEF Linked, Settled
  <2> QED BY <2>1, <2>2 DEF RowSound
<1> QED BY <1>1, InitRowInv, NextRowInv, PTL DEF Spec

-----------------------------------------------------------------------------
(* Moves write what they have read                                              *)

(* What a move has read of its node is what stands there. *)
FreshMove(s) ==
    s.at \in MoveStages /\ s.d \notin excused =>
        /\ s.at \in {"read_audit", "put_node"} => s.before = node[s.d]
        /\ s.at \in {"put_node", "put_audit", "roll_back"} => s.rows = audit[s.d]
        /\ s.at \in {"put_audit", "roll_back"} => node[s.d] = After(s.before, s.to)

MoveInv == Base /\ \A c \in Calls : FreshMove(call[c])

LEMMA OtherMoves ==
  ASSUME Base, NEW c \in Calls, Steps(c), NEW b \in Calls \ {c}, FreshMove(call[b])
  PROVE  FreshMove(call[b])'
<1>1. excused \subseteq excused' /\ call'[b] = call[b]
  BY StepsBase DEF Steps, Others
<1>. PICK s : s = call[b] /\ s = call'[b] /\ FreshMove(s)
  BY <1>1
<1>2. ASSUME s.at \in MoveStages, s.d \notin excused'
      PROVE  node'[s.d] = node[s.d] /\ audit'[s.d] = audit[s.d]
  <2>1. s.d \in Nodes /\ s.d \in Subject(call[b])
    BY <1>2, MovingCalls DEF Base
  <2>2. Same(s.d)
    BY <1>2, <2>1, Undisturbed
  <2> QED BY <2>1, <2>2 DEF Same
<1>3. FreshMove(s)'
  BY <1>1, <1>2 DEF FreshMove, After
<1> QED BY <1>3

(* What the moving steps of a call leave it with. *)
LEMMA OwnMove ==
  ASSUME MoveInv, NEW c \in Calls, NodeAction(c)
  PROVE  FreshMove(call[c])'
<1>1. Typed /\ NodeStep(c) /\ FreshMove(call[c]) /\ call \in [Calls -> CallType]
  BY NodeActionSteps DEF MoveInv, Base, Typed, CallTypes
<1>2. excused \subseteq excused' /\ Steps(c)
  BY <1>1, StepsBase DEF NodeStep, MoveInv
<1>3. CASE call'[c].at \notin MoveStages
  BY <1>3 DEF FreshMove
<1>4. ASSUME NEW n \in Moved, NEW to \in Lifecycles, NEW actor \in {"human", "agent"},
             Transition(c, n, to, actor)
      PROVE  FreshMove(call[c])'
  <2>1. CASE call' = call
    <3>1. call'[c].at = "idle"
      BY <1>4, <2>1 DEF Transition, Ready
    <3> QED BY <1>3, <3>1
  <2>2. CASE call' # call
    <3> DEFINE s == [op |-> "transition", at |-> "read_audit", n |-> n, d |-> n, to |-> to,
                     actor |-> actor, before |-> node[n], rows |-> <<>>, left |-> {},
                     contracts |-> [k \in Contracted |-> node[k].contract]]
    <3>1. Begin(c, {}, s) /\ node' = node
      BY <1>4, <2>2 DEF Transition, Refuse, disk
    <3>2. call'[c] = s
      BY <1>1, <3>1 DEF Begin
    <3>3. call'[c].at = "read_audit" /\ call'[c].d = n /\ call'[c].before = node[n]
      BY <3>2
    <3> QED BY <3>1, <3>3 DEF FreshMove
  <2> QED BY <2>1, <2>2
<1>5. ASSUME NEW n \in Nodes, NEW contract \in 0 .. MaxContract, WriteNode(c, n, contract)
      PROVE  FreshMove(call[c])'
  <2>1. call'[c].at = "put_edit"
    BY <1>1, <1>5 DEF WriteNode, Begin
  <2> QED BY <1>3, <2>1
<1>6. ASSUME NEW d \in Dependents, Drop(c, d)
      PROVE  FreshMove(call[c])'
  <2>1. node' = node /\ call[c] \in WriteNodeCall /\ (call'[c] = Idle \/ call'[c] = Dropped(call[c], d))
    BY <1>1, <1>6, DropIsNodeStep DEF disk
  <2>2. Dropped(call[c], d).at = "read_audit" /\ Dropped(call[c], d).d = d
        /\ Dropped(call[c], d).before = node[d]
    BY <2>1 DEF Dropped, WriteNodeCall
  <2> QED BY <1>3, <2>1, <2>2, IdleCall DEF FreshMove
<1>7. ASSUME ReadAudit(c)
      PROVE  FreshMove(call[c])'
  <2>1. UNCHANGED <<node, audit>> /\ call[c].at = "read_audit" /\ Moves(call[c])
        /\ call'[c] = [call[c] EXCEPT !.at = "put_node", !.rows = audit[call[c].d]]
    BY <1>1, <1>7, ReadAuditIsNodeStep, MovingCalls DEF ReadAudit, disk
  <2>2. call'[c].at = "put_node" /\ call'[c].d = call[c].d /\ call'[c].before = call[c].before
        /\ call'[c].rows = audit[call[c].d]
    BY <2>1 DEF Moves, TransitionCall, WriteNodeCall
  <2> QED BY <1>1, <1>2, <2>1, <2>2 DEF FreshMove
<1>8. ASSUME PutNode(c)
      PROVE  FreshMove(call[c])'
  <2>1. call[c].at = "put_node" /\ Moves(call[c]) /\ call[c].d \in Nodes
    BY <1>1, <1>8, MovingCalls DEF PutNode
  <2>2. CASE call'[c] = [call[c] EXCEPT !.at = "put_audit"]
             /\ node' = [node EXCEPT ![call[c].d] = After(call[c].before, call[c].to)] /\ audit' = audit
    <3>1. call'[c].at = "put_audit" /\ call'[c].d = call[c].d /\ call'[c].before = call[c].before
          /\ call'[c].rows = call[c].rows /\ call'[c].to = call[c].to
      BY <2>1, <2>2 DEF Moves, TransitionCall, WriteNodeCall
    <3>2. node'[call[c].d] = After(call[c].before, call[c].to)
      BY <1>1, <2>1, <2>2 DEF Typed, DiskTypes
    <3> QED BY <1>1, <1>2, <2>1, <2>2, <3>1, <3>2 DEF FreshMove, After
  <2>3. CASE call'[c] = Idle
    BY <1>3, <2>3, IdleCall
  <2> QED BY <1>1, <1>8, <2>2, <2>3 DEF PutNode, Goto, Return
<1>9. ASSUME PutAudit(c)
      PROVE  FreshMove(call[c])'
  <2>1. call[c].at = "put_audit" /\ Moves(call[c])
    BY <1>1, <1>9, MovingCalls DEF PutAudit
  <2>2. CASE call'[c] = [call[c] EXCEPT !.at = "roll_back"] /\ UNCHANGED <<node, audit>>
    <3>1. call'[c].at = "roll_back" /\ call'[c].d = call[c].d /\ call'[c].before = call[c].before
          /\ call'[c].rows = call[c].rows /\ call'[c].to = call[c].to
      BY <2>1, <2>2 DEF Moves, TransitionCall, WriteNodeCall
    <3> QED BY <1>1, <1>2, <2>1, <2>2, <3>1 DEF FreshMove, After
  <2>3. CASE call'[c] = Idle \/ call'[c] = [call[c] EXCEPT !.at = "drop"]
    <3>1. [call[c] EXCEPT !.at = "drop"].at = "drop"
      BY <2>1 DEF Moves, TransitionCall, WriteNodeCall
    <3> QED BY <1>3, <2>3, <3>1, IdleCall
  <2> QED BY <1>1, <1>9, <2>2, <2>3 DEF PutAudit, Goto, Return, Fault, disk
<1>10. ASSUME RollBack(c)
       PROVE  FreshMove(call[c])'
  BY <1>1, <1>3, <1>10, RollBackIsNodeStep, IdleCall
<1>11. ASSUME PutEdit(c)
       PROVE  FreshMove(call[c])'
  <2>1. call[c] \in WriteNodeCall
    BY <1>1, <1>11, Shapes DEF PutEdit, Typed
  <2>2. [call[c] EXCEPT !.at = "drop"].at = "drop"
    BY <2>1 DEF WriteNodeCall
  <2>3. call'[c] = Idle \/ call'[c] = [call[c] EXCEPT !.at = "drop"]
    BY <1>1, <1>11 DEF PutEdit, Goto, Return
  <2> QED BY <1>3, <2>2, <2>3, IdleCall
<1> QED BY <1>4, <1>5, <1>6, <1>7, <1>8, <1>9, <1>10, <1>11 DEF NodeAction

LEMMA NextMoveInv == MoveInv /\ [Next]_vars => MoveInv'
<1> SUFFICES ASSUME MoveInv, [Next]_vars PROVE MoveInv'
  OBVIOUS
<1>1. Base' /\ Base /\ Typed
  BY NextBase DEF MoveInv, Base
<1>2. CASE Rests
  <2>1. UNCHANGED <<node, audit, call, excused>>
    BY <1>2 DEF Rests, disk
  <2>2. \A c \in Calls : FreshMove(call[c])'
    BY <2>1 DEF MoveInv, FreshMove, After
  <2> QED BY <1>1, <2>2 DEF MoveInv
<1>3. CASE Exits
  <2>1. \A c \in Calls : call'[c].at = "idle"
    BY <1>3, IdleCall DEF Exits
  <2> QED BY <1>1, <2>1 DEF MoveInv, FreshMove
<1>4. ASSUME NEW c \in Calls, Steps(c), FreshMove(call[c])'
      PROVE  MoveInv'
  <2>1. \A b \in Calls \ {c} : FreshMove(call[b])'
    BY <1>4, OtherMoves DEF MoveInv
  <2> QED BY <1>1, <1>4, <2>1 DEF MoveInv
<1>5. ASSUME NEW c \in Calls, NodeAction(c)
      PROVE  MoveInv'
  BY <1>1, <1>4, <1>5, OwnMove, NodeActionSteps DEF NodeStep
<1>6. ASSUME NEW c \in Calls, EdgeAction(c) \/ RowAction(c) \/ RunAction(c)
      PROVE  MoveInv'
  <2>1. Steps(c) /\ call'[c].at \notin MoveStages
    BY <1>1, <1>6, EdgeActionSteps, RowActionSteps, RunActionSteps
       DEF EdgeStep, RowStep, RunStep, Within, EdgeStages, RowStages
  <2>2. FreshMove(call[c])'
    BY <2>1 DEF FreshMove
  <2> QED BY <1>4, <2>1, <2>2
<1> QED BY <1>1, <1>2, <1>3, <1>5, <1>6, NextSplits

LEMMA InitMoveInv == Init => MoveInv
<1> SUFFICES ASSUME Init PROVE MoveInv
  OBVIOUS
<1>1. \A c \in Calls : call[c].at = "idle"
  BY IdleCall DEF Init
<1> QED BY <1>1, InitBase DEF MoveInv, FreshMove

-----------------------------------------------------------------------------
(* What is written stays                                                        *)

FreshRun(s) == s.at = "put_run" /\ s.r \notin excused => run[s.r] = None

RunInv == Base /\ \A c \in Calls : FreshRun(call[c])

LEMMA IngestCalls ==
  ASSUME Typed, NEW c \in Calls, call[c].at = "put_run"
  PROVE  call[c].r \in Runs /\ call[c].r \in Subject(call[c])
BY Shapes, Subjects DEF Typed, IngestCall

LEMMA NextRunInv == RunInv /\ [Next]_vars => RunInv'
<1> SUFFICES ASSUME RunInv, [Next]_vars PROVE RunInv'
  OBVIOUS
<1>1. Base' /\ Base /\ Typed /\ excused \subseteq excused'
  BY NextBase DEF RunInv, Base
<1>2. CASE Rests
  BY <1>1, <1>2 DEF Rests, disk, RunInv, FreshRun
<1>3. CASE Exits
  <2>1. \A c \in Calls : call'[c].at = "idle"
    BY <1>3, IdleCall DEF Exits
  <2> QED BY <1>1, <2>1 DEF RunInv, FreshRun
<1>4. ASSUME NEW c \in Calls, Steps(c), FreshRun(call[c])'
      PROVE  RunInv'
  <2>1. ASSUME NEW b \in Calls \ {c}
        PROVE  FreshRun(call[b])'
    <3>1. call'[b] = call[b] /\ FreshRun(call[b])
      BY <1>4 DEF Steps, Others, RunInv
    <3>2. ASSUME call[b].at = "put_run", call[b].r \notin excused'
          PROVE  run'[call[b].r] = run[call[b].r]
      <4>1. call[b].r \in Runs /\ call[b].r \in Subject(call[b])
        BY <1>1, <3>2, IngestCalls
      <4>2. Same(call[b].r)
        BY <1>1, <1>4, <3>2, <4>1, Undisturbed
      <4> QED BY <4>1, <4>2 DEF Same
    <3> QED BY <1>1, <3>1, <3>2 DEF FreshRun
  <2> QED BY <1>1, <1>4, <2>1 DEF RunInv
<1>5. ASSUME NEW c \in Calls, NodeAction(c) \/ EdgeAction(c) \/ RowAction(c)
      PROVE  RunInv'
  <2>1. Steps(c) /\ call'[c].at # "put_run"
    BY <1>1, <1>5, EdgeActionSteps, RowActionSteps, NodeActionSteps
       DEF EdgeStep, RowStep, NodeStep, Within, EdgeStages, RowStages, NodeStages
  <2> QED BY <1>4, <2>1 DEF FreshRun
<1>6. ASSUME NEW c \in Calls, NEW r \in Runs, NEW artifact \in Artifacts, IngestRun(c, r, artifact)
      PROVE  RunInv'
  <2>1. RunStep(c) /\ UNCHANGED run
        /\ (call' = call \/ (run[r] = None /\ call'[c].at = "put_run" /\ call'[c].r = r))
    BY <1>1, <1>6, IngestRunIsRunStep
  <2>2. call[c].at = "idle"
    BY <1>6 DEF IngestRun, Ready
  <2> QED BY <1>4, <2>1, <2>2 DEF FreshRun, RunStep
<1>7. ASSUME NEW c \in Calls, PutRun(c)
      PROVE  RunInv'
  <2>1. RunStep(c) /\ call'[c].at = "idle"
    BY <1>1, <1>7, PutRunIsRunStep, IdleCall
  <2> QED BY <1>4, <2>1 DEF FreshRun, RunStep
<1> QED BY <1>1, <1>2, <1>3, <1>5, <1>6, <1>7, NextSplits DEF RunAction

LEMMA InitRunInv == Init => RunInv
<1> SUFFICES ASSUME Init PROVE RunInv
  OBVIOUS
<1>1. \A c \in Calls : call[c].at = "idle"
  BY IdleCall DEF Init
<1> QED BY <1>1, InitBase DEF RunInv, FreshRun

LEMMA PrefixOfSelf ==
  ASSUME NEW S, NEW s \in Seq(S)
  PROVE  IsPrefix(s, s)
BY DEF IsPrefix

LEMMA PrefixOfAppend ==
  ASSUME NEW S, NEW s \in Seq(S), NEW e \in S
  PROVE  IsPrefix(s, Append(s, e))
<1>1. Append(s, e) \in Seq(S) /\ Len(Append(s, e)) = Len(s) + 1
      /\ \A i \in 1 .. Len(s) : Append(s, e)[i] = s[i]
  OBVIOUS
<1>2. SubSeq(s, 1, Len(s)) = SubSeq(Append(s, e), 1, Len(s))
  BY <1>1
<1> QED BY <1>1, <1>2 DEF IsPrefix

(* The only step that writes an audit appends to the rows that stand. *)
LEMMA AuditGrows ==
  ASSUME MoveInv, [Next]_vars, NEW n \in Nodes, n \notin excused'
  PROVE  IsPrefix(audit[n], audit'[n])
<1>1. Base /\ Typed /\ excused \subseteq excused' /\ audit[n] \in Seq(AuditType)
  BY NextBase DEF MoveInv, Base, Typed, DiskTypes
<1>2. CASE audit'[n] = audit[n]
  BY <1>1, <1>2, PrefixOfSelf
<1>3. ASSUME NEW c \in Calls, NodeAction(c), ~PutAudit(c)
      PROVE  audit' = audit
  <2>1. ASSUME \E m \in Moved, to \in Lifecycles, actor \in {"human", "agent"} : Transition(c, m, to, actor)
        PROVE  audit' = audit
    BY <2>1 DEF Transition, Refuse, disk
  <2>2. ASSUME \E m \in Nodes, contract \in 0 .. MaxContract : WriteNode(c, m, contract)
        PROVE  audit' = audit
    BY <2>2 DEF WriteNode, disk
  <2>3. ASSUME \E d \in Dependents : Drop(c, d)
        PROVE  audit' = audit
    BY <2>3 DEF Drop, disk
  <2>4. ASSUME ReadAudit(c) \/ PutNode(c) \/ RollBack(c) \/ PutEdit(c)
        PROVE  audit' = audit
    BY <2>4 DEF ReadAudit, PutNode, RollBack, PutEdit, Fault, disk
  <2> QED BY <1>3, <2>1, <2>2, <2>3, <2>4 DEF NodeAction
<1>4. ASSUME NEW c \in Calls, PutAudit(c)
      PROVE  IsPrefix(audit[n], audit'[n])
  <2>1. call[c].at = "put_audit" /\ call[c].d \in Nodes /\ AuditRow(call[c]) \in AuditType /\ FreshMove(call[c])
    BY <1>1, <1>4, MovingCalls DEF PutAudit, MoveInv
  <2>2. audit' = audit \/ audit' = [audit EXCEPT ![call[c].d] = Append(call[c].rows, AuditRow(call[c]))]
    BY <1>4 DEF PutAudit, Fault, disk
  <2>3. CASE audit' = [audit EXCEPT ![call[c].d] = Append(call[c].rows, AuditRow(call[c]))] /\ n = call[c].d
    <3>1. call[c].rows = audit[n]
      BY <1>1, <2>1, <2>3 DEF FreshMove
    <3>2. audit'[n] = Append(audit[n], AuditRow(call[c]))
      BY <1>1, <2>3, <3>1 DEF Typed, DiskTypes
    <3> QED BY <1>1, <2>1, <3>2, PrefixOfAppend
  <2>4. CASE ~(audit' = [audit EXCEPT ![call[c].d] = Append(call[c].rows, AuditRow(call[c]))] /\ n = call[c].d)
    <3>1. audit'[n] = audit[n]
      BY <1>1, <2>2, <2>4 DEF Typed, DiskTypes
    <3> QED BY <1>2, <3>1
  <2> QED BY <2>3, <2>4
<1>5. ASSUME NEW c \in Calls, EdgeAction(c) \/ RowAction(c) \/ RunAction(c)
      PROVE  audit' = audit
  BY <1>1, <1>5, EdgeActionSteps, RowActionSteps, RunActionSteps DEF EdgeStep, RowStep, RunStep
<1>6. Rests \/ Exits => audit' = audit
  BY DEF Rests, Exits, disk
<1> QED BY <1>1, <1>2, <1>3, <1>4, <1>5, <1>6, NextSplits

(* A row is written once, and once more when it is superseded. *)
LEMMA RowGrows ==
  ASSUME RowInv, [Next]_vars, NEW r \in Rows, r \notin excused', row[r] # None
  PROVE  \/ row'[r] = row[r]
         \/ row[r].status = "active" /\ row'[r].status = "superseded"
            /\ row'[r].supersedes = row[r].supersedes
<1>1. Base /\ Typed /\ excused \subseteq excused'
  BY NextBase DEF RowInv, Base
<1>2. ASSUME NEW c \in Calls, PutSuccessor(c)
      PROVE  row'[r] = row[r]
  <2>1. call[c].successor \in Rows /\ (call[c].successor \notin excused => row[call[c].successor] = None)
    BY <1>1, <1>2, RowCalls DEF PutSuccessor, RowInv, FreshRow, RowStages
  <2>2. row' = row \/ row' = [row EXCEPT ![call[c].successor] = ActiveRow(call[c].prior)]
    BY <1>1, <1>2, PutSuccessorIsRowStep
  <2>3. call[c].successor # r
    BY <1>1, <2>1
  <2> QED BY <1>1, <2>2, <2>3 DEF Typed, DiskTypes
<1>3. ASSUME NEW c \in Calls, PutPrior(c)
      PROVE  \/ row'[r] = row[r]
             \/ row[r].status = "active" /\ row'[r].status = "superseded"
                /\ row'[r].supersedes = row[r].supersedes
  <2>1. call[c].prior \in Rows /\ call[c].prior # None
    BY <1>1, <1>3, RowCalls, NoneIsNoFile DEF PutPrior, RowStages, SupersedeCall
  <2>2. call[c].prior \notin excused =>
          /\ row[call[c].prior].status = "active"
          /\ call[c].new = [row[call[c].prior] EXCEPT !.status = "superseded", !.by = call[c].successor]
    BY <1>3, <2>1 DEF PutPrior, RowInv, FreshRow, RowStages
  <2>3. row' = row \/ row' = [row EXCEPT ![call[c].prior] = call[c].new]
    BY <1>1, <1>3, PutPriorIsRowStep
  <2>4. CASE r = call[c].prior /\ row' = [row EXCEPT ![call[c].prior] = call[c].new]
    <3>1. row[r].status = "active" /\ row[r] \in DecisionRows
          /\ call[c].new = [row[r] EXCEPT !.status = "superseded", !.by = call[c].successor]
      BY <1>1, <2>2, <2>4, RowValue
    <3>2. row'[r] = call[c].new
      BY <1>1, <2>4 DEF Typed, DiskTypes
    <3> QED BY <3>1, <3>2 DEF DecisionRows
  <2>5. CASE ~(r = call[c].prior /\ row' = [row EXCEPT ![call[c].prior] = call[c].new])
    BY <1>1, <2>3, <2>5 DEF Typed, DiskTypes
  <2> QED BY <2>4, <2>5
<1>4. ASSUME NEW c \in Calls, RowAction(c), ~PutSuccessor(c), ~PutPrior(c)
      PROVE  row' = row
  BY <1>1, <1>4, WriteDecisionIsRowStep, SupersedeDecisionIsRowStep DEF RowAction
<1>5. ASSUME NEW c \in Calls, NodeAction(c) \/ EdgeAction(c) \/ RunAction(c)
      PROVE  row' = row
  BY <1>1, <1>5, OthersElsewhere DEF Elsewhere
<1>6. Rests \/ Exits => row' = row
  BY DEF Rests, Exits, disk
<1> QED BY <1>1, <1>2, <1>3, <1>4, <1>5, <1>6, NextSplits

(* A run that has been ingested is not written again. *)
LEMMA RunsStand ==
  ASSUME RunInv, [Next]_vars, NEW r \in Runs, r \notin excused', run[r] # None
  PROVE  run'[r] = run[r]
<1>1. Base /\ Typed /\ excused \subseteq excused'
  BY NextBase DEF RunInv, Base
<1>2. ASSUME NEW c \in Calls, PutRun(c)
      PROVE  run'[r] = run[r]
  <2>1. call[c].r # r
    BY <1>1, <1>2 DEF PutRun, RunInv, FreshRun
  <2> QED BY <1>1, <1>2, <2>1, PutRunIsRunStep
<1>3. ASSUME NEW c \in Calls, RunAction(c), ~PutRun(c)
      PROVE  run' = run
  BY <1>1, <1>3, IngestRunIsRunStep DEF RunAction
<1>4. ASSUME NEW c \in Calls, NodeAction(c) \/ EdgeAction(c) \/ RowAction(c)
      PROVE  run' = run
  BY <1>1, <1>4, NodeActionSteps, EdgeActionSteps, RowActionSteps DEF NodeStep, EdgeStep, RowStep
<1>5. Rests \/ Exits => run' = run
  BY DEF Rests, Exits, disk
<1> QED BY <1>1, <1>2, <1>3, <1>4, <1>5, NextSplits

(* NothingRewritten: an audit only grows, a decision row only goes from active  *)
(* to superseded and keeps what it superseded, and an ingested run stands, of   *)
(* every file no overlap, failed write or exit has excused.                     *)
THEOREM NothingRewritten == Spec => AppendOnly
<1>1. Init => MoveInv /\ RowInv /\ RunInv
  BY InitMoveInv, InitRowInv, InitRunInv
<1>2. MoveInv /\ RowInv /\ RunInv /\ [Next]_vars => MoveInv' /\ RowInv' /\ RunInv'
  BY NextMoveInv, NextRowInv, NextRunInv
<1> DEFINE Grows ==
       /\ \A n \in Nodes : n \notin excused' => IsPrefix(audit[n], audit'[n])
       /\ \A r \in Rows : r \notin excused' /\ row[r] # None =>
             \/ row'[r] = row[r]
             \/ row[r].status = "active" /\ row'[r].status = "superseded"
                /\ row'[r].supersedes = row[r].supersedes
       /\ \A r \in Runs : r \notin excused' /\ run[r] # None => run'[r] = run[r]
<1>3. MoveInv /\ RowInv /\ RunInv /\ [Next]_vars => [Grows]_vars
  BY AuditGrows, RowGrows, RunsStand
<1>4. AppendOnly <=> [][Grows]_vars
  BY DEF AppendOnly
<1> QED BY <1>1, <1>2, <1>3, <1>4, PTL DEF Spec

-----------------------------------------------------------------------------
(* Edits and derived caches                                                     *)

(* An edit rewrites a node that only its own contract has left. *)
FreshEdit(s) ==
    s.at = "put_edit" /\ s.n \notin excused =>
        s.new = [node[s.n] EXCEPT !.contract = s.new.contract]

(* A cache about to be stored is derived from the edges that stand. *)
FreshRefs(s) ==
    s.at = "put_refs" /\ s.n \notin excused =>
        s.new = [node[s.n] EXCEPT !.refs = LiveEdge("references_ui", s.n)]

EditInv == MoveInv /\ \A c \in Calls : FreshEdit(call[c]) /\ FreshRefs(call[c])

LEMMA EditingCalls ==
  ASSUME Typed, NEW c \in Calls, call[c].at \in {"put_edit", "drop"}
  PROVE  /\ call[c] \in WriteNodeCall /\ call[c].n \in Nodes /\ call[c].n \in Subject(call[c])
         /\ call[c].new \in NodeType
         /\ call[c].n \in Contracted => Dependents \subseteq Subject(call[c])
<1>1. call[c] \in WriteNodeCall
  BY Shapes DEF Typed
<1> QED BY <1>1, Subjects DEF WriteNodeCall

LEMMA OtherEdits ==
  ASSUME Base, NEW c \in Calls, Steps(c), NEW b \in Calls \ {c}, FreshEdit(call[b]), FreshRefs(call[b])
  PROVE  FreshEdit(call[b])' /\ FreshRefs(call[b])'
<1>1. excused \subseteq excused' /\ call'[b] = call[b]
  BY StepsBase DEF Steps, Others
<1>. PICK s : s = call[b] /\ s = call'[b] /\ FreshEdit(s) /\ FreshRefs(s)
  BY <1>1
<1>2. ASSUME s.at = "put_edit", s.n \notin excused'
      PROVE  node'[s.n] = node[s.n]
  <2>1. s.n \in Nodes /\ s.n \in Subject(call[b])
    BY <1>2, EditingCalls DEF Base
  <2>2. Same(s.n)
    BY <1>2, <2>1, Undisturbed
  <2> QED BY <2>1, <2>2 DEF Same
<1>3. ASSUME s.at = "put_refs", s.n \notin excused'
      PROVE  node'[s.n] = node[s.n] /\ edge'[<<"references_ui", s.n>>] = edge[<<"references_ui", s.n>>]
  <2>1. s.n \in Nodes /\ s.n \in Dependents /\ s.n \in Subject(call[b])
    BY <1>3, EdgeCalls DEF Base, EdgeStages
  <2>2. Same(s.n)
    BY <1>3, <2>1, Undisturbed
  <2> QED BY <2>1, <2>2 DEF Same, EdgeKinds
<1>4. FreshEdit(s)'
  BY <1>1, <1>2 DEF FreshEdit
<1>5. FreshRefs(s)'
  BY <1>1, <1>3 DEF FreshRefs, LiveEdge
<1> QED BY <1>4, <1>5

LEMMA WriteNodeFresh ==
  ASSUME Base, NEW c \in Calls, NEW n \in Nodes, NEW contract \in 0 .. MaxContract,
         WriteNode(c, n, contract), n \notin excused'
  PROVE  /\ call'[c].at = "put_edit" /\ call'[c].n = n /\ node' = node
         /\ call'[c].new = [node[n] EXCEPT !.contract = call'[c].new.contract]
<1> DEFINE new == [view[n] EXCEPT !.contract = contract]
           before == [node |-> node, edge |-> edge]
           drops == IF ContractChanged(before, n, new) THEN StaleCascade(n, before) ELSE {}
           s == [op |-> "write-node", at |-> "put_edit", n |-> n, new |-> new, left |-> drops,
                 d |-> n, before |-> node[n], to |-> "stale", actor |-> "system", rows |-> <<>>,
                 contracts |-> <<>>]
<1>1. Begin(c, IF Undoes(n) THEN {n} ELSE {}, s) /\ node' = node /\ node[n] \in NodeType
  BY DEF WriteNode, Base, Typed, DiskTypes, disk
<1>2. call'[c] = s
  BY <1>1 DEF Begin, Base, Typed, CallTypes
<1>3. new = [node[n] EXCEPT !.contract = new.contract]
  <2>1. ~Undoes(n)
    BY <1>1 DEF Begin
  <2>2. view[n] = [node[n] EXCEPT !.contract = view[n].contract]
    BY <2>1 DEF Undoes
  <2> QED BY <1>1, <2>2 DEF NodeType
<1>4. call'[c].at = "put_edit" /\ call'[c].n = n /\ call'[c].new = new
  BY <1>2
<1> HIDE DEF new
<1> QED BY <1>1, <1>3, <1>4

LEMMA WriteNodeBegins ==
  ASSUME Base, NEW c \in Calls, NEW n \in Nodes, NEW contract \in 0 .. MaxContract,
         WriteNode(c, n, contract)
  PROVE  call'[c].at = "put_edit" /\ call'[c].n = n /\ node' = node
BY DEF WriteNode, Begin, Base, Typed, CallTypes, disk

LEMMA WriteNodeCascade ==
  ASSUME Base, NEW c \in Calls, NEW n \in Contracted, NEW contract \in 0 .. MaxContract, WriteNode(c, n, contract),
         node[n].contract # call'[c].new.contract
  PROVE  call'[c].left = StaleCascade(n, [node |-> node, edge |-> edge])
<1> DEFINE new == [view[n] EXCEPT !.contract = contract]
           before == [node |-> node, edge |-> edge]
           drops == IF ContractChanged(before, n, new) THEN StaleCascade(n, before) ELSE {}
           s == [op |-> "write-node", at |-> "put_edit", n |-> n, new |-> new, left |-> drops,
                 d |-> n, before |-> node[n], to |-> "stale", actor |-> "system", rows |-> <<>>,
                 contracts |-> <<>>]
<1>1. Begin(c, IF Undoes(n) THEN {n} ELSE {}, s)
  BY DEF WriteNode
<1>2. call'[c] = s
  BY <1>1 DEF Begin, Base, Typed, CallTypes
<1>3. call'[c].new = new /\ call'[c].left = drops
  BY <1>2
<1> HIDE DEF new
<1> QED BY <1>3 DEF ContractChanged

(* Only the call's beginning brings it to an edit. *)
LEMMA EditBegins ==
  ASSUME Typed, NEW c \in Calls, NodeAction(c),
         ~\E n \in Nodes, contract \in 0 .. MaxContract : WriteNode(c, n, contract)
  PROVE  call'[c].at # "put_edit"
<1>1. call \in [Calls -> CallType]
  BY DEF Typed, CallTypes
<1>2. ASSUME NEW n \in Moved, NEW to \in Lifecycles, NEW actor \in {"human", "agent"},
             Transition(c, n, to, actor)
      PROVE  call'[c].at # "put_edit"
  <2>1. CASE call' = call
    BY <1>2, <2>1 DEF Transition, Ready
  <2>2. CASE call' # call
    BY <1>1, <1>2, <2>2 DEF Transition, Begin, Refuse
  <2> QED BY <2>1, <2>2
<1>3. ASSUME NEW d \in Dependents, Drop(c, d)
      PROVE  call'[c].at # "put_edit"
  BY <1>3, DropIsNodeStep, IdleCall DEF Dropped, WriteNodeCall
<1>4. ASSUME call[c].at \in MoveStages, ReadAudit(c) \/ PutNode(c) \/ PutAudit(c) \/ RollBack(c)
      PROVE  call'[c].at # "put_edit"
  <2>1. Moves(call[c])
    BY <1>4, MovingCalls
  <2>2. \A at \in MoveStages \cup {"drop"} : [call[c] EXCEPT !.at = at].at = at
    BY <2>1 DEF Moves, TransitionCall, WriteNodeCall
  <2>3. [call[c] EXCEPT !.at = "put_node", !.rows = audit[call[c].d]].at = "put_node"
    BY <2>1 DEF Moves, TransitionCall, WriteNodeCall
  <2>4. \/ call'[c] = Idle
        \/ call'[c] = [call[c] EXCEPT !.at = "put_node", !.rows = audit[call[c].d]]
        \/ call'[c] = [call[c] EXCEPT !.at = "put_audit"]
        \/ call'[c] = [call[c] EXCEPT !.at = "roll_back"]
        \/ call'[c] = [call[c] EXCEPT !.at = "drop"]
    BY <1>1, <1>4 DEF ReadAudit, PutNode, PutAudit, RollBack, Goto, Return
  <2> QED BY <2>2, <2>3, <2>4, IdleCall
<1>5. ASSUME PutEdit(c)
      PROVE  call'[c].at # "put_edit"
  <2>1. call[c] \in WriteNodeCall
    BY <1>5, EditingCalls DEF PutEdit
  <2>2. [call[c] EXCEPT !.at = "drop"].at = "drop"
    BY <2>1 DEF WriteNodeCall
  <2>3. call'[c] = Idle \/ call'[c] = [call[c] EXCEPT !.at = "drop"]
    BY <1>1, <1>5 DEF PutEdit, Goto, Return
  <2> QED BY <2>2, <2>3, IdleCall
<1>6. ReadAudit(c) \/ PutNode(c) \/ PutAudit(c) \/ RollBack(c) => call[c].at \in MoveStages
  BY DEF ReadAudit, PutNode, PutAudit, RollBack
<1> QED BY <1>2, <1>3, <1>4, <1>5, <1>6 DEF NodeAction

LEMMA NextEditInv == EditInv /\ [Next]_vars => EditInv'
<1> SUFFICES ASSUME EditInv, [Next]_vars PROVE EditInv'
  OBVIOUS
<1>1. MoveInv' /\ Base /\ Typed
  BY NextMoveInv DEF EditInv, MoveInv, Base
<1>2. CASE Rests
  <2>1. UNCHANGED <<node, edge, call, excused>>
    BY <1>2 DEF Rests, disk
  <2>2. \A c \in Calls : FreshEdit(call[c])' /\ FreshRefs(call[c])'
    BY <2>1 DEF EditInv, FreshEdit, FreshRefs, LiveEdge
  <2> QED BY <1>1, <2>2 DEF EditInv
<1>3. CASE Exits
  <2>1. \A c \in Calls : call'[c].at = "idle"
    BY <1>3, IdleCall DEF Exits
  <2> QED BY <1>1, <2>1 DEF EditInv, FreshEdit, FreshRefs
<1>4. ASSUME NEW c \in Calls, Steps(c), FreshEdit(call[c])', FreshRefs(call[c])'
      PROVE  EditInv'
  <2>1. \A b \in Calls \ {c} : FreshEdit(call[b])' /\ FreshRefs(call[b])'
    BY <1>1, <1>4, OtherEdits DEF EditInv
  <2> QED BY <1>1, <1>4, <2>1 DEF EditInv
<1>5. ASSUME NEW c \in Calls, Steps(c), call'[c].at \notin {"put_edit", "put_refs"}
      PROVE  EditInv'
  BY <1>4, <1>5 DEF FreshEdit, FreshRefs
<1>6. ASSUME NEW c \in Calls, NEW n \in Nodes, NEW contract \in 0 .. MaxContract, WriteNode(c, n, contract)
      PROVE  EditInv'
  <2>1. Steps(c)
    BY <1>1, <1>6, WriteNodeIsNodeStep DEF NodeStep
  <2>2. ASSUME n \notin excused'
        PROVE  /\ call'[c].at = "put_edit" /\ call'[c].n = n /\ node' = node
               /\ call'[c].new = [node[n] EXCEPT !.contract = call'[c].new.contract]
    BY <1>1, <1>6, <2>2, WriteNodeFresh
  <2>4. call'[c].at = "put_edit" /\ call'[c].n = n
    BY <1>1, <1>6, WriteNodeBegins
  <2>3. FreshEdit(call[c])' /\ FreshRefs(call[c])'
    BY <2>2, <2>4 DEF FreshEdit, FreshRefs
  <2> QED BY <1>4, <2>1, <2>3
<1>7. ASSUME NEW c \in Calls, NodeAction(c), ~\E n \in Nodes, contract \in 0 .. MaxContract : WriteNode(c, n, contract)
      PROVE  EditInv'
  <2>1. NodeStep(c)
    BY <1>1, <1>7, NodeActionSteps
  <2>2. call'[c].at # "put_edit"
    BY <1>1, <1>7, EditBegins
  <2>3. call'[c].at # "put_refs" /\ Steps(c)
    BY <2>1 DEF NodeStep, Within, NodeStages
  <2> QED BY <1>5, <2>2, <2>3
<1>8. ASSUME NEW c \in Calls, Derive(c)
      PROVE  EditInv'
  <2>1. Steps(c) /\ UNCHANGED <<node, edge>>
        /\ \/ /\ call'[c].at = "put_refs" /\ call'[c].n = call[c].n
              /\ call'[c].new = [node[call[c].n] EXCEPT !.refs = LiveEdge("references_ui", call[c].n)]
           \/ call'[c] = Idle
    BY <1>1, <1>8, DeriveIsEdgeStep DEF EdgeStep, disk
  <2>2. FreshEdit(call[c])' /\ FreshRefs(call[c])'
    BY <2>1, IdleCall DEF FreshEdit, FreshRefs, LiveEdge
  <2> QED BY <1>4, <2>1, <2>2
<1>9. ASSUME NEW c \in Calls, EdgeAction(c), ~Derive(c)
      PROVE  EditInv'
  <2>1. EdgeStep(c) /\ call \in [Calls -> CallType]
    BY <1>1, <1>9, EdgeActionSteps DEF Typed, CallTypes
  <2>2. call'[c].at # "put_refs"
    <3>1. ASSUME PutEdge(c)
          PROVE  call'[c].at # "put_refs"
      <4>1. call[c] \in WriteEdgeCall
        BY <1>1, <3>1, EdgeCalls DEF PutEdge, EdgeStages
      <4>2. [call[c] EXCEPT !.at = "derive"].at = "derive"
        BY <4>1 DEF WriteEdgeCall
      <4>3. call'[c] = Idle \/ call'[c] = [call[c] EXCEPT !.at = "derive"]
        BY <2>1, <3>1 DEF PutEdge, Goto, Return
      <4> QED BY <4>2, <4>3, IdleCall
    <3>2. ASSUME \E k \in EdgeKinds, d \in Dependents, to \in {"live", "superseded"} : WriteEdge(c, k, d, to)
          PROVE  call'[c].at # "put_refs"
      BY <1>1, <3>2, WriteEdgeIsEdgeStep
    <3> QED BY <1>1, <1>9, <3>1, <3>2, PutRefsIsEdgeStep, IdleCall DEF EdgeAction
  <2>3. call'[c].at # "put_edit" /\ Steps(c)
    BY <2>1 DEF EdgeStep, Within, EdgeStages
  <2> QED BY <1>5, <2>2, <2>3
<1>10. ASSUME NEW c \in Calls, RowAction(c) \/ RunAction(c)
       PROVE  EditInv'
  <2>1. Steps(c) /\ call'[c].at \notin {"put_edit", "put_refs"}
    BY <1>1, <1>10, RowActionSteps, RunActionSteps DEF RowStep, RunStep, Within, RowStages
  <2> QED BY <1>5, <2>1
<1> QED BY <1>1, <1>2, <1>3, <1>6, <1>7, <1>8, <1>9, <1>10, NextSplits

LEMMA InitEditInv == Init => EditInv
<1> SUFFICES ASSUME Init PROVE EditInv
  OBVIOUS
<1>1. \A c \in Calls : call[c].at = "idle"
  BY IdleCall DEF Init
<1> QED BY <1>1, InitMoveInv DEF EditInv, FreshEdit, FreshRefs

(* How a step of call c may write node n. *)
Edited(c, n) ==
    /\ PutEdit(c) /\ n = call[c].n
    /\ node'[n] = [node[n] EXCEPT !.contract = call[c].new.contract]

Refreshed(c, n) ==
    /\ PutRefs(c) /\ n = call[c].n /\ n \in Dependents
    /\ node'[n] = [node[n] EXCEPT !.refs = LiveEdge("references_ui", n)]

MovedOn(c, n) ==
    /\ PutNode(c) /\ n = call[c].d /\ call[c].before = node[n] /\ call[c].rows = audit[n]
    /\ node'[n] = After(node[n], call[c].to)
    /\ call'[c] = [call[c] EXCEPT !.at = "put_audit"]
    /\ seen' = IF call[c].to = "accepted" /\ n \in Dependents
               THEN [seen EXCEPT ![n] = call[c].contracts] ELSE seen

PutBack(c, n) ==
    /\ RollBack(c) /\ n = call[c].d /\ call[c].rows = audit[n]
    /\ node'[n] = call[c].before /\ node[n] = After(call[c].before, call[c].to)

LEMMA NodeWrites ==
  ASSUME EditInv, NEW c \in Calls,
         NodeAction(c) \/ EdgeAction(c) \/ RowAction(c) \/ RunAction(c),
         NEW n \in Nodes, n \notin excused'
  PROVE  node'[n] = node[n] \/ Edited(c, n) \/ Refreshed(c, n) \/ MovedOn(c, n) \/ PutBack(c, n)
<1>1. Base /\ Typed /\ FreshMove(call[c]) /\ FreshEdit(call[c]) /\ FreshRefs(call[c]) /\ Steps(c)
      /\ node \in [Nodes -> NodeType]
  BY NodeActionSteps, EdgeActionSteps, RowActionSteps, RunActionSteps
     DEF EditInv, MoveInv, Base, NodeStep, EdgeStep, RowStep, RunStep, Typed, DiskTypes
<1>2. n \notin excused
  BY <1>1, StepsBase
<1>3. ASSUME PutEdit(c)
      PROVE  node'[n] = node[n] \/ Edited(c, n)
  <2>1. call[c].at = "put_edit" /\ (node' = node \/ node' = [node EXCEPT ![call[c].n] = call[c].new])
    BY <1>3 DEF PutEdit, Fault, disk
  <2>2. CASE node' = [node EXCEPT ![call[c].n] = call[c].new] /\ n = call[c].n
    <3>1. node'[n] = call[c].new
      BY <1>1, <2>2
    <3>2. call[c].new = [node[n] EXCEPT !.contract = call[c].new.contract]
      BY <1>1, <1>2, <2>1, <2>2 DEF FreshEdit
    <3> QED BY <1>3, <2>2, <3>1, <3>2 DEF Edited
  <2> QED BY <1>1, <2>1, <2>2
<1>4. ASSUME PutRefs(c)
      PROVE  node'[n] = node[n] \/ Refreshed(c, n)
  <2>1. call[c].at = "put_refs" /\ (node' = node \/ node' = [node EXCEPT ![call[c].n] = call[c].new])
        /\ call[c].n \in Dependents
    BY <1>1, <1>4, EdgeCalls DEF PutRefs, Fault, disk, EdgeStages
  <2>2. CASE node' = [node EXCEPT ![call[c].n] = call[c].new] /\ n = call[c].n
    <3>1. node'[n] = call[c].new
      BY <1>1, <2>2
    <3>2. call[c].new = [node[n] EXCEPT !.refs = LiveEdge("references_ui", n)]
      BY <1>1, <1>2, <2>1, <2>2 DEF FreshRefs
    <3> QED BY <1>4, <2>1, <2>2, <3>1, <3>2 DEF Refreshed
  <2> QED BY <1>1, <2>1, <2>2
<1>5. ASSUME PutNode(c)
      PROVE  node'[n] = node[n] \/ MovedOn(c, n)
  <2>1. CASE Fault
    BY <2>1 DEF Fault, disk
  <2>2. CASE /\ node' = [node EXCEPT ![call[c].d] = After(call[c].before, call[c].to)]
             /\ seen' = IF call[c].to = "accepted" /\ call[c].d \in Dependents
                        THEN [seen EXCEPT ![call[c].d] = call[c].contracts] ELSE seen
             /\ Goto(c, [call[c] EXCEPT !.at = "put_audit"])
    <3>1. CASE n = call[c].d
      <4>1. call[c].before = node[n] /\ call[c].rows = audit[n]
        BY <1>1, <1>2, <1>5, <3>1 DEF PutNode, FreshMove
      <4>2. node'[n] = After(node[n], call[c].to)
        BY <1>1, <2>2, <3>1, <4>1
      <4>3. call'[c] = [call[c] EXCEPT !.at = "put_audit"]
        BY <1>1, <2>2 DEF Goto, Typed, CallTypes
      <4> QED BY <1>5, <2>2, <3>1, <4>1, <4>2, <4>3 DEF MovedOn
    <3>2. CASE n # call[c].d
      BY <1>1, <2>2, <3>2
    <3> QED BY <3>1, <3>2
  <2> QED BY <1>5, <2>1, <2>2 DEF PutNode
<1>6. ASSUME RollBack(c)
      PROVE  node'[n] = node[n] \/ PutBack(c, n)
  <2>1. node' = node \/ node' = [node EXCEPT ![call[c].d] = call[c].before]
    BY <1>6 DEF RollBack, Fault, disk
  <2>2. CASE node' = [node EXCEPT ![call[c].d] = call[c].before] /\ n = call[c].d
    <3>1. call[c].rows = audit[n] /\ node[n] = After(call[c].before, call[c].to)
      BY <1>1, <1>2, <1>6, <2>2 DEF RollBack, FreshMove
    <3> QED BY <1>1, <1>6, <2>2, <3>1 DEF PutBack
  <2> QED BY <1>1, <2>1, <2>2
<1>7. ASSUME NodeAction(c), ~PutEdit(c), ~PutNode(c), ~RollBack(c)
      PROVE  node' = node
  <2>1. ASSUME \E m \in Moved, to \in Lifecycles, actor \in {"human", "agent"} : Transition(c, m, to, actor)
        PROVE  node' = node
    BY <2>1 DEF Transition, Refuse, disk
  <2>2. ASSUME \E m \in Nodes, contract \in 0 .. MaxContract : WriteNode(c, m, contract)
        PROVE  node' = node
    BY <2>2 DEF WriteNode, disk
  <2>3. ASSUME \E d \in Dependents : Drop(c, d)
        PROVE  node' = node
    BY <2>3 DEF Drop, disk
  <2>4. ASSUME ReadAudit(c) \/ PutAudit(c)
        PROVE  node' = node
    BY <2>4 DEF ReadAudit, PutAudit, Fault, disk
  <2> QED BY <1>7, <2>1, <2>2, <2>3, <2>4 DEF NodeAction
<1>8. ASSUME EdgeAction(c), ~PutRefs(c)
      PROVE  node' = node
  <2>1. ASSUME \E k \in EdgeKinds, d \in Dependents, to \in {"live", "superseded"} : WriteEdge(c, k, d, to)
        PROVE  node' = node
    BY <2>1 DEF WriteEdge, disk
  <2> QED BY <1>1, <1>8, <2>1, PutEdgeIsEdgeStep, DeriveIsEdgeStep DEF EdgeAction, disk
<1>9. RowAction(c) \/ RunAction(c) => node' = node
  BY <1>1, RowActionSteps, RunActionSteps DEF RowStep, RunStep
<1> QED BY <1>3, <1>4, <1>5, <1>6, <1>7, <1>8, <1>9

-----------------------------------------------------------------------------
(* The cache of what a module references                                        *)

(* A cache says what the edges say, or a call is deriving it again. *)
Deriving(s, d) == s.at \in {"derive", "put_refs"} /\ s.n = d

Cached(d) ==
    d \notin excused =>
        \/ node[d].refs = LiveEdge("references_ui", d)
        \/ \E c \in Calls : Deriving(call[c], d)

CacheInv == EditInv /\ \A d \in Dependents : Cached(d)

(* Only a call that derives a cache changes it. *)
LEMMA RefsKept ==
  ASSUME EditInv, NEW c \in Calls, NodeAction(c) \/ EdgeAction(c) \/ RowAction(c) \/ RunAction(c),
         ~PutRefs(c), NEW d \in Nodes, d \notin excused'
  PROVE  node'[d].refs = node[d].refs
<1>1. node[d] \in NodeType /\ Typed
  BY DEF EditInv, MoveInv, Base, Typed, DiskTypes
<1>2. CASE Edited(c, d)
  BY <1>1, <1>2 DEF Edited, NodeType
<1>3. CASE MovedOn(c, d)
  BY <1>1, <1>3 DEF MovedOn, NodeType, After
<1>4. CASE PutBack(c, d)
  <2>1. call[c].before \in NodeType
    BY <1>1, <1>4, MovingCalls DEF PutBack, RollBack
  <2> QED BY <1>4, <2>1 DEF PutBack, NodeType, After
<1> QED BY <1>2, <1>3, <1>4, NodeWrites DEF Refreshed

LEMMA CachedStays ==
  ASSUME NEW d \in Dependents, Cached(d), excused \subseteq excused',
         node'[d].refs = node[d].refs, edge'[<<"references_ui", d>>] = edge[<<"references_ui", d>>],
         \A b \in Calls : Deriving(call[b], d) => Deriving(call'[b], d)
  PROVE  Cached(d)'
BY DEF Cached, LiveEdge

LEMMA StepCached ==
  ASSUME CacheInv, NEW c \in Calls, NodeAction(c) \/ EdgeAction(c) \/ RowAction(c) \/ RunAction(c),
         NEW d \in Dependents
  PROVE  Cached(d)'
<1>1. Base /\ Typed /\ EditInv /\ Cached(d) /\ Steps(c)
  BY NodeActionSteps, EdgeActionSteps, RowActionSteps, RunActionSteps
     DEF CacheInv, EditInv, MoveInv, Base, NodeStep, EdgeStep, RowStep, RunStep
<1>2. excused \subseteq excused' /\ Others(c) /\ d \in Nodes
  BY <1>1, StepsBase DEF Steps, Nodes
<1>3. edge \in [EdgeKinds \X Dependents -> {None, "live", "superseded"}] /\ node \in [Nodes -> NodeType]
      /\ <<"references_ui", d>> \in EdgeKinds \X Dependents
  BY <1>1 DEF Typed, DiskTypes, EdgeKinds
<1> SUFFICES ASSUME d \notin excused' PROVE Cached(d)'
  BY DEF Cached
<1>4. ASSUME PutEdge(c)
      PROVE  Cached(d)'
  <2>1. call[c] \in WriteEdgeCall /\ node' = node /\ call[c].at = "put_edge" /\ call[c].n \in Dependents
    BY <1>1, <1>4, PutEdgeIsEdgeStep, EdgeCalls DEF PutEdge, EdgeStages
  <2>2. \A b \in Calls : Deriving(call[b], d) => Deriving(call'[b], d)
    BY <1>2, <2>1 DEF Deriving, Others
  <2>3. CASE edge' = edge
    BY <1>1, <1>2, <2>1, <2>2, <2>3, CachedStays
  <2>4. CASE /\ edge' = [edge EXCEPT ![<<call[c].kind, call[c].n>>] = call[c].to]
             /\ IF call[c].kind = "references_ui" THEN Goto(c, [call[c] EXCEPT !.at = "derive"])
                                                  ELSE Return(c, {call[c].n})
    <3>1. CASE call[c].kind = "references_ui" /\ call[c].n = d
      <4>1. call'[c] = [call[c] EXCEPT !.at = "derive"]
        BY <1>1, <2>4, <3>1 DEF Goto, Typed, CallTypes
      <4>2. Deriving(call'[c], d)
        BY <2>1, <3>1, <4>1 DEF Deriving, WriteEdgeCall
      <4> QED BY <4>2 DEF Cached
    <3>2. CASE ~(call[c].kind = "references_ui" /\ call[c].n = d)
      <4>1. edge'[<<"references_ui", d>>] = edge[<<"references_ui", d>>]
        BY <1>3, <2>4, <3>2
      <4> QED BY <1>1, <1>2, <2>1, <2>2, <4>1, CachedStays
    <3> QED BY <3>1, <3>2
  <2> QED BY <1>4, <2>3, <2>4 DEF PutEdge, Fault, disk
<1>5. ASSUME Derive(c)
      PROVE  Cached(d)'
  <2>1. UNCHANGED <<node, edge>> /\ call[c].at = "derive"
        /\ \/ call'[c].at = "put_refs" /\ call'[c].n = call[c].n
           \/ call'[c] = Idle /\ node[call[c].n].refs = LiveEdge("references_ui", call[c].n)
    BY <1>1, <1>5, DeriveIsEdgeStep DEF Derive, disk
  <2>2. CASE call'[c].at = "put_refs" /\ call'[c].n = call[c].n
    <3>1. \A b \in Calls : Deriving(call[b], d) => Deriving(call'[b], d)
      BY <1>2, <2>2 DEF Deriving, Others
    <3> QED BY <1>1, <1>2, <2>1, <3>1, CachedStays
  <2>3. CASE node[call[c].n].refs = LiveEdge("references_ui", call[c].n) /\ call[c].n = d
    BY <2>1, <2>3 DEF Cached, LiveEdge
  <2>4. CASE call[c].n # d
    <3>1. \A b \in Calls : Deriving(call[b], d) => Deriving(call'[b], d)
      BY <1>2, <2>4 DEF Deriving, Others
    <3> QED BY <1>1, <1>2, <2>1, <3>1, CachedStays
  <2> QED BY <2>1, <2>2, <2>3, <2>4
<1>6. ASSUME PutRefs(c)
      PROVE  Cached(d)'
  <2>1. edge' = edge /\ call[c].at = "put_refs" /\ call[c].n \in Dependents /\ FreshRefs(call[c])
        /\ call[c].n \in Nodes
    BY <1>1, <1>6, PutRefsIsEdgeStep, EdgeCalls DEF PutRefs, EdgeStages, EditInv
  <2>2. CASE call[c].n # d
    <3>1. \A b \in Calls : Deriving(call[b], d) => Deriving(call'[b], d)
      BY <1>2, <2>2 DEF Deriving, Others
    <3>2. node' = node \/ node' = [node EXCEPT ![call[c].n] = call[c].new]
      BY <1>6 DEF PutRefs, Fault, disk
    <3>3. node'[d] = node[d]
      BY <1>2, <1>3, <2>2, <3>2
    <3> QED BY <1>1, <1>2, <2>1, <3>1, <3>3, CachedStays
  <2>3. CASE call[c].n = d
    <3>1. node' = [node EXCEPT ![d] = call[c].new]
      BY <1>6, <2>3 DEF PutRefs, Return
    <3>2. call[c].new = [node[d] EXCEPT !.refs = LiveEdge("references_ui", d)] /\ node[d] \in NodeType
      BY <1>2, <1>3, <2>1, <2>3 DEF FreshRefs
    <3>3. node'[d].refs = LiveEdge("references_ui", d)
      BY <1>2, <1>3, <3>1, <3>2 DEF NodeType
    <3> QED BY <2>1, <3>3 DEF Cached, LiveEdge
  <2> QED BY <2>2, <2>3
<1>7. ASSUME ~PutEdge(c), ~Derive(c), ~PutRefs(c)
      PROVE  Cached(d)'
  <2>1. node'[d].refs = node[d].refs
    BY <1>1, <1>2, <1>7, RefsKept
  <2>2. edge' = edge /\ call[c].at \notin {"derive", "put_refs"}
    <3>1. ASSUME \E k \in EdgeKinds, x \in Dependents, to \in {"live", "superseded"} : WriteEdge(c, k, x, to)
          PROVE  edge' = edge /\ call[c].at = "idle"
      BY <3>1 DEF WriteEdge, Ready, disk
    <3>2. ASSUME NodeAction(c) \/ RowAction(c) \/ RunAction(c)
          PROVE  edge' = edge /\ call[c].at \notin {"derive", "put_refs"}
      BY <1>1, <3>2, NodeActionSteps, RowActionSteps, RunActionSteps
         DEF NodeStep, RowStep, RunStep, Within, NodeStages, RowStages
    <3> QED BY <1>7, <3>1, <3>2 DEF EdgeAction
  <2>3. \A b \in Calls : Deriving(call[b], d) => Deriving(call'[b], d)
    BY <1>2, <2>2 DEF Deriving, Others
  <2> QED BY <1>1, <1>2, <2>1, <2>2, <2>3, CachedStays
<1> QED BY <1>4, <1>5, <1>6, <1>7

LEMMA NextCacheInv == CacheInv /\ [Next]_vars => CacheInv'
<1> SUFFICES ASSUME CacheInv, [Next]_vars PROVE CacheInv'
  OBVIOUS
<1>1. EditInv' /\ Typed /\ EditInv
  BY NextEditInv DEF CacheInv, EditInv, MoveInv, Base
<1>2. CASE Rests
  <2>1. \A d \in Dependents : Cached(d)'
    BY <1>2 DEF Rests, disk, CacheInv, Cached, LiveEdge, Deriving
  <2> QED BY <1>1, <2>1 DEF CacheInv
<1>3. CASE Exits
  <2>1. ASSUME NEW d \in Dependents, d \notin excused'
        PROVE  node'[d].refs = LiveEdge("references_ui", d)'
    <3>1. UNCHANGED <<node, edge>> /\ Cached(d) /\ d \notin excused
          /\ \A c \in Calls : Subject(call[c]) \subseteq excused'
      BY <1>3, <2>1 DEF Exits, disk, CacheInv
    <3>2. ASSUME NEW c \in Calls, Deriving(call[c], d)
          PROVE  FALSE
      BY <1>1, <2>1, <3>1, <3>2, EdgeCalls DEF Deriving, EdgeStages
    <3> QED BY <3>1, <3>2 DEF Cached, LiveEdge
  <2> QED BY <1>1, <2>1 DEF CacheInv, Cached
<1>4. ASSUME NEW c \in Calls, NodeAction(c) \/ EdgeAction(c) \/ RowAction(c) \/ RunAction(c)
      PROVE  CacheInv'
  BY <1>1, <1>4, StepCached DEF CacheInv
<1> QED BY <1>1, <1>2, <1>3, <1>4, NextSplits

LEMMA InitCacheInv == Init => CacheInv
<1> SUFFICES ASSUME Init PROVE CacheInv
  OBVIOUS
<1>1. \A d \in Dependents : node[d].refs = LiveEdge("references_ui", d)
  BY NoneIsNothing DEF Init, LiveEdge, EdgeKinds, Nodes
<1> QED BY <1>1, InitEditInv DEF CacheInv, Cached

(* CacheAlwaysMatches: a settled module's ui_refs cache is what its live edges  *)
(* derive (sync_ui_refs, rule L08), however old the copies are that the callers *)
(* write back: only a node whose own lifecycle, mark or cache such a copy has   *)
(* put back is out of it.                                                       *)
THEOREM CacheAlwaysMatches == Spec => []CacheMatches
<1>1. CacheInv => CacheMatches
  <2> SUFFICES ASSUME CacheInv, NEW d \in Dependents, Settled(d)
               PROVE  node[d].refs = LiveEdge("references_ui", d)
    BY DEF CacheMatches, LiveEdge
  <2>1. Cached(d) /\ Typed
    BY DEF CacheInv, EditInv, MoveInv, Base
  <2>2. ASSUME NEW c \in Calls, Deriving(call[c], d)
        PROVE  FALSE
    BY <2>1, <2>2, EdgeCalls DEF Deriving, EdgeStages, Settled, InFlight
  <2> QED BY <2>1, <2>2 DEF Cached, Settled
<1> QED BY <1>1, InitCacheInv, NextCacheInv, PTL DEF Spec

-----------------------------------------------------------------------------
(* A node stands where its history put it                                       *)

Tells(nd, rows) ==
    /\ nd.stale = (nd.life = "stale")
    /\ rows # <<>> => Last(rows).to = nd.life
    /\ \A i \in 1 .. Len(rows) - 1 : rows[i].to = rows[i + 1].from

(* A move is between its two writes. *)
HalfMoved(s, n) == s.at \in {"put_audit", "roll_back"} /\ s.d = n

Told(n) ==
    n \notin excused =>
        Tells(node[n], audit[n]) \/ \E c \in Calls : HalfMoved(call[c], n)

(* The history of a half-moved node told where the move began. *)
ToldBefore(s) ==
    s.at \in {"put_audit", "roll_back"} /\ s.d \notin excused => Tells(s.before, s.rows)

HistoryInv ==
    /\ EditInv
    /\ \A c \in Calls : ToldBefore(call[c])
    /\ \A n \in Nodes : Told(n)

LEMMA AppendTells ==
  ASSUME NEW s, s.before \in NodeType, s.rows \in Seq(AuditType), AuditRow(s) \in AuditType,
         s.to \in Lifecycles, Tells(s.before, s.rows)
  PROVE  Tells(After(s.before, s.to), Append(s.rows, AuditRow(s)))
<1> DEFINE rows == s.rows
           x == AuditRow(s)
           more == Append(rows, x)
<1>1. After(s.before, s.to).life = s.to /\ After(s.before, s.to).stale = (s.to = "stale")
  BY DEF After, NodeType
<1>2. x.to = s.to /\ x.from = s.before.life
  BY DEF AuditRow
<1>3. rows \in Seq(AuditType) /\ x \in AuditType
  OBVIOUS
<1> HIDE DEF x
<1>4. Len(more) = Len(rows) + 1 /\ Len(rows) \in Nat /\ more[Len(rows) + 1] = x
      /\ \A i \in 1 .. Len(rows) : more[i] = rows[i]
  BY <1>3
<1>5. more # <<>> => Last(more).to = s.to
  BY <1>2, <1>4 DEF Last
<1>6. ASSUME NEW i \in 1 .. Len(more) - 1
      PROVE  more[i].to = more[i + 1].from
  <2>1. CASE i < Len(rows)
    <3>1. i \in 1 .. Len(rows) - 1 /\ i \in 1 .. Len(rows) /\ i + 1 \in 1 .. Len(rows)
      BY <1>4, <2>1
    <3>2. rows[i].to = rows[i + 1].from
      BY <3>1 DEF Tells
    <3> QED BY <1>4, <3>1, <3>2
  <2>2. CASE i = Len(rows)
    <3>1. rows # <<>> /\ i \in 1 .. Len(rows)
      BY <1>3, <1>4, <2>2
    <3>2. rows[Len(rows)].to = s.before.life
      BY <3>1 DEF Tells, Last
    <3> QED BY <1>2, <1>4, <2>2, <3>1, <3>2
  <2> QED BY <1>4, <2>1, <2>2
<1> HIDE DEF more
<1>7. Tells(After(s.before, s.to), more)
  BY <1>1, <1>5, <1>6 DEF Tells
<1> QED BY <1>7 DEF more, x

LEMMA OtherTold ==
  ASSUME Base, NEW c \in Calls, Steps(c), NEW b \in Calls \ {c}, ToldBefore(call[b])
  PROVE  ToldBefore(call[b])'
<1>1. excused \subseteq excused' /\ call'[b] = call[b]
  BY StepsBase DEF Steps, Others
<1> QED BY <1>1 DEF ToldBefore, Tells

LEMMA ToldStays ==
  ASSUME NEW n \in Nodes, Told(n), excused \subseteq excused', audit'[n] = audit[n],
         node'[n].life = node[n].life, node'[n].stale = node[n].stale,
         \A b \in Calls : HalfMoved(call[b], n) => HalfMoved(call'[b], n)
  PROVE  Told(n)'
BY DEF Told, Tells

(* No other call is between the writes of a node this one is moving. *)
LEMMA MovedAlone ==
  ASSUME Base, NEW c \in Calls, call[c].at \in MoveStages, call[c].d \notin excused,
         NEW b \in Calls \ {c}
  PROVE  ~HalfMoved(call[b], call[c].d)
<1> SUFFICES ASSUME HalfMoved(call[b], call[c].d) PROVE FALSE
  OBVIOUS
<1>1. call[b].at \in MoveStages /\ call[b].d = call[c].d
  BY DEF HalfMoved
<1>2. call[c].d \in Subject(call[c]) /\ call[b].d \in Subject(call[b])
  BY <1>1, MovingCalls DEF Base
<1> QED BY <1>1, <1>2 DEF Base, Exclusive

(* The stage a step leaves a call at, when it is not one of a move's writes. *)
LEMMA NotHalfMoved ==
  ASSUME Typed, NEW c \in Calls, NodeAction(c) \/ EdgeAction(c) \/ RowAction(c) \/ RunAction(c),
         ~PutNode(c), ~PutAudit(c)
  PROVE  call'[c].at \notin {"put_audit", "roll_back"}
<1>1. call \in [Calls -> CallType]
  BY DEF Typed, CallTypes
<1>2. ASSUME EdgeAction(c) \/ RowAction(c) \/ RunAction(c)
      PROVE  call'[c].at \notin {"put_audit", "roll_back"}
  BY <1>2, EdgeActionSteps, RowActionSteps, RunActionSteps
     DEF EdgeStep, RowStep, RunStep, Within, EdgeStages, RowStages
<1>3. ASSUME NEW n \in Moved, NEW to \in Lifecycles, NEW actor \in {"human", "agent"},
             Transition(c, n, to, actor)
      PROVE  call'[c].at \notin {"put_audit", "roll_back"}
  <2>1. CASE call' = call
    BY <1>3, <2>1 DEF Transition, Ready
  <2>2. CASE call' # call
    BY <1>1, <1>3, <2>2 DEF Transition, Begin, Refuse
  <2> QED BY <2>1, <2>2
<1>4. ASSUME NEW n \in Nodes, NEW contract \in 0 .. MaxContract, WriteNode(c, n, contract)
      PROVE  call'[c].at \notin {"put_audit", "roll_back"}
  <2>1. call'[c].at = "put_edit"
    BY <1>1, <1>4 DEF WriteNode, Begin
  <2> QED BY <2>1
<1>5. ASSUME NEW d \in Dependents, Drop(c, d)
      PROVE  call'[c].at \notin {"put_audit", "roll_back"}
  BY <1>5, DropIsNodeStep, IdleCall DEF Dropped, WriteNodeCall
<1>6. ASSUME ReadAudit(c)
      PROVE  call'[c].at \notin {"put_audit", "roll_back"}
  <2>1. call'[c] = [call[c] EXCEPT !.at = "put_node", !.rows = audit[call[c].d]] /\ Moves(call[c])
    BY <1>6, ReadAuditIsNodeStep, MovingCalls DEF ReadAudit
  <2>2. call'[c].at = "put_node"
    BY <2>1 DEF Moves, TransitionCall, WriteNodeCall
  <2> QED BY <2>2
<1>7. ASSUME RollBack(c)
      PROVE  call'[c].at \notin {"put_audit", "roll_back"}
  BY <1>7, RollBackIsNodeStep, IdleCall
<1>8. ASSUME PutEdit(c)
      PROVE  call'[c].at \notin {"put_audit", "roll_back"}
  <2>1. call[c] \in WriteNodeCall
    BY <1>8, EditingCalls DEF PutEdit
  <2>2. [call[c] EXCEPT !.at = "drop"].at = "drop"
    BY <2>1 DEF WriteNodeCall
  <2>3. call'[c] = Idle \/ call'[c] = [call[c] EXCEPT !.at = "drop"]
    BY <1>1, <1>8 DEF PutEdit, Goto, Return
  <2> QED BY <2>2, <2>3, IdleCall
<1> QED BY <1>2, <1>3, <1>4, <1>5, <1>6, <1>7, <1>8 DEF NodeAction

LEMMA OwnTold ==
  ASSUME HistoryInv, NEW c \in Calls, NodeAction(c) \/ EdgeAction(c) \/ RowAction(c) \/ RunAction(c)
  PROVE  ToldBefore(call[c])'
<1>1. Base /\ Typed /\ FreshMove(call[c]) /\ ToldBefore(call[c]) /\ Steps(c) /\ call \in [Calls -> CallType]
  BY NodeActionSteps, EdgeActionSteps, RowActionSteps, RunActionSteps
     DEF HistoryInv, EditInv, MoveInv, Base, NodeStep, EdgeStep, RowStep, RunStep, Typed, CallTypes
<1>2. excused \subseteq excused'
  BY <1>1, StepsBase
<1>3. ASSUME PutNode(c)
      PROVE  ToldBefore(call[c])'
  <2>1. call[c].at = "put_node" /\ call[c].d \in Nodes /\ Moves(call[c])
    BY <1>1, <1>3, MovingCalls DEF PutNode
  <2>2. CASE call'[c] = Idle
    BY <2>2, IdleCall DEF ToldBefore
  <2>3. CASE call'[c] = [call[c] EXCEPT !.at = "put_audit"]
    <3>1. call'[c].d = call[c].d /\ call'[c].before = call[c].before /\ call'[c].rows = call[c].rows
      BY <2>1, <2>3 DEF Moves, TransitionCall, WriteNodeCall
    <3>2. ASSUME call[c].d \notin excused'
          PROVE  Tells(call[c].before, call[c].rows)
      <4>1. Told(call[c].d) /\ call[c].d \notin excused
        BY <1>2, <2>1, <3>2 DEF HistoryInv
      <4>2. \A b \in Calls : ~HalfMoved(call[b], call[c].d)
        BY <1>1, <2>1, <4>1, MovedAlone DEF HalfMoved
      <4>3. Tells(node[call[c].d], audit[call[c].d])
        BY <4>1, <4>2 DEF Told
      <4>4. call[c].before = node[call[c].d] /\ call[c].rows = audit[call[c].d]
        BY <1>1, <2>1, <4>1 DEF FreshMove
      <4> QED BY <4>3, <4>4
    <3> QED BY <3>1, <3>2 DEF ToldBefore, Tells
  <2> QED BY <1>1, <1>3, <2>2, <2>3 DEF PutNode, Goto, Return
<1>4. ASSUME PutAudit(c)
      PROVE  ToldBefore(call[c])'
  <2>1. call[c].at = "put_audit" /\ Moves(call[c])
    BY <1>1, <1>4, MovingCalls DEF PutAudit
  <2>2. CASE call'[c] = Idle \/ call'[c] = [call[c] EXCEPT !.at = "drop"]
    <3>1. [call[c] EXCEPT !.at = "drop"].at = "drop"
      BY <2>1 DEF Moves, TransitionCall, WriteNodeCall
    <3> QED BY <2>2, <3>1, IdleCall DEF ToldBefore
  <2>3. CASE call'[c] = [call[c] EXCEPT !.at = "roll_back"]
    <3>1. call'[c].d = call[c].d /\ call'[c].before = call[c].before /\ call'[c].rows = call[c].rows
      BY <2>1, <2>3 DEF Moves, TransitionCall, WriteNodeCall
    <3> QED BY <1>1, <1>2, <2>1, <3>1 DEF ToldBefore, Tells
  <2> QED BY <1>1, <1>4, <2>2, <2>3 DEF PutAudit, Goto, Return
<1>5. ASSUME ~PutNode(c), ~PutAudit(c)
      PROVE  ToldBefore(call[c])'
  <2>1. call'[c].at \notin {"put_audit", "roll_back"}
    BY <1>1, <1>5, NotHalfMoved
  <2> QED BY <2>1 DEF ToldBefore
<1> QED BY <1>3, <1>4, <1>5

LEMMA StepTold ==
  ASSUME HistoryInv, NEW c \in Calls, NodeAction(c) \/ EdgeAction(c) \/ RowAction(c) \/ RunAction(c),
         NEW n \in Nodes
  PROVE  Told(n)'
<1>1. Base /\ Typed /\ EditInv /\ FreshMove(call[c]) /\ ToldBefore(call[c]) /\ Told(n) /\ Steps(c)
      /\ call \in [Calls -> CallType] /\ node[n] \in NodeType /\ audit \in [Nodes -> Seq(AuditType)]
  BY NodeActionSteps, EdgeActionSteps, RowActionSteps, RunActionSteps
     DEF HistoryInv, EditInv, MoveInv, Base, NodeStep, EdgeStep, RowStep, RunStep, Typed, CallTypes, DiskTypes
<1>2. excused \subseteq excused' /\ Others(c)
  BY <1>1, StepsBase DEF Steps
<1> SUFFICES ASSUME n \notin excused' PROVE Told(n)'
  BY DEF Told
<1>3. node'[n] = node[n] \/ Edited(c, n) \/ Refreshed(c, n) \/ MovedOn(c, n) \/ PutBack(c, n)
  BY <1>1, NodeWrites
<1>4. ASSUME PutNode(c)
      PROVE  Told(n)'
  <2>1. audit' = audit /\ call[c].at = "put_node" /\ Moves(call[c])
    BY <1>1, <1>4, MovingCalls DEF PutNode, Fault, disk
  <2>2. CASE MovedOn(c, n)
    <3>1. call'[c].at = "put_audit" /\ call'[c].d = n
      BY <2>1, <2>2 DEF MovedOn, Moves, TransitionCall, WriteNodeCall
    <3> QED BY <3>1 DEF Told, HalfMoved
  <2>3. CASE node'[n] = node[n]
    <3>1. \A b \in Calls : HalfMoved(call[b], n) => HalfMoved(call'[b], n)
      BY <1>2, <2>1 DEF HalfMoved, Others
    <3> QED BY <1>1, <1>2, <2>1, <2>3, <3>1, ToldStays
  <2> QED BY <1>3, <1>4, <2>1, <2>2, <2>3 DEF Edited, Refreshed, PutBack, PutEdit, PutRefs, RollBack
<1>5. ASSUME PutAudit(c)
      PROVE  Told(n)'
  <2>1. node' = node /\ call[c].at = "put_audit" /\ Moves(call[c]) /\ call[c].d \in Nodes
        /\ call[c].rows \in Seq(AuditType) /\ call[c].before \in NodeType /\ call[c].to \in Lifecycles
        /\ AuditRow(call[c]) \in AuditType
    BY <1>1, <1>5, MovingCalls DEF PutAudit, Fault, disk
  <2>2. CASE audit' = audit /\ call'[c] = [call[c] EXCEPT !.at = "roll_back"]
    <3>1. call'[c].at = "roll_back" /\ call'[c].d = call[c].d
      BY <2>1, <2>2 DEF Moves, TransitionCall, WriteNodeCall
    <3>2. \A b \in Calls : HalfMoved(call[b], n) => HalfMoved(call'[b], n)
      BY <1>2, <3>1 DEF HalfMoved, Others
    <3> QED BY <1>1, <1>2, <2>1, <2>2, <3>2, ToldStays
  <2>3. CASE audit' = [audit EXCEPT ![call[c].d] = Append(call[c].rows, AuditRow(call[c]))]
    <3>1. CASE n = call[c].d
      <4>1. Tells(call[c].before, call[c].rows) /\ node[n] = After(call[c].before, call[c].to)
        BY <1>1, <1>2, <2>1, <3>1 DEF ToldBefore, FreshMove
      <4>2. Tells(After(call[c].before, call[c].to), Append(call[c].rows, AuditRow(call[c])))
        BY <2>1, <4>1, AppendTells
      <4>3. audit'[n] = Append(call[c].rows, AuditRow(call[c])) /\ node'[n] = After(call[c].before, call[c].to)
        BY <1>1, <2>1, <2>3, <3>1, <4>1
      <4>4. Tells(node'[n], audit'[n])
        BY <4>2, <4>3
      <4> QED BY <4>4 DEF Told, Tells
    <3>2. CASE n # call[c].d
      <4>1. \A b \in Calls : HalfMoved(call[b], n) => HalfMoved(call'[b], n)
        BY <1>2, <3>2 DEF HalfMoved, Others
      <4>2. audit'[n] = audit[n]
        BY <1>1, <2>3, <3>2
      <4> QED BY <1>1, <1>2, <2>1, <4>1, <4>2, ToldStays
    <3> QED BY <3>1, <3>2
  <2> QED BY <1>1, <1>5, <2>2, <2>3 DEF PutAudit, Goto, Fault, disk
<1>6. ASSUME RollBack(c)
      PROVE  Told(n)'
  <2>1. audit' = audit /\ call[c].at = "roll_back" /\ call[c].d \in Nodes
    BY <1>1, <1>6, MovingCalls DEF RollBack, Fault, disk
  <2>2. CASE n # call[c].d
    <3>1. \A b \in Calls : HalfMoved(call[b], n) => HalfMoved(call'[b], n)
      BY <1>2, <2>2 DEF HalfMoved, Others
    <3>2. node'[n] = node[n]
      BY <1>3, <1>6, <2>1, <2>2 DEF Edited, Refreshed, MovedOn, PutBack, PutEdit, PutRefs, PutNode
    <3> QED BY <1>1, <1>2, <2>1, <3>1, <3>2, ToldStays
  <2>3. CASE n = call[c].d
    <3>1. node' = [node EXCEPT ![n] = call[c].before]
      BY <1>6, <2>3 DEF RollBack, Return
    <3>2. node'[n] = call[c].before
      BY <1>1, <2>1, <2>3, <3>1 DEF Typed, DiskTypes
    <3>3. Tells(call[c].before, call[c].rows) /\ call[c].rows = audit[n]
      BY <1>1, <1>2, <2>1, <2>3 DEF ToldBefore, FreshMove
    <3>4. Tells(node'[n], audit'[n])
      BY <2>1, <3>2, <3>3
    <3> QED BY <3>4 DEF Told, Tells
  <2> QED BY <2>2, <2>3
<1>7. ASSUME ~PutNode(c), ~PutAudit(c), ~RollBack(c)
      PROVE  Told(n)'
  <2>1. node'[n].life = node[n].life /\ node'[n].stale = node[n].stale
    BY <1>1, <1>3, <1>7 DEF Edited, Refreshed, MovedOn, PutBack, NodeType
  <2>2. audit' = audit /\ call[c].at \notin {"put_audit", "roll_back"}
    <3>1. ASSUME EdgeAction(c) \/ RowAction(c) \/ RunAction(c)
          PROVE  audit' = audit /\ call[c].at \notin {"put_audit", "roll_back"}
      BY <1>1, <3>1, EdgeActionSteps, RowActionSteps, RunActionSteps
         DEF EdgeStep, RowStep, RunStep, Within, EdgeStages, RowStages
    <3>2. ASSUME \E m \in Moved, to \in Lifecycles, actor \in {"human", "agent"} : Transition(c, m, to, actor)
          PROVE  audit' = audit /\ call[c].at = "idle"
      BY <3>2 DEF Transition, Ready, Refuse, disk
    <3>3. ASSUME \E m \in Nodes, contract \in 0 .. MaxContract : WriteNode(c, m, contract)
          PROVE  audit' = audit /\ call[c].at = "idle"
      BY <3>3 DEF WriteNode, Ready, disk
    <3>4. ASSUME \E d \in Dependents : Drop(c, d)
          PROVE  audit' = audit /\ call[c].at = "drop"
      BY <3>4 DEF Drop, disk
    <3>5. ASSUME ReadAudit(c)
          PROVE  audit' = audit /\ call[c].at = "read_audit"
      BY <3>5 DEF ReadAudit, disk
    <3>6. ASSUME PutEdit(c)
          PROVE  audit' = audit /\ call[c].at = "put_edit"
      BY <3>6 DEF PutEdit, Fault, disk
    <3> QED BY <1>7, <3>1, <3>2, <3>3, <3>4, <3>5, <3>6 DEF NodeAction
  <2>3. \A b \in Calls : HalfMoved(call[b], n) => HalfMoved(call'[b], n)
    BY <1>2, <2>2 DEF HalfMoved, Others
  <2> QED BY <1>1, <1>2, <2>1, <2>2, <2>3, ToldStays
<1> QED BY <1>4, <1>5, <1>6, <1>7

LEMMA NextHistoryInv == HistoryInv /\ [Next]_vars => HistoryInv'
<1> SUFFICES ASSUME HistoryInv, [Next]_vars PROVE HistoryInv'
  OBVIOUS
<1>1. EditInv' /\ Base /\ Typed
  BY NextEditInv DEF HistoryInv, EditInv, MoveInv, Base
<1>2. CASE Rests
  <2>1. UNCHANGED <<node, audit, call, excused>>
    BY <1>2 DEF Rests, disk
  <2>2. \A c \in Calls : ToldBefore(call[c])'
    BY <2>1 DEF HistoryInv, ToldBefore, Tells
  <2>3. \A n \in Nodes : Told(n)'
    BY <2>1, ToldStays DEF HistoryInv
  <2> QED BY <1>1, <2>2, <2>3 DEF HistoryInv
<1>3. CASE Exits
  <2>1. \A c \in Calls : ToldBefore(call[c])'
    BY <1>3, IdleCall DEF Exits, ToldBefore
  <2>2. ASSUME NEW n \in Nodes, n \notin excused'
        PROVE  Tells(node'[n], audit'[n])
    <3>1. UNCHANGED <<node, audit>> /\ Told(n) /\ n \notin excused
          /\ \A c \in Calls : Subject(call[c]) \subseteq excused'
      BY <1>3, <2>2 DEF Exits, disk, HistoryInv
    <3>2. ASSUME NEW c \in Calls, HalfMoved(call[c], n)
          PROVE  FALSE
      BY <1>1, <2>2, <3>1, <3>2, MovingCalls DEF HalfMoved
    <3> QED BY <3>1, <3>2 DEF Told
  <2>3. \A n \in Nodes : Told(n)'
    BY <2>2 DEF Told, Tells
  <2> QED BY <1>1, <2>1, <2>3 DEF HistoryInv
<1>4. ASSUME NEW c \in Calls, NodeAction(c) \/ EdgeAction(c) \/ RowAction(c) \/ RunAction(c)
      PROVE  HistoryInv'
  <2>1. Steps(c)
    BY <1>1, <1>4, NodeActionSteps, EdgeActionSteps, RowActionSteps, RunActionSteps
       DEF NodeStep, EdgeStep, RowStep, RunStep
  <2>2. \A b \in Calls \ {c} : ToldBefore(call[b])'
    BY <1>1, <2>1, OtherTold DEF HistoryInv
  <2> QED BY <1>1, <1>4, <2>2, OwnTold, StepTold DEF HistoryInv
<1> QED BY <1>1, <1>2, <1>3, <1>4, NextSplits

LEMMA InitHistoryInv == Init => HistoryInv
<1> SUFFICES ASSUME Init PROVE HistoryInv
  OBVIOUS
<1>1. \A c \in Calls : call[c].at = "idle"
  BY IdleCall DEF Init
<1>2. ASSUME NEW n \in Nodes
      PROVE  Tells(node[n], audit[n])
  <2>1. audit[n] = <<>> /\ node[n].stale = FALSE /\ node[n].life \in {"accepted", "draft"}
    BY DEF Init
  <2>2. Len(audit[n]) = 0
    BY <2>1
  <2>3. (1 .. Len(audit[n]) - 1) = {}
    BY <2>2
  <2> QED BY <2>1, <2>3 DEF Tells
<1> QED BY <1>1, <1>2, InitEditInv DEF HistoryInv, ToldBefore, Told

(* HistoryAlwaysTells: a settled node stands where the last row of its audit    *)
(* put it, the rows follow one another, and it is marked stale exactly while it *)
(* is stale (Store::write_transition and its roll-back), unless an older copy   *)
(* of that very node has put its lifecycle, mark or cache back.                 *)
THEOREM HistoryAlwaysTells == Spec => []HistoryTellsState
<1>1. HistoryInv => HistoryTellsState
  <2> SUFFICES ASSUME HistoryInv, NEW n \in Nodes, Settled(n)
               PROVE  Tells(node[n], audit[n])
    BY DEF HistoryTellsState, Tells
  <2>1. Told(n) /\ Typed
    BY DEF HistoryInv, EditInv, MoveInv, Base
  <2>2. ASSUME NEW c \in Calls, HalfMoved(call[c], n)
        PROVE  FALSE
    BY <2>1, <2>2, MovingCalls DEF HalfMoved, Settled, InFlight
  <2> QED BY <2>1, <2>2 DEF Told, Settled
<1> QED BY <1>1, InitHistoryInv, NextHistoryInv, PTL DEF Spec

-----------------------------------------------------------------------------
(* Reviews are of the contracts that stand                                      *)

Contracts == [n \in Contracted |-> node[n].contract]

Reviewed(d) == d \notin excused /\ Contracted \cap excused = {}

(* Call s has yet to make d stale for the contract it changes. *)
Dropping(s, d) ==
    /\ s.op = "write-node" /\ s.n \in Contracted
    /\ \/ s.at \in MoveStages \cup {"drop"} /\ d \in s.left
       \/ s.at \in {"read_audit", "put_node"} /\ d = s.d

(* An accepted review is of the contracts that stand, or is about to be dropped. *)
Current(d) ==
    Reviewed(d) /\ node[d].life = "accepted" =>
        seen[d] = Contracts \/ \E c \in Calls : Dropping(call[c], d)

DrawnLive(d) == d \notin excused => edge[<<"depends_on", d>>] = "live"

(* An edit that changes a contract goes on to every accepted dependent. *)
FreshCascade(s) ==
    s.at = "put_edit" /\ s.n \in Contracted /\ s.n \notin excused
      /\ s.new.contract # node[s.n].contract =>
        \A d \in Dependents : d \notin excused /\ node[d].life = "accepted" => d \in s.left

(* A review under way is of the contracts that stand. *)
FreshReview(s) ==
    s.op = "transition" /\ s.d \in Dependents /\ Reviewed(s.d) =>
        /\ s.at \in {"read_audit", "put_node"} => s.contracts = Contracts
        /\ s.at \in {"put_audit", "roll_back"} /\ s.before.life = "accepted" => seen[s.d] = Contracts

ReviewInv ==
    /\ EditInv
    /\ \A d \in Dependents : DrawnLive(d) /\ Current(d)
    /\ \A c \in Calls : FreshCascade(call[c]) /\ FreshReview(call[c])

Acts(c) == NodeAction(c) \/ EdgeAction(c) \/ RowAction(c) \/ RunAction(c)

LEMMA ActsStep ==
  ASSUME Base, NEW c \in Calls, Acts(c)
  PROVE  Typed /\ Steps(c) /\ Others(c) /\ excused \subseteq excused'
<1>1. Typed /\ Steps(c)
  BY NodeActionSteps, EdgeActionSteps, RowActionSteps, RunActionSteps
     DEF Acts, Base, NodeStep, EdgeStep, RowStep, RunStep
<1> QED BY <1>1, StepsBase DEF Steps

(* Only an edit of it changes a contract. *)
LEMMA ContractsKept ==
  ASSUME EditInv, NEW c \in Calls, Acts(c), Contracted \cap excused' = {},
         ~(PutEdit(c) /\ call[c].n \in Contracted)
  PROVE  Contracts' = Contracts
<1>1. ASSUME NEW n \in Contracted
      PROVE  node'[n].contract = node[n].contract
  <2>1. n \in Nodes /\ n \notin excused' /\ node[n] \in NodeType /\ Typed
    BY DEF Nodes, Contracted, EditInv, MoveInv, Base, Typed, DiskTypes
  <2>2. node'[n] = node[n] \/ Edited(c, n) \/ Refreshed(c, n) \/ MovedOn(c, n) \/ PutBack(c, n)
    BY <2>1, NodeWrites DEF Acts
  <2>3. ~Edited(c, n)
    BY DEF Edited
  <2>4. CASE Refreshed(c, n)
    BY <2>1, <2>4 DEF Refreshed, NodeType
  <2>5. CASE MovedOn(c, n)
    BY <2>1, <2>5 DEF MovedOn, After, NodeType
  <2>6. CASE PutBack(c, n)
    <3>1. call[c].before \in NodeType
      BY <2>1, <2>6, MovingCalls DEF PutBack, RollBack
    <3> QED BY <2>6, <3>1 DEF PutBack, After, NodeType
  <2> QED BY <2>2, <2>3, <2>4, <2>5, <2>6
<1> QED BY <1>1 DEF Contracts

(* Drawn dependencies stay live while nobody redraws them. *)
LEMMA StepDrawnLive ==
  ASSUME Base, NEW c \in Calls, Acts(c), NEW d \in Dependents, DrawnLive(d)
  PROVE  DrawnLive(d)'
<1>1. Typed /\ Steps(c) /\ excused \subseteq excused'
  BY ActsStep
<1>2. CASE PutEdge(c)
  <2>1. call[c] \in WriteEdgeCall /\ edge \in [EdgeKinds \X Dependents -> {None, "live", "superseded"}]
        /\ <<"depends_on", d>> \in EdgeKinds \X Dependents
    BY <1>1, <1>2, EdgeCalls DEF PutEdge, EdgeStages, Typed, DiskTypes, EdgeKinds
  <2>2. CASE edge' = edge
    BY <1>1, <2>2 DEF DrawnLive
  <2>3. CASE /\ edge' = [edge EXCEPT ![<<call[c].kind, call[c].n>>] = call[c].to]
             /\ IF call[c].kind = "references_ui" THEN Goto(c, [call[c] EXCEPT !.at = "derive"])
                                                  ELSE Return(c, {call[c].n})
    <3>1. CASE call[c].kind = "depends_on" /\ call[c].n = d
      BY <2>3, <3>1 DEF Return, DrawnLive
    <3>2. CASE ~(call[c].kind = "depends_on" /\ call[c].n = d)
      <4>1. edge'[<<"depends_on", d>>] = edge[<<"depends_on", d>>]
        BY <2>1, <2>3, <3>2
      <4> QED BY <1>1, <4>1 DEF DrawnLive
    <3> QED BY <3>1, <3>2
  <2> QED BY <1>2, <2>2, <2>3 DEF PutEdge, Fault, disk
<1>3. CASE ~PutEdge(c)
  <2>1. edge' = edge
    <3>1. ASSUME \E k \in EdgeKinds, x \in Dependents, to \in {"live", "superseded"} : WriteEdge(c, k, x, to)
          PROVE  edge' = edge
      BY <3>1 DEF WriteEdge, disk
    <3>2. ASSUME NodeAction(c) \/ RowAction(c) \/ RunAction(c)
          PROVE  edge' = edge
      BY <1>1, <3>2, NodeActionSteps, RowActionSteps, RunActionSteps DEF NodeStep, RowStep, RunStep
    <3>3. Derive(c) \/ PutRefs(c) => edge' = edge
      BY <1>1, DeriveIsEdgeStep, PutRefsIsEdgeStep DEF disk
    <3> QED BY <1>3, <3>1, <3>2, <3>3 DEF Acts, EdgeAction
  <2> QED BY <1>1, <2>1 DEF DrawnLive
<1> QED BY <1>2, <1>3

(* The cascade an edit was given stays right while other calls step. *)
LEMMA OtherCascade ==
  ASSUME EditInv, NEW c \in Calls, Acts(c), NEW b \in Calls \ {c}, FreshCascade(call[b])
  PROVE  FreshCascade(call[b])'
<1>1. Base /\ Steps(c) /\ Others(c) /\ excused \subseteq excused'
  BY ActsStep DEF EditInv, MoveInv
<1>. PICK s : s = call[b] /\ s = call'[b] /\ FreshCascade(s)
  BY <1>1 DEF Others
<1>2. ASSUME s.at = "put_edit", s.n \in Contracted, s.n \notin excused'
      PROVE  node'[s.n] = node[s.n] /\ \A d \in Dependents : d \notin excused' => node'[d] = node[d]
  <2>1. s.n \in Nodes /\ s.n \in Subject(call[b]) /\ Dependents \subseteq Subject(call[b])
    BY <1>1, <1>2, EditingCalls DEF Base
  <2>2. ASSUME NEW f \in Nodes, f \in Subject(call[b]), f \notin excused'
        PROVE  node'[f] = node[f]
    <3>1. Same(f)
      BY <1>1, <2>2, Undisturbed
    <3> QED BY <2>2, <3>1 DEF Same
  <2> QED BY <1>2, <2>1, <2>2 DEF Nodes
<1>3. FreshCascade(s)'
  BY <1>1, <1>2 DEF FreshCascade
<1> QED BY <1>3

(* A review under way goes on being of the contracts that stand. *)
LEMMA OtherReview ==
  ASSUME EditInv, NEW c \in Calls, Acts(c), NEW b \in Calls \ {c}, FreshReview(call[b])
  PROVE  FreshReview(call[b])'
<1>1. Base /\ Typed /\ Steps(c) /\ Others(c) /\ excused \subseteq excused'
  BY ActsStep DEF EditInv, MoveInv
<1>. PICK s : s = call[b] /\ s = call'[b] /\ FreshReview(s)
  BY <1>1 DEF Others
<1>2. ASSUME s.op = "transition", s.d \in Dependents, s.d \notin excused', Contracted \cap excused' = {}
      PROVE  Contracts' = Contracts /\ seen'[s.d] = seen[s.d]
  <2>1. s.at \in MoveStages
    BY <1>1, <1>2, CallOps DEF OpsFit
  <2>2. s.d \in Subject(call[b])
    BY <1>1, <2>1, MovingCalls
  <2>3. ~(PutEdit(c) /\ call[c].n \in Contracted)
    <3>1. SUFFICES ASSUME PutEdit(c), call[c].n \in Contracted PROVE FALSE
      OBVIOUS
    <3>2. s.d \in Subject(call[c])
      BY <1>1, <1>2, <3>1, EditingCalls DEF PutEdit
    <3> QED BY <1>1, <1>2, <2>2, <3>2 DEF Base, Exclusive
  <2>4. Same(s.d)
    BY <1>1, <1>2, <2>2, Undisturbed
  <2> QED BY <1>2, <2>3, <2>4, ContractsKept DEF Same
<1>3. FreshReview(s)'
  <2>1. SUFFICES ASSUME s.op = "transition", s.d \in Dependents, Reviewed(s.d)'
                 PROVE  /\ s.at \in {"read_audit", "put_node"} => s.contracts = Contracts'
                        /\ s.at \in {"put_audit", "roll_back"} /\ s.before.life = "accepted" =>
                              seen'[s.d] = Contracts'
    BY DEF FreshReview
  <2>2. s.d \notin excused' /\ Contracted \cap excused' = {} /\ Reviewed(s.d)
    BY <1>1, <2>1 DEF Reviewed
  <2>3. Contracts' = Contracts /\ seen'[s.d] = seen[s.d]
    BY <1>2, <2>1, <2>2
  <2> QED BY <2>1, <2>2, <2>3 DEF FreshReview
<1> QED BY <1>3

(* A call is given the cascade of the nodes that it finds. *)
LEMMA OwnCascade ==
  ASSUME EditInv, \A d \in Dependents : DrawnLive(d), NEW c \in Calls, Acts(c)
  PROVE  FreshCascade(call[c])'
<1>1. Base /\ Typed /\ excused \subseteq excused'
  BY ActsStep DEF EditInv, MoveInv
<1>2. ASSUME NEW n \in Nodes, NEW contract \in 0 .. MaxContract, WriteNode(c, n, contract)
      PROVE  FreshCascade(call[c])'
  <2>. PICK t : t = call'[c]
    OBVIOUS
  <2>1. t.at = "put_edit" /\ t.n = n /\ node' = node
    BY <1>1, <1>2, WriteNodeBegins
  <2>3. ASSUME n \in Contracted, t.new.contract # node[n].contract, NEW d \in Dependents,
               d \notin excused', node[d].life = "accepted"
        PROVE  d \in t.left
    <3>1. t.left = StaleCascade(n, [node |-> node, edge |-> edge])
      BY <1>1, <1>2, <2>3, WriteNodeCascade
    <3>2. edge[<<"depends_on", d>>] = "live"
      BY <1>1, <2>3 DEF DrawnLive
    <3>3. Owner \in {n} \cup (IF n = Method THEN {Owner} ELSE {})
      BY <2>3 DEF Contracted
    <3> QED BY <2>3, <3>1, <3>2, <3>3 DEF StaleCascade
  <2>4. FreshCascade(t)'
    BY <2>1, <2>3 DEF FreshCascade
  <2> QED BY <2>4
<1>3. ASSUME ~\E n \in Nodes, contract \in 0 .. MaxContract : WriteNode(c, n, contract)
      PROVE  call'[c].at # "put_edit"
  <2>1. CASE NodeAction(c)
    BY <1>1, <1>3, <2>1, EditBegins
  <2>2. CASE EdgeAction(c) \/ RowAction(c) \/ RunAction(c)
    BY <1>1, <2>2, EdgeActionSteps, RowActionSteps, RunActionSteps
       DEF EdgeStep, RowStep, RunStep, Within, EdgeStages, RowStages
  <2> QED BY <2>1, <2>2 DEF Acts
<1> QED BY <1>2, <1>3 DEF FreshCascade

(* Who is about to drop a dependent shares it with nobody. *)
LEMMA DroppingIsAtWork ==
  ASSUME Typed, NEW c \in Calls, NEW d \in Dependents, Dropping(call[c], d)
  PROVE  call[c] \in WriteNodeCall /\ d \in Subject(call[c])
<1>1. call[c] \in WriteNodeCall /\ call[c].n \in Contracted
  BY CallOps DEF Dropping, OpsFit
<1> QED BY <1>1, Subjects

(* A call that moves a node makes or keeps a review of the contracts that stand. *)
LEMMA OwnReview ==
  ASSUME ReviewInv, NEW c \in Calls, Acts(c)
  PROVE  FreshReview(call[c])'
<1>1. EditInv /\ Base /\ Typed /\ Typed' /\ excused \subseteq excused' /\ FreshMove(call[c])
      /\ FreshReview(call[c]) /\ call \in [Calls -> CallType]
  BY ActsStep DEF ReviewInv, EditInv, MoveInv, Steps, Typed, CallTypes
<1>. (Typed => OpsFit)'
  BY CallOps, PTL
<1>2. CASE call'[c].at \notin MoveStages
  BY <1>1, <1>2 DEF FreshReview, OpsFit
<1>3. ASSUME NEW n \in Moved, NEW to \in Lifecycles, NEW actor \in {"human", "agent"},
             Transition(c, n, to, actor)
      PROVE  FreshReview(call[c])'
  <2>1. CASE call' = call
    BY <1>2, <1>3, <2>1 DEF Transition, Ready
  <2>2. CASE call' # call
    <3> DEFINE s == [op |-> "transition", at |-> "read_audit", n |-> n, d |-> n, to |-> to,
                     actor |-> actor, before |-> node[n], rows |-> <<>>, left |-> {},
                     contracts |-> [k \in Contracted |-> node[k].contract]]
    <3>1. Begin(c, {}, s) /\ node' = node
      BY <1>3, <2>2 DEF Transition, Refuse, disk
    <3>2. call'[c] = s
      BY <1>1, <3>1 DEF Begin
    <3>3. call'[c].at = "read_audit" /\ call'[c].contracts = Contracts'
      BY <3>1, <3>2 DEF Contracts
    <3> QED BY <3>3 DEF FreshReview
  <2> QED BY <2>1, <2>2
<1>4. ASSUME ReadAudit(c)
      PROVE  FreshReview(call[c])'
  <2>1. call'[c] = [call[c] EXCEPT !.at = "put_node", !.rows = audit[call[c].d]] /\ Moves(call[c])
        /\ node' = node /\ call[c].at = "read_audit"
    BY <1>1, <1>4, ReadAuditIsNodeStep, MovingCalls DEF ReadAudit, disk
  <2>2. call'[c].at = "put_node" /\ call'[c].op = call[c].op /\ call'[c].d = call[c].d
    BY <2>1 DEF Moves, TransitionCall, WriteNodeCall
  <2>3. call[c] \in TransitionCall => call'[c].contracts = call[c].contracts
    BY <2>1 DEF TransitionCall
  <2>4. call[c].op = "transition" => call[c] \in TransitionCall
    BY <1>1, CallOps DEF OpsFit
  <2>5. Contracts' = Contracts /\ (Reviewed(call[c].d)' => Reviewed(call[c].d))
    BY <1>1, <2>1, <2>2 DEF Contracts, Reviewed
  <2> QED BY <1>1, <2>1, <2>2, <2>3, <2>4, <2>5 DEF FreshReview, Reviewed
<1>5. ASSUME PutNode(c)
      PROVE  FreshReview(call[c])'
  <2>1. Moves(call[c]) /\ call[c].at = "put_node" /\ call[c].d \in Subject(call[c])
    BY <1>1, <1>5, MovingCalls DEF PutNode
  <2>2. CASE call'[c] = Idle
    BY <1>2, <2>2, IdleCall
  <2>3. CASE /\ seen' = IF call[c].to = "accepted" /\ call[c].d \in Dependents
                        THEN [seen EXCEPT ![call[c].d] = call[c].contracts] ELSE seen
             /\ Goto(c, [call[c] EXCEPT !.at = "put_audit"])
    <3>1. call'[c] = [call[c] EXCEPT !.at = "put_audit"]
      BY <1>1, <2>3 DEF Goto
    <3>2. call'[c].at = "put_audit" /\ call'[c].op = call[c].op /\ call'[c].d = call[c].d
          /\ call'[c].before = call[c].before
      BY <2>1, <3>1 DEF Moves, TransitionCall, WriteNodeCall
    <3>3. ASSUME call[c].op = "transition", call[c].d \in Dependents, Reviewed(call[c].d)',
                 call[c].before.life = "accepted"
          PROVE  seen'[call[c].d] = Contracts'
      <4> DEFINE d == call[c].d
      <4>1. d \notin excused' /\ Contracted \cap excused' = {}
        BY <3>2, <3>3 DEF Reviewed
      <4>2. d \notin excused /\ Reviewed(d) /\ Current(d)
        BY <1>1, <3>3, <4>1 DEF Reviewed, ReviewInv
      <4>3. node[d].life = "accepted"
        BY <1>1, <2>1, <3>3, <4>2 DEF FreshMove
      <4>4. \A b \in Calls : ~Dropping(call[b], d)
        <5> SUFFICES ASSUME NEW b \in Calls, Dropping(call[b], d) PROVE FALSE
          OBVIOUS
        <5>1. b # c
          BY <3>3 DEF Dropping
        <5> QED BY <1>1, <2>1, <3>3, <4>2, <5>1, DroppingIsAtWork DEF Base, Exclusive
      <4>5. seen[d] = Contracts
        BY <4>2, <4>3, <4>4 DEF Current
      <4>6. call[c].to # "accepted"
        BY <2>1, <3>3 DEF Moves, MovesItsOwn
      <4>7. Contracts' = Contracts
        BY <1>1, <2>1, <4>1, ContractsKept DEF PutEdit
      <4> QED BY <2>3, <4>5, <4>6, <4>7
    <3> QED BY <3>2, <3>3 DEF FreshReview, Reviewed
  <2> QED BY <1>1, <1>5, <2>2, <2>3 DEF PutNode, Return
<1>6. ASSUME PutAudit(c)
      PROVE  FreshReview(call[c])'
  <2>1. Moves(call[c]) /\ call[c].at = "put_audit" /\ UNCHANGED <<node, seen>>
    BY <1>1, <1>6, MovingCalls DEF PutAudit, Fault, disk
  <2>2. CASE call'[c] = Idle \/ call'[c] = [call[c] EXCEPT !.at = "drop"]
    <3>1. [call[c] EXCEPT !.at = "drop"].at = "drop"
      BY <2>1 DEF Moves, TransitionCall, WriteNodeCall
    <3> QED BY <1>2, <2>2, <3>1, IdleCall
  <2>3. CASE call'[c] = [call[c] EXCEPT !.at = "roll_back"]
    <3>1. call'[c].at = "roll_back" /\ call'[c].op = call[c].op /\ call'[c].d = call[c].d
          /\ call'[c].before = call[c].before
      BY <2>1, <2>3 DEF Moves, TransitionCall, WriteNodeCall
    <3>2. Contracts' = Contracts /\ (Reviewed(call[c].d)' => Reviewed(call[c].d))
      BY <1>1, <2>1, <3>1 DEF Contracts, Reviewed
    <3> QED BY <1>1, <2>1, <3>1, <3>2 DEF FreshReview, Reviewed
  <2> QED BY <1>1, <1>6, <2>2, <2>3 DEF PutAudit, Goto, Return
<1>7. ASSUME RollBack(c)
      PROVE  FreshReview(call[c])'
  BY <1>1, <1>2, <1>7, RollBackIsNodeStep, IdleCall
<1>8. ASSUME NEW n \in Nodes, NEW contract \in 0 .. MaxContract, WriteNode(c, n, contract)
      PROVE  FreshReview(call[c])'
  <2>1. call'[c].at = "put_edit"
    BY <1>1, <1>8 DEF WriteNode, Begin
  <2> QED BY <1>2, <2>1
<1>9. ASSUME NEW d \in Dependents, Drop(c, d)
      PROVE  FreshReview(call[c])'
  <2>1. call[c] \in WriteNodeCall /\ (call'[c] = Idle \/ call'[c] = Dropped(call[c], d))
    BY <1>1, <1>9, DropIsNodeStep
  <2>2. Dropped(call[c], d).op = "write-node" /\ Idle.op = "none"
    BY <2>1 DEF Dropped, WriteNodeCall, Idle
  <2> QED BY <2>1, <2>2 DEF FreshReview
<1>10. ASSUME PutEdit(c)
       PROVE  FreshReview(call[c])'
  <2>1. call[c] \in WriteNodeCall
    BY <1>1, <1>10, EditingCalls DEF PutEdit
  <2>2. [call[c] EXCEPT !.at = "drop"].at = "drop"
    BY <2>1 DEF WriteNodeCall
  <2>3. call'[c] = Idle \/ call'[c] = [call[c] EXCEPT !.at = "drop"]
    BY <1>1, <1>10 DEF PutEdit, Goto, Return
  <2> QED BY <1>2, <2>2, <2>3, IdleCall
<1>11. ASSUME EdgeAction(c) \/ RowAction(c) \/ RunAction(c)
       PROVE  FreshReview(call[c])'
  <2>1. call'[c].at \notin MoveStages
    BY <1>1, <1>11, EdgeActionSteps, RowActionSteps, RunActionSteps
       DEF EdgeStep, RowStep, RunStep, Within, EdgeStages, RowStages
  <2> QED BY <1>2, <2>1
<1> QED BY <1>3, <1>4, <1>5, <1>6, <1>7, <1>8, <1>9, <1>10, <1>11 DEF Acts, NodeAction

(* A step that leaves a dependent and the contracts alone leaves its review alone. *)
LEMMA CurrentStays ==
  ASSUME NEW c \in Calls, Others(c), excused \subseteq excused', NEW d \in Dependents, Current(d),
         Reviewed(d)', node[d].life = "accepted", seen'[d] = seen[d], Contracts' = Contracts,
         Dropping(call[c], d) => Dropping(call'[c], d)
  PROVE  Current(d)'
<1>1. Reviewed(d)
  BY DEF Reviewed
<1>2. seen[d] = Contracts \/ \E b \in Calls : Dropping(call[b], d)
  BY <1>1 DEF Current
<1>3. CASE seen[d] = Contracts
  BY <1>3 DEF Current
<1>4. ASSUME NEW b \in Calls, Dropping(call[b], d)
      PROVE  Current(d)'
  <2>1. Dropping(call'[b], d)
    BY <1>4 DEF Others
  <2> QED BY <2>1 DEF Current, Dropping
<1> QED BY <1>2, <1>3, <1>4

(* An edit that changes a contract sets out to drop every accepted dependent. *)
LEMMA PutEditCurrent ==
  ASSUME ReviewInv, NEW c \in Calls, PutEdit(c), call[c].n \in Contracted, NEW d \in Dependents
  PROVE  Current(d)'
<1>1. Acts(c)
  BY DEF Acts, NodeAction
<1>2. Base /\ Typed /\ Others(c) /\ excused \subseteq excused' /\ Current(d) /\ FreshCascade(call[c])
      /\ call \in [Calls -> CallType] /\ node \in [Nodes -> NodeType]
  BY <1>1, ActsStep DEF ReviewInv, EditInv, MoveInv, Typed, CallTypes, DiskTypes
<1>3. call[c].at = "put_edit" /\ call[c] \in WriteNodeCall /\ call[c].new \in NodeType
      /\ call[c].n \in Nodes /\ d \in Nodes /\ d # call[c].n /\ seen' = seen
  BY <1>2, EditingCalls, IdsDiffer DEF PutEdit, Nodes, Contracted
<1>4. node'[d] = node[d]
  BY <1>2, <1>3 DEF PutEdit, Fault, disk
<1> SUFFICES ASSUME Reviewed(d)', node[d].life = "accepted" PROVE Current(d)'
  BY <1>4 DEF Current
<1>5. d \notin excused /\ call[c].n \notin excused /\ ~Dropping(call[c], d)
  BY <1>2, <1>3 DEF Reviewed, Dropping
<1>6. CASE Contracts' = Contracts
  BY <1>2, <1>3, <1>5, <1>6, CurrentStays
<1>7. ASSUME Contracts' # Contracts
      PROVE  Current(d)'
  <2>1. node' # node
    BY <1>7 DEF Contracts
  <2>2. node' = [node EXCEPT ![call[c].n] = call[c].new]
        /\ IF call[c].left = {} THEN Return(c, {}) ELSE Goto(c, [call[c] EXCEPT !.at = "drop"])
    BY <2>1 DEF PutEdit, Fault, disk
  <2>3. call[c].new.contract # node[call[c].n].contract
    <3>1. ASSUME call[c].new.contract = node[call[c].n].contract, NEW n \in Contracted
          PROVE  node'[n].contract = node[n].contract
      <4>1. n \in Nodes
        BY DEF Nodes, Contracted
      <4> QED BY <1>2, <1>3, <2>2, <3>1, <4>1
    <3> QED BY <1>7, <3>1 DEF Contracts
  <2>4. d \in call[c].left
    BY <1>2, <1>3, <1>5, <2>3 DEF FreshCascade
  <2>5. call'[c] = [call[c] EXCEPT !.at = "drop"]
    BY <1>2, <2>2, <2>4 DEF Goto
  <2>6. call'[c].at = "drop" /\ call'[c].op = "write-node" /\ call'[c].n = call[c].n
        /\ call'[c].left = call[c].left
    BY <1>3, <2>5 DEF WriteNodeCall
  <2>7. Dropping(call'[c], d)
    BY <2>4, <2>6 DEF Dropping
  <2> QED BY <2>7 DEF Current, Dropping
<1> QED BY <1>6, <1>7

(* A node is moved on to `accepted` by a review, and a drop carried out is one *)
(* that no longer has to be.                                                   *)
LEMMA PutNodeCurrent ==
  ASSUME ReviewInv, NEW c \in Calls, PutNode(c), NEW d \in Dependents, Reviewed(d)',
         node'[d].life = "accepted", Contracts' = Contracts
  PROVE  Current(d)'
<1>1. Acts(c)
  BY DEF Acts, NodeAction
<1>2. Base /\ Typed /\ Others(c) /\ excused \subseteq excused' /\ Current(d) /\ FreshReview(call[c])
      /\ call \in [Calls -> CallType] /\ node \in [Nodes -> NodeType]
      /\ seen \in [Dependents -> [Contracted -> Nat]] /\ d \in Nodes
  BY <1>1, ActsStep DEF ReviewInv, EditInv, MoveInv, Typed, CallTypes, DiskTypes, Nodes
<1>3. call[c].at = "put_node" /\ Moves(call[c]) /\ call[c].d \in Nodes /\ call[c].before \in NodeType
  BY <1>2, MovingCalls DEF PutNode
<1>4. CASE /\ node' = [node EXCEPT ![call[c].d] = After(call[c].before, call[c].to)]
           /\ seen' = IF call[c].to = "accepted" /\ call[c].d \in Dependents
                      THEN [seen EXCEPT ![call[c].d] = call[c].contracts] ELSE seen
           /\ Goto(c, [call[c] EXCEPT !.at = "put_audit"])
  <2>1. CASE d = call[c].d
    <3>1. node'[d] = After(call[c].before, call[c].to)
      BY <1>2, <1>4, <2>1
    <3>2. call[c].to = "accepted"
      BY <1>3, <3>1 DEF After, NodeType
    <3>3. call[c] \in TransitionCall /\ call[c].op = "transition"
      BY <1>3, <3>2 DEF Moves, TransitionCall, WriteNodeCall
    <3>4. call[c].contracts = Contracts
      BY <1>2, <1>3, <2>1, <3>3 DEF FreshReview, Reviewed
    <3>5. seen'[d] = call[c].contracts
      BY <1>2, <1>4, <2>1, <3>2
    <3> QED BY <3>4, <3>5 DEF Current
  <2>2. CASE d # call[c].d
    <3>1. node'[d] = node[d] /\ seen'[d] = seen[d]
      BY <1>2, <1>4, <2>2
    <3>2. call'[c] = [call[c] EXCEPT !.at = "put_audit"]
      BY <1>2, <1>4 DEF Goto
    <3>3. call'[c].at = "put_audit" /\ call'[c].op = call[c].op /\ call'[c].n = call[c].n
          /\ call'[c].left = call[c].left
      BY <1>3, <3>2 DEF Moves, TransitionCall, WriteNodeCall
    <3>4. Dropping(call[c], d) => Dropping(call'[c], d)
      BY <2>2, <3>3 DEF Dropping
    <3> QED BY <1>2, <3>1, <3>4, CurrentStays
  <2> QED BY <2>1, <2>2
<1>5. CASE Fault /\ UNCHANGED seen
           /\ Return(c, call[c].left \cup (IF call[c].op = "write-node" THEN {call[c].d} ELSE {}))
  <2>1. node' = node
    BY <1>5 DEF Fault, disk
  <2>2. ~Dropping(call[c], d)
    <3>1. d \notin excused'
      BY DEF Reviewed
    <3> QED BY <1>5, <3>1 DEF Return, Dropping
  <2> QED BY <1>2, <1>5, <2>1, <2>2, CurrentStays
<1> QED BY <1>4, <1>5 DEF PutNode

(* What a roll-back puts back was accepted against the contracts that stand. *)
LEMMA RollBackCurrent ==
  ASSUME ReviewInv, NEW c \in Calls, RollBack(c), NEW d \in Dependents, Reviewed(d)',
         node'[d].life = "accepted", Contracts' = Contracts
  PROVE  Current(d)'
<1>1. Acts(c)
  BY DEF Acts, NodeAction
<1>2. Base /\ Typed /\ Others(c) /\ excused \subseteq excused' /\ Current(d) /\ FreshReview(call[c])
      /\ node \in [Nodes -> NodeType] /\ d \in Nodes
  BY <1>1, ActsStep DEF ReviewInv, EditInv, MoveInv, Typed, DiskTypes, Nodes
<1>3. call[c].at = "roll_back" /\ Moves(call[c]) /\ call[c].d \in Nodes /\ seen' = seen
  BY <1>2, MovingCalls DEF RollBack
<1>4. d \notin excused' /\ call[c].left \subseteq excused'
      /\ (call[c].op = "write-node" => call[c].d \in excused')
  BY DEF RollBack, Return, Reviewed
<1>5. ~Dropping(call[c], d)
  BY <1>3, <1>4 DEF Dropping
<1>6. CASE node'[d] = node[d]
  BY <1>2, <1>3, <1>5, <1>6, CurrentStays
<1>7. CASE node'[d] # node[d]
  <2>1. node' = [node EXCEPT ![call[c].d] = call[c].before]
    BY <1>7 DEF RollBack, Fault, disk
  <2>2. d = call[c].d /\ node'[d] = call[c].before
    BY <1>2, <1>3, <1>7, <2>1
  <2>3. call[c].op = "transition"
    BY <1>3, <1>4, <2>2 DEF Moves, TransitionCall, WriteNodeCall
  <2>4. seen[d] = Contracts
    BY <1>2, <1>3, <2>2, <2>3 DEF FreshReview, Reviewed
  <2> QED BY <1>3, <2>4 DEF Current
<1> QED BY <1>6, <1>7

LEMMA StepCurrent ==
  ASSUME ReviewInv, NEW c \in Calls, Acts(c), NEW d \in Dependents
  PROVE  Current(d)'
<1>1. EditInv /\ Base /\ Typed /\ Others(c) /\ Steps(c) /\ excused \subseteq excused' /\ Current(d)
      /\ call \in [Calls -> CallType] /\ d \in Nodes /\ node[d] \in NodeType
  BY ActsStep DEF ReviewInv, EditInv, MoveInv, Typed, CallTypes, DiskTypes, Nodes
<1>2. CASE PutEdit(c) /\ call[c].n \in Contracted
  BY <1>2, PutEditCurrent
<1> SUFFICES ASSUME ~(PutEdit(c) /\ call[c].n \in Contracted), Reviewed(d)', node'[d].life = "accepted"
             PROVE  Current(d)'
  BY <1>2 DEF Current
<1>3. Contracts' = Contracts /\ d \notin excused'
  BY <1>1, ContractsKept DEF Reviewed
<1>4. node'[d] = node[d] \/ Edited(c, d) \/ Refreshed(c, d) \/ MovedOn(c, d) \/ PutBack(c, d)
  BY <1>1, <1>3, NodeWrites DEF Acts
<1>5. CASE PutNode(c)
  BY <1>3, <1>5, PutNodeCurrent
<1>6. CASE RollBack(c)
  BY <1>3, <1>6, RollBackCurrent
<1>7. CASE ~PutNode(c) /\ ~RollBack(c)
  <2>1. node[d].life = "accepted"
    BY <1>1, <1>4, <1>7 DEF Edited, Refreshed, MovedOn, PutBack, NodeType
  <2>2. ASSUME seen' = seen, Dropping(call[c], d) => Dropping(call'[c], d)
        PROVE  Current(d)'
    BY <1>1, <1>3, <2>1, <2>2, CurrentStays
  <2>3. ASSUME seen' = seen, call[c].at \notin MoveStages \cup {"drop"}
        PROVE  Current(d)'
    BY <2>2, <2>3 DEF Dropping
  <2>4. ASSUME PutAudit(c)
        PROVE  Current(d)'
    <3>1. call[c].at = "put_audit" /\ Moves(call[c]) /\ seen' = seen
      BY <1>1, <2>4, MovingCalls DEF PutAudit
    <3>2. CASE call[c].left = {}
      BY <2>2, <3>1, <3>2 DEF Dropping
    <3>3. ASSUME NEW at \in {"roll_back", "drop"}, call'[c] = [call[c] EXCEPT !.at = at]
          PROVE  Dropping(call[c], d) => Dropping(call'[c], d)
      <4>1. call'[c].at = at /\ call'[c].op = call[c].op /\ call'[c].n = call[c].n
            /\ call'[c].left = call[c].left
        BY <3>1, <3>3 DEF Moves, TransitionCall, WriteNodeCall
      <4> QED BY <3>1, <4>1 DEF Dropping
    <3>4. CASE call[c].left # {}
      <4>1. call'[c] = [call[c] EXCEPT !.at = "roll_back"] \/ call'[c] = [call[c] EXCEPT !.at = "drop"]
        BY <1>1, <2>4, <3>4 DEF PutAudit, Goto
      <4> QED BY <2>2, <3>1, <3>3, <4>1
    <3> QED BY <3>2, <3>4
  <2>5. ASSUME ReadAudit(c)
        PROVE  Current(d)'
    <3>1. call'[c] = [call[c] EXCEPT !.at = "put_node", !.rows = audit[call[c].d]] /\ Moves(call[c])
          /\ seen' = seen /\ call[c].at = "read_audit"
      BY <1>1, <2>5, ReadAuditIsNodeStep, MovingCalls DEF ReadAudit
    <3>2. call'[c].at = "put_node" /\ call'[c].op = call[c].op /\ call'[c].n = call[c].n
          /\ call'[c].left = call[c].left /\ call'[c].d = call[c].d
      BY <3>1 DEF Moves, TransitionCall, WriteNodeCall
    <3> QED BY <2>2, <3>1, <3>2 DEF Dropping
  <2>6. ASSUME NEW x \in Dependents, Drop(c, x)
        PROVE  Current(d)'
    <3>1. call[c] \in WriteNodeCall /\ call[c].at = "drop" /\ seen' = seen
          /\ \/ call'[c] = Dropped(call[c], x)
             \/ call'[c] = Idle /\ excused' = excused \cup call[c].left
      BY <1>1, <2>6, DropIsNodeStep DEF Drop
    <3>2. CASE call'[c] = Dropped(call[c], x)
      <4>1. call'[c].at = "read_audit" /\ call'[c].op = call[c].op /\ call'[c].n = call[c].n
            /\ call'[c].left = call[c].left \ {x} /\ call'[c].d = x
        BY <3>1, <3>2 DEF Dropped, WriteNodeCall
      <4>2. Dropping(call[c], d) => Dropping(call'[c], d)
        BY <3>1, <4>1 DEF Dropping
      <4> QED BY <2>2, <3>1, <4>2
    <3>3. CASE excused' = excused \cup call[c].left
      <4>1. ~Dropping(call[c], d)
        BY <1>3, <3>1, <3>3 DEF Dropping
      <4> QED BY <2>2, <3>1, <4>1
    <3> QED BY <3>1, <3>2, <3>3
  <2>7. ASSUME \E n \in Moved, to \in Lifecycles, actor \in {"human", "agent"} : Transition(c, n, to, actor)
        PROVE  Current(d)'
    <3>1. seen' = seen /\ call[c].at = "idle"
      BY <2>7 DEF Transition, Ready, Refuse
    <3> QED BY <2>3, <3>1
  <2>8. ASSUME \E n \in Nodes, contract \in 0 .. MaxContract : WriteNode(c, n, contract)
        PROVE  Current(d)'
    <3>1. seen' = seen /\ call[c].at = "idle"
      BY <2>8 DEF WriteNode, Ready
    <3> QED BY <2>3, <3>1
  <2>9. ASSUME PutEdit(c)
        PROVE  Current(d)'
    <3>1. seen' = seen /\ call[c].at = "put_edit"
      BY <2>9 DEF PutEdit
    <3> QED BY <2>3, <3>1
  <2>10. ASSUME EdgeAction(c) \/ RowAction(c) \/ RunAction(c)
         PROVE  Current(d)'
    <3>1. seen' = seen /\ call[c].at \notin MoveStages \cup {"drop"}
      BY <1>1, <2>10, EdgeActionSteps, RowActionSteps, RunActionSteps
         DEF EdgeStep, RowStep, RunStep, Within, EdgeStages, RowStages
    <3> QED BY <2>3, <3>1
  <2> QED BY <1>7, <2>4, <2>5, <2>6, <2>7, <2>8, <2>9, <2>10 DEF Acts, NodeAction
<1> QED BY <1>5, <1>6, <1>7

LEMMA NextReviewInv == ReviewInv /\ [Next]_vars => ReviewInv'
<1> SUFFICES ASSUME ReviewInv, [Next]_vars PROVE ReviewInv'
  OBVIOUS
<1>1. EditInv' /\ EditInv /\ Base /\ Typed
  BY NextEditInv DEF ReviewInv, EditInv, MoveInv, Base
<1>2. CASE Rests
  <2>1. UNCHANGED <<node, edge, seen, call, excused>>
    BY <1>2 DEF Rests, disk
  <2>2. Contracts' = Contracts
    BY <2>1 DEF Contracts
  <2>3. ASSUME NEW d \in Dependents
        PROVE  DrawnLive(d)' /\ Current(d)'
    BY <2>1, <2>2 DEF ReviewInv, DrawnLive, Current, Reviewed, Dropping
  <2>4. ASSUME NEW c \in Calls
        PROVE  FreshCascade(call[c])' /\ FreshReview(call[c])'
    BY <2>1, <2>2 DEF ReviewInv, FreshCascade, FreshReview, Reviewed
  <2> QED BY <1>1, <2>3, <2>4 DEF ReviewInv
<1>3. CASE Exits
  <2>1. UNCHANGED <<node, edge, seen>> /\ excused \subseteq excused' /\ (\A c \in Calls : call'[c] = Idle)
        /\ \A c \in Calls : Subject(call[c]) \subseteq excused'
    BY <1>3 DEF Exits, disk
  <2>2. Contracts' = Contracts
    BY <2>1 DEF Contracts
  <2>3. ASSUME NEW d \in Dependents
        PROVE  DrawnLive(d)' /\ Current(d)'
    <3>1. Current(d) /\ DrawnLive(d)
      BY DEF ReviewInv
    <3>2. ASSUME Reviewed(d)', node[d].life = "accepted"
          PROVE  seen[d] = Contracts
      <4>1. Reviewed(d) /\ d \notin excused'
        BY <2>1, <3>2 DEF Reviewed
      <4>2. \A c \in Calls : ~Dropping(call[c], d)
        BY <1>1, <2>1, <4>1, DroppingIsAtWork
      <4> QED BY <3>1, <3>2, <4>1, <4>2 DEF Current
    <3> QED BY <2>1, <2>2, <3>1, <3>2 DEF Current, DrawnLive
  <2>4. ASSUME NEW c \in Calls
        PROVE  FreshCascade(call[c])' /\ FreshReview(call[c])'
    <3>1. call'[c].at = "idle" /\ call'[c].op = "none"
      BY <2>1 DEF Idle
    <3> QED BY <3>1 DEF FreshCascade, FreshReview
  <2> QED BY <1>1, <2>3, <2>4 DEF ReviewInv
<1>4. ASSUME NEW c \in Calls, Acts(c)
      PROVE  ReviewInv'
  <2>1. \A b \in Calls \ {c} : FreshCascade(call[b])' /\ FreshReview(call[b])'
    BY <1>1, <1>4, OtherCascade, OtherReview DEF ReviewInv
  <2>2. FreshCascade(call[c])' /\ FreshReview(call[c])'
    BY <1>1, <1>4, OwnCascade, OwnReview DEF ReviewInv
  <2>3. \A d \in Dependents : DrawnLive(d)' /\ Current(d)'
    BY <1>1, <1>4, StepDrawnLive, StepCurrent DEF ReviewInv
  <2> QED BY <1>1, <2>1, <2>2, <2>3 DEF ReviewInv
<1> QED BY <1>1, <1>2, <1>3, <1>4, NextSplits DEF Acts

LEMMA InitReviewInv == Init => ReviewInv
<1> SUFFICES ASSUME Init PROVE ReviewInv
  OBVIOUS
<1>1. \A c \in Calls : call[c].at = "idle" /\ call[c].op = "none"
  BY DEF Init, Idle
<1>2. \A c \in Calls : FreshCascade(call[c]) /\ FreshReview(call[c])
  BY <1>1 DEF FreshCascade, FreshReview
<1>3. ASSUME NEW d \in Dependents
      PROVE  edge[<<"depends_on", d>>] = "live" /\ seen[d] = Contracts
  <2>1. seen[d] = [k \in Contracted |-> 0]
    BY DEF Init
  <2>2. \A n \in Contracted : node[n].contract = 0
    BY DEF Init, Nodes, Contracted
  <2>3. Contracts = [k \in Contracted |-> 0]
    BY <2>2 DEF Contracts
  <2>4. edge[<<"depends_on", d>>] = "live"
    BY DEF Init, EdgeKinds
  <2> QED BY <2>1, <2>3, <2>4
<1> QED BY <1>2, <1>3, InitEditInv DEF ReviewInv, DrawnLive, Current

(* ReviewsAlwaysCurrent: once nothing is at work on it, an accepted dependent   *)
(* has been accepted against the contracts that now stand, since a change of    *)
(* one of them went on to make every accepted dependent stale                   *)
(* (apply_stale_cascade): also a change that an older copy puts back.  Only     *)
(* where such a copy put back a lifecycle, a mark or a cache is it out of this. *)
THEOREM ReviewsAlwaysCurrent == Spec => []ReviewsCurrent
<1>1. ReviewInv => ReviewsCurrent
  <2> SUFFICES ASSUME ReviewInv, NEW d \in Dependents, node[d].life = "accepted",
                      \A n \in Contracted \cup {d} : Settled(n)
               PROVE  seen[d] = Contracts
    BY DEF ReviewsCurrent, Contracts
  <2>1. Typed /\ Current(d) /\ Reviewed(d) /\ ~InFlight(d)
    BY DEF ReviewInv, EditInv, MoveInv, Base, Settled, Reviewed
  <2>2. \A c \in Calls : ~Dropping(call[c], d)
    BY <2>1, DroppingIsAtWork DEF InFlight
  <2> QED BY <2>1, <2>2 DEF Current
<1> QED BY <1>1, InitReviewInv, NextReviewInv, PTL DEF Spec

=============================================================================
