----------------------------- MODULE DesignStore -----------------------------
(* The calls that write a design's .kaava/ tree (apps/schematify.rs over        *)
(* schematify-core's store, lifecycle and ingest). Calls run on worker threads  *)
(* with no lock between them; each file is replaced by one atomic rename, and   *)
(* a call is a sequence of reads and such writes, any of which may fail.        *)
EXTENDS Naturals, Sequences, FiniteSets, Functions, SequencesExt

CONSTANTS
    Calls,          \* worker threads a call may be running on
    Owner, Method,  \* a service, and the contract-method that is its child
    Dependents,     \* modules with a depends_on edge into Owner
    Rows,           \* ids a decision row may carry
    Runs,           \* run numbers
    MaxCalls,       \* bound: calls made
    MaxFaults,      \* bound: failed writes and exits of the process
    MaxContract,    \* bound: a contract's fields hold one of so many things, and one more
    Moved,          \* bound: the nodes whose lifecycle the calls move
    Sessions,       \* sets of calls: one run of the program makes those of one set
    None            \* no file, or no id

VARIABLES node, audit, edge, row, run, call, view, seen, excused, calls, faults, reply, session
vars == <<node, audit, edge, row, run, call, view, seen, excused, calls, faults, reply, session>>

disk == <<node, audit, edge, row, run>>

Nodes == {Owner, Method} \cup Dependents
Contracted == {Owner, Method}
EdgeKinds == {"depends_on", "references_ui"}
Files == Nodes \cup Rows \cup Runs

ASSUME CallsNamed ==
    UNION Sessions \subseteq {"write-node", "transition", "write-edge", "decision", "ingest-run"}
ASSUME BoundsAreNumbers == {MaxCalls, MaxFaults, MaxContract} \subseteq Nat
ASSUME IdsDiffer == /\ Moved \subseteq Nodes /\ Owner # Method /\ {Owner, Method} \cap Dependents = {}
                    /\ Nodes \cap Rows = {} /\ Nodes \cap Runs = {} /\ Rows \cap Runs = {}

-----------------------------------------------------------------------------
(* The lifecycle table (lifecycle.rs).                                        *)

Lifecycles == {"draft", "specified", "assigned", "implemented", "reviewed",
               "accepted", "stale", "deprecated"}

TRANSITIONS ==
    { <<"draft", "specified", "human">>,       <<"specified", "assigned", "human">>,
      <<"assigned", "implemented", "agent">>,  <<"assigned", "specified", "human">>,
      <<"implemented", "reviewed", "human">>,  <<"implemented", "specified", "human">>,
      <<"reviewed", "accepted", "human">>,     <<"reviewed", "specified", "human">>,
      <<"accepted", "stale", "system">>,       <<"stale", "accepted", "human">>,
      <<"stale", "specified", "human">> }

\* check_transition: the explicit row, else the `any` row to deprecated
Allowed(from, to, actor) ==
    /\ from # to
    /\ \/ <<from, to, actor>> \in TRANSITIONS
       \/ to = "deprecated" /\ actor = "human"

LiveEdge_Any(k, d) == edge[<<k, d>>] # None

\* a dependency or reference counts while it is live
LiveEdge(k, d) == edge[<<k, d>>] = "live"

StaleCascade_NoOwner(changed, before) ==
    {d \in Dependents : /\ Owner = changed
                        /\ before.edge[<<"depends_on", d>>] = "live"
                        /\ before.node[d].life = "accepted"}

\* stale_cascade: the accepted nodes that depend on the changed node or, when it
\* is a facet, on the module that holds it
StaleCascade(changed, before) ==
    LET owners == {changed} \cup (IF changed = Method THEN {Owner} ELSE {})
    IN  {d \in Dependents : /\ Owner \in owners
                            /\ before.edge[<<"depends_on", d>>] = "live"
                            /\ before.node[d].life = "accepted"}

-----------------------------------------------------------------------------
(* Calls in flight.                                                           *)

Idle == [at |-> "idle", op |-> "none"]

\* the files a call in flight reads in order to write
Subject(s) ==
    CASE s.op = "none" -> {}
      [] s.op = "write-node" ->
            {s.n} \cup (IF s.n \in Contracted THEN Dependents ELSE {})
      [] s.op \in {"transition", "write-edge"} -> {s.n}
      [] s.op = "decision" -> {s.prior, s.successor} \ {None}
      [] s.op = "ingest-run" -> {s.r}

InFlight(f) == \E c \in Calls : f \in Subject(call[c])

\* a call takes its first reads; what another call is at work on is excused, and
\* what it undoes
Begin(c, undone, s) ==
    /\ call' = [call EXCEPT ![c] = s]
    /\ excused' = excused \cup undone \cup {f \in Subject(s) : InFlight(f)}
    /\ calls' = calls + 1
    /\ reply' = None /\ UNCHANGED session

Refuse(c) ==
    /\ calls' = calls + 1
    /\ reply' = None /\ UNCHANGED session
    /\ UNCHANGED <<disk, call, view, seen, excused, faults>>

Ready(c, op) == op \in session /\ call[c].at = "idle" /\ calls < MaxCalls

\* the call returns; Lost are the files an error it answered with is about
Return(c, lost) ==
    /\ call' = [call EXCEPT ![c] = Idle]
    /\ excused' = excused \cup lost

Goto(c, s) == call' = [call EXCEPT ![c] = s] /\ UNCHANGED excused

\* a write that fails leaves its target as it was (write_json_atomic)
Fault == faults < MaxFaults /\ faults' = faults + 1 /\ UNCHANGED disk

-----------------------------------------------------------------------------
(* Store::write_transition: node and audit, with the node put back when the   *)
(* audit cannot be written. `left` are the drops of a cascade still to do.    *)

ReadNode(s, c, d, claim, to, actor) ==
    IF claim = node[d].life /\ Allowed(node[d].life, to, actor)
    THEN Goto(c, [s EXCEPT !.at = "read_audit", !.d = d, !.before = node[d], !.to = to, !.actor = actor])
    ELSE Return(c, s.left \cup (IF s.op = "write-node" THEN {d} ELSE {}))

After_KeepsMark(before, to) == [before EXCEPT !.life = to, !.stale = @ \/ to = "stale"]

After(before, to) == [before EXCEPT !.life = to, !.stale = (to = "stale")]

ReadAudit(c) ==
    LET s == call[c] IN
    /\ s.at = "read_audit"
    /\ Goto(c, [s EXCEPT !.at = "put_node", !.rows = audit[s.d]])
    /\ UNCHANGED <<disk, view, seen, calls, faults, reply, session>>

\* the contracts an acceptance was made against
PutNode(c) ==
    LET s == call[c] IN
    /\ s.at = "put_node"
    /\ \/ /\ node' = [node EXCEPT ![s.d] = After(s.before, s.to)]
          /\ seen' = IF s.to = "accepted" /\ s.d \in Dependents
                     THEN [seen EXCEPT ![s.d] = s.contracts] ELSE seen
          /\ Goto(c, [s EXCEPT !.at = "put_audit"])
          /\ UNCHANGED <<audit, edge, row, run, faults>>
       \/ /\ Fault
          /\ Return(c, s.left \cup (IF s.op = "write-node" THEN {s.d} ELSE {}))
          /\ UNCHANGED seen
    /\ UNCHANGED <<view, calls, reply, session>>

AuditRow(s) == [from |-> s.before.life, to |-> s.to, actor |-> s.actor]

PutAudit(c) ==
    LET s == call[c] IN
    /\ s.at = "put_audit"
    /\ \/ /\ audit' = [audit EXCEPT ![s.d] = Append(s.rows, AuditRow(s))]
          /\ IF s.left = {} THEN Return(c, {}) ELSE Goto(c, [s EXCEPT !.at = "drop"])
          /\ UNCHANGED <<node, edge, row, run, faults>>
       \/ Fault /\ Goto(c, [s EXCEPT !.at = "roll_back"])
    /\ UNCHANGED <<view, seen, calls, reply, session>>

\* a failed roll-back is TransitionTornWrite: the node is ahead of its history
RollBack(c) ==
    LET s == call[c]
        lost == s.left \cup (IF s.op = "write-node" THEN {s.d} ELSE {})
    IN
    /\ s.at = "roll_back"
    /\ \/ /\ node' = [node EXCEPT ![s.d] = s.before]
          /\ Return(c, lost)
          /\ UNCHANGED <<audit, edge, row, run, faults>>
       \/ Fault /\ Return(c, lost \cup {s.d})
    /\ UNCHANGED <<view, seen, calls, reply, session>>

\* schematify/transition: only human and agent are admitted as actors, and the
\* caller's copy is no more than a claim of where the move starts
Transition(c, n, to, actor) ==
    LET s == [op |-> "transition", at |-> "read_audit", n |-> n, d |-> n, to |-> to,
              actor |-> actor, before |-> node[n], rows |-> <<>>, left |-> {},
              contracts |-> [k \in Contracted |-> node[k].contract]]
    IN
    /\ Ready(c, "transition")
    /\ actor \in {"human", "agent"}
    /\ IF view[n].life = node[n].life /\ Allowed(node[n].life, to, actor)
       THEN Begin(c, {}, s) /\ UNCHANGED <<disk, view, seen, faults>>
       ELSE Refuse(c)

-----------------------------------------------------------------------------
(* schematify/write-node and the staleness cascade.                           *)

\* contract_fields_changed: only a contract-method or a service has a contract
ContractChanged(before, n, new) == n \in Contracted /\ before.node[n].contract # new.contract

\* a copy that would put back what others have written to its file since: a
\* lifecycle, a mark, a cache.  A contract put back is a change like any other.
Undoes(n) == view[n] # [node[n] EXCEPT !.contract = view[n].contract]

\* the caller edits the copy it loaded, however old, and sends the whole node back
WriteNode(c, n, contract) ==
    LET new == [view[n] EXCEPT !.contract = contract]
        before == [node |-> node, edge |-> edge]
        drops == IF ContractChanged(before, n, new) THEN StaleCascade(n, before) ELSE {}
    IN
    /\ Ready(c, "write-node")
    /\ n \in Contracted \/ contract = view[n].contract
    /\ Begin(c, IF Undoes(n) THEN {n} ELSE {},
                [op |-> "write-node", at |-> "put_edit", n |-> n, new |-> new, left |-> drops,
                 d |-> n, before |-> node[n], to |-> "stale", actor |-> "system", rows |-> <<>>,
                 contracts |-> <<>>])
    /\ UNCHANGED <<disk, view, seen, faults>>

PutEdit(c) ==
    LET s == call[c] IN
    /\ s.at = "put_edit"
    /\ \/ /\ node' = [node EXCEPT ![s.n] = s.new]
          /\ IF s.left = {} THEN Return(c, {}) ELSE Goto(c, [s EXCEPT !.at = "drop"])
          /\ UNCHANGED <<audit, edge, row, run, faults>>
       \/ Fault /\ Return(c, {})
    /\ UNCHANGED <<view, seen, calls, reply, session>>

\* apply_stale_cascade: the next dependent, claimed accepted by the graph that
\* was loaded before the edit
Drop(c, d) ==
    LET s == call[c] IN
    /\ s.at = "drop"
    /\ d \in s.left
    /\ ReadNode([s EXCEPT !.left = @ \ {d}], c, d, "accepted", "stale", "system")
    /\ UNCHANGED <<disk, view, seen, calls, faults, reply, session>>

-----------------------------------------------------------------------------
(* schematify/write-edge and sync_ui_refs.                                    *)

WriteEdge(c, k, d, to) ==
    /\ Ready(c, "write-edge")
    /\ Begin(c, {}, [op |-> "write-edge", at |-> "put_edge", n |-> d, kind |-> k, to |-> to])
    /\ UNCHANGED <<disk, view, seen, faults>>

\* a redrawn dependency leaves reviews made under the old one behind
PutEdge(c) ==
    LET s == call[c] IN
    /\ s.at = "put_edge"
    /\ \/ /\ edge' = [edge EXCEPT ![<<s.kind, s.n>>] = s.to]
          /\ IF s.kind = "references_ui"
             THEN Goto(c, [s EXCEPT !.at = "derive"])
             ELSE Return(c, {s.n})
          /\ UNCHANGED <<node, audit, row, run, faults>>
       \/ Fault /\ Return(c, {})
    /\ UNCHANGED <<view, seen, calls, reply, session>>

\* the module's node is loaded again and its cache derived from the live edges
Derive(c) ==
    LET s == call[c]
        derived == LiveEdge("references_ui", s.n)
    IN
    /\ s.at = "derive"
    /\ IF node[s.n].refs = derived
       THEN Return(c, {})
       ELSE Goto(c, [at |-> "put_refs", op |-> s.op, n |-> s.n, new |-> [node[s.n] EXCEPT !.refs = derived]])
    /\ UNCHANGED <<disk, view, seen, calls, faults, reply, session>>

PutRefs(c) ==
    LET s == call[c] IN
    /\ s.at = "put_refs"
    /\ \/ /\ node' = [node EXCEPT ![s.n] = s.new]
          /\ Return(c, {})
          /\ UNCHANGED <<audit, edge, row, run, faults>>
       \/ Fault /\ Return(c, {s.n})
    /\ UNCHANGED <<view, seen, calls, reply, session>>

-----------------------------------------------------------------------------
(* The decision log, which is append-only, and ingested runs.                 *)

ActiveRow(prior) == [status |-> "active", supersedes |-> prior, by |-> None]

\* schematify/write-decision
WriteDecision(c, r) ==
    /\ Ready(c, "decision")
    /\ IF row[r] = None
       THEN /\ Begin(c, {}, [op |-> "decision", at |-> "put_successor", prior |-> None, successor |-> r])
            /\ UNCHANGED <<disk, view, seen, faults>>
       ELSE Refuse(c)

Supersedable_Again(p, r) == row[p] # None /\ p # r /\ row[r] = None
Supersedable_Over(p, r) == row[p] # None /\ row[p].status = "active" /\ p # r

\* schematify/supersede-decision: an active prior row and a successor id with no
\* file; the prior is rewritten from the copy read here
Supersedable(p, r) == row[p] # None /\ row[p].status = "active" /\ p # r /\ row[r] = None

SupersedeDecision(c, p, r) ==
    /\ Ready(c, "decision")
    /\ IF Supersedable(p, r)
       THEN /\ Begin(c, {}, [op |-> "decision", at |-> "put_successor", prior |-> p, successor |-> r,
                         new |-> [row[p] EXCEPT !.status = "superseded", !.by = r]])
            /\ UNCHANGED <<disk, view, seen, faults>>
       ELSE /\ calls' = calls + 1
            /\ reply' = <<p, r>> /\ UNCHANGED session
            /\ UNCHANGED <<disk, call, view, seen, excused, faults>>

PutSuccessor(c) ==
    LET s == call[c] IN
    /\ s.at = "put_successor"
    /\ \/ /\ row' = [row EXCEPT ![s.successor] = ActiveRow(s.prior)]
          /\ IF s.prior = None THEN Return(c, {}) ELSE Goto(c, [s EXCEPT !.at = "put_prior"])
          /\ UNCHANGED <<node, audit, edge, run, faults>>
       \/ Fault /\ Return(c, {})
    /\ UNCHANGED <<view, seen, calls, reply, session>>

PutPrior(c) ==
    LET s == call[c] IN
    /\ s.at = "put_prior"
    /\ \/ /\ row' = [row EXCEPT ![s.prior] = s.new]
          /\ Return(c, {})
          /\ UNCHANGED <<node, audit, edge, run, faults>>
       \/ Fault /\ Return(c, {s.prior, s.successor})
    /\ UNCHANGED <<view, seen, calls, reply, session>>

Artifacts == [from : {"x", "y"}, schema : {"kaava-bench-v1", "later"}, answered : BOOLEAN]

\* None is no id, no file and no content of one
DecisionRows == [status : {"active", "superseded"}, supersedes : Rows \cup {None}, by : Rows \cup {None}]
ASSUME NoneIsNothing == None \notin Files \cup DecisionRows \cup Artifacts \cup {"live", "superseded"}

\* schematify/ingest-run: an artifact of the one known schema, every budget in it
\* answered by a budget child of its scope, at a run number with no file
IngestRun(c, r, artifact) ==
    /\ Ready(c, "ingest-run")
    /\ IF artifact.schema = "kaava-bench-v1" /\ artifact.answered /\ run[r] = None
       THEN /\ Begin(c, {}, [op |-> "ingest-run", at |-> "put_run", r |-> r, new |-> artifact])
            /\ UNCHANGED <<disk, view, seen, faults>>
       ELSE Refuse(c)

PutRun(c) ==
    LET s == call[c] IN
    /\ s.at = "put_run"
    /\ \/ run' = [run EXCEPT ![s.r] = s.new] /\ UNCHANGED <<node, audit, edge, row, faults>>
       \/ Fault
    /\ Return(c, {})
    /\ UNCHANGED <<view, seen, calls, reply, session>>

-----------------------------------------------------------------------------
(* schematify/load-graph, and the process exiting with calls in flight.       *)

LoadGraph ==
    /\ view # node
    /\ view' = node
    /\ UNCHANGED <<disk, call, seen, excused, calls, faults, reply, session>>

Exit ==
    /\ faults < MaxFaults
    /\ \E c \in Calls : call[c].at # "idle"
    /\ faults' = faults + 1
    /\ excused' = excused \cup UNION {Subject(call[c]) : c \in Calls}
    /\ call' = [c \in Calls |-> Idle]
    /\ UNCHANGED <<disk, view, seen, calls, reply, session>>

Init ==
    /\ node = [n \in Nodes |-> [contract |-> 0, stale |-> FALSE, refs |-> FALSE,
                                 life |-> IF n \in Dependents THEN "accepted" ELSE "draft"]]
    /\ audit = [n \in Nodes |-> <<>>]
    /\ edge = [e \in EdgeKinds \X Dependents |-> IF e[1] = "depends_on" THEN "live" ELSE None]
    /\ row = [r \in Rows |-> None]
    /\ run = [r \in Runs |-> None]
    /\ call = [c \in Calls |-> Idle]
    /\ view = node
    /\ seen = [d \in Dependents |-> [k \in Contracted |-> 0]]
    /\ session \in Sessions
    /\ excused = {} /\ calls = 0 /\ faults = 0 /\ reply = None

Next ==
    \/ \E c \in Calls :
         \/ \E n \in Moved, to \in Lifecycles, actor \in {"human", "agent"} : Transition(c, n, to, actor)
         \/ \E n \in Nodes, contract \in 0 .. MaxContract : WriteNode(c, n, contract)
         \/ \E k \in EdgeKinds, d \in Dependents, to \in {"live", "superseded"} : WriteEdge(c, k, d, to)
         \/ \E r \in Rows : WriteDecision(c, r)
         \/ \E p, r \in Rows : SupersedeDecision(c, p, r)
         \/ \E r \in Runs, artifact \in Artifacts : IngestRun(c, r, artifact)
         \/ \E d \in Dependents : Drop(c, d)
         \/ ReadAudit(c) \/ PutNode(c) \/ PutAudit(c) \/ RollBack(c)
         \/ PutEdit(c) \/ PutEdge(c) \/ Derive(c) \/ PutRefs(c)
         \/ PutSuccessor(c) \/ PutPrior(c) \/ PutRun(c)
    \/ LoadGraph
    \/ Exit

Spec == Init /\ [][Next]_vars

-----------------------------------------------------------------------------
Settled(f) == f \notin excused /\ ~InFlight(f)

\* A node stands where the last row of its audit put it, the rows follow one
\* another, and it carries the stale mark exactly while it is stale, also after
\* an audit that could not be written and the node put back (store.rs:405-500).
HistoryTellsState ==
    \A n \in Nodes : Settled(n) =>
        /\ node[n].stale = (node[n].life = "stale")
        /\ audit[n] # <<>> => Last(audit[n]).to = node[n].life
        /\ \A i \in 1 .. Len(audit[n]) - 1 : audit[n][i].to = audit[n][i + 1].from

\* An accepted dependent was accepted against the contracts that now stand: every
\* change of one since made it stale, a facet's through its owner (PRD 7.4).
ReviewsCurrent ==
    \A d \in Dependents :
        node[d].life = "accepted" /\ (\A n \in Contracted \cup {d} : Settled(n))
            => seen[d] = [n \in Contracted |-> node[n].contract]

\* A module's ui_refs cache is what its live references_ui edges derive, rule L08
\* (schematify.rs:403-479).
CacheMatches ==
    \A d \in Dependents : Settled(d) => node[d].refs = (edge[<<"references_ui", d>>] = "live")

\* A superseded row names a successor whose file exists, whatever failed or exited
\* between the two writes; settled rows point at each other one to one (PRD 5.9).
ChainHolds ==
    \A p \in Rows : row[p] # None =>
        /\ row[p].status = "superseded" => row[p].by \in Rows /\ row[row[p].by] # None
        /\ \A s \in Rows : Settled(p) /\ Settled(s) /\ row[s] # None =>
               (row[s].supersedes = p <=> row[p].by = s)

\* The audit only grows, a decision row only ever goes from active to superseded,
\* and an ingested run is never overwritten (PRD 5.9, 6.3; ingest.rs:75-85).
AppendOnly ==
    [][ /\ \A n \in Nodes : n \notin excused' => IsPrefix(audit[n], audit'[n])
        /\ \A r \in Rows : r \notin excused' /\ row[r] # None =>
              \/ row'[r] = row[r]
              \/ row[r].status = "active" /\ row'[r].status = "superseded"
                 /\ row'[r].supersedes = row[r].supersedes
        /\ \A r \in Runs : r \notin excused' /\ run[r] # None => run'[r] = run[r] ]_vars

\* A human re-review is all that resolves staleness (store.rs, "nothing else does"):
\* a node leaves `stale` only by a move a person made, never by an edit.
OnlyReviewResolves ==
    [][ \A n \in Nodes : node[n].life = "stale" /\ node'[n].life # "stale" =>
            \E c \in Calls : call[c].at = "put_node" /\ call[c].d = n /\ call[c].actor = "human" ]_vars

\* A supersession that failed between its two writes is healed by calling it again:
\* the call is not refused (schematify.rs:754-760).
HalfSuperseded(p, s) ==
    row[p] # None /\ row[p].status = "active" /\ row[s] # None /\ row[s].supersedes = p
RetryHeals == \A p, s \in Rows : HalfSuperseded(p, s) /\ ~InFlight(p) => reply # <<p, s>>

TypeOK ==
    /\ node \in [Nodes -> [contract : 0 .. MaxContract, stale : BOOLEAN, refs : BOOLEAN, life : Lifecycles]]
    /\ edge \in [EdgeKinds \X Dependents -> {None, "live", "superseded"}]
    /\ excused \subseteq Files
=============================================================================
