--------------------------- MODULE DurableRunner ---------------------------
(***************************************************************************)
(* core/execution_runner.rs over OrganizationCheckpointStore::save_graph_  *)
(* cas: the tasks that execute, recover and reconcile the graph of one     *)
(* task id through one versioned checkpoint row.                           *)
(*                                                                         *)
(* A client is an async task that owns a graph and its store_version.      *)
(* Every runner call saves a changed clone first and adopts it only after  *)
(* the save returned.  A save runs on a blocking thread: when its client   *)
(* is aborted the thread goes on and may write the row later.              *)
(***************************************************************************)
EXTENDS ExecutionGraph, FiniteSets

CONSTANTS
  Client,       \* tasks that may hold this graph
  Dropped,      \* owner of a save whose client was aborted
  MaxVersion,   \* bound on the row's version
  MaxSaves      \* bound on the saves in flight, abandoned ones included

ASSUME DroppedAssumption == Dropped \notin Client
ASSUME BoundAssumption == MaxVersion \in Nat /\ MaxSaves \in Nat

VARIABLES
  store,     \* the row: its version (0 when absent) and the graph
  saves,     \* save_graph_cas calls issued and not finished
  pc,        \* "idle", "open" (holds a graph) or "saving" (awaits its save)
  mem,       \* each client's graph and store_version
  job,       \* each client's handler for each node
  calls,     \* how often the handler of each node was called
  handled    \* the nodes whose handler took its external effect

vars == <<store, saves, pc, mem, job, calls, handled>>

\* A graph carries, beside its states, the reconciliations that settled nodes.
Row == [version : Nat, st : GraphState, reconciled : SUBSET Node]

Absent == [version |-> 0, st |-> AllPending, reconciled |-> {}]

\* "todo": admitted, handler not called yet.  "called": the handler runs.
\* Then the outcome it returned, until record_outcome consumed it.
JobState == {"none", "todo", "called", "Deferred"} \cup OutcomeState

NoJobs == [n \in Node |-> "none"]

Save == [owner : Client \cup {Dropped}, expected : Nat, st : GraphState,
         reconciled : SUBSET Node, batch : SUBSET Node]

TypeOK ==
  /\ store \in Row
  /\ saves \in SUBSET Save
  /\ pc \in [Client -> {"idle", "open", "saving"}]
  /\ mem \in [Client -> Row]
  /\ job \in [Client -> [Node -> JobState]]
  /\ calls \in [Node -> Nat]
  /\ handled \in SUBSET Node

Init ==
  /\ store = Absent
  /\ saves = {}
  /\ pc = [c \in Client |-> "idle"]
  /\ mem = [c \in Client |-> Absent]
  /\ job = [c \in Client |-> NoJobs]
  /\ calls = [n \in Node |-> 0]
  /\ handled = {}

-----------------------------------------------------------------------------
(* Runner calls.  Each hands a changed clone to save_checkpoint. *)

\* save_checkpoint: spawn the save and await it.  The clone is the graph with
\* new states and the reconciliations of decided added.
IssueDeciding(c, row, next, decided, batch) ==
  /\ row.version < MaxVersion
  /\ Cardinality(saves) < MaxSaves
  /\ saves' = saves \cup {[owner |-> c, expected |-> row.version, st |-> next,
                           reconciled |-> row.reconciled \cup decided,
                           batch |-> batch]}
  /\ pc' = [pc EXCEPT ![c] = "saving"]
  /\ mem' = [mem EXCEPT ![c] = row]

Issue(c, row, next, batch) == IssueDeciding(c, row, next, {}, batch)

\* Between two runner calls: no handler of the last batch is left over.
Ready(c) == pc[c] = "open" /\ job[c] = NoJobs

Initialize(c) ==
  /\ pc[c] = "idle"
  /\ Issue(c, Absent, AllPending, {})
  /\ UNCHANGED <<store, job, calls, handled>>

\* recover: load the row, mark what was running, save only what changed.
Recover(c) ==
  LET recovered == RecoverFromCheckpoint(store.st) IN
  /\ pc[c] = "idle"
  /\ store.version > 0
  /\ \/ /\ recovered = store.st
        /\ pc' = [pc EXCEPT ![c] = "open"]
        /\ mem' = [mem EXCEPT ![c] = store]
        /\ UNCHANGED saves
     \/ /\ recovered # store.st
        /\ Issue(c, store, recovered, {})
  /\ UNCHANGED <<store, job, calls, handled>>

\* admit_node is a batch of one; admit_ready_batch any set of ready nodes.
Admit(c, B) ==
  /\ Ready(c)
  /\ CanStartBatch(mem[c].st, B)
  /\ Issue(c, mem[c], StartReadyBatch(mem[c].st, B), B)
  /\ UNCHANGED <<store, job, calls, handled>>

\* Pending nodes the drivers may cancel.
Pending(c) == {n \in Node : mem[c].st[n] = "Pending"}

\* commit_deterministic with cancel_node on some pending nodes and
\* settle_unreachable; on none of them it is the drivers' plain settle commit,
\* which is saved even if it changes nothing.
CommitSettled(c, S) ==
  /\ Ready(c)
  /\ S \subseteq Pending(c)
  /\ Issue(c, mem[c], CancelPending(mem[c].st, S), {})
  /\ UNCHANGED <<store, job, calls, handled>>

\* commit_deterministic with record_effect_intents: no node changes.
CommitIntents(c) ==
  /\ Ready(c)
  /\ Pending(c) # {}
  /\ Issue(c, mem[c], mem[c].st, {})
  /\ UNCHANGED <<store, job, calls, handled>>

\* commit_deterministic with start_node, fail_node and settle_unreachable: a
\* node is refused by its contract, and no handler is called for it.
CommitBlocked(c, n) ==
  /\ Ready(c)
  /\ n \in ReadyNodeIds(mem[c].st)
  /\ Issue(c, mem[c], SettleUnreachable(SetState(mem[c].st, n, "Failed")), {})
  /\ UNCHANGED <<store, job, calls, handled>>

\* The read-only driver also cancels and settles its graph without a save: its
\* graph is then ahead of the row at the same version.
EditInMemory(c, S) ==
  /\ Ready(c)
  /\ S \subseteq Pending(c)
  /\ CancelPending(mem[c].st, S) # mem[c].st
  /\ mem' = [mem EXCEPT ![c].st = CancelPending(mem[c].st, S)]
  /\ UNCHANGED <<store, saves, pc, job, calls, handled>>

\* reconcile_node.  The decision is the caller's, with a reason and a reference
\* to evidence that the runner does not examine; the graph records it.
ReconcileNode(c, n, d) ==
  /\ Ready(c)
  /\ CanReconcile(mem[c].st, n)
  /\ IssueDeciding(c, mem[c], SetState(mem[c].st, n, d), {n}, {})
  /\ UNCHANGED <<store, job, calls, handled>>

-----------------------------------------------------------------------------
(* Handlers of an admitted batch run side by side and are joined. *)

\* Faulty variant: the handler does not wait for the save of the admission.
CallUnsaved(c, n) ==
  /\ \E s \in saves : s.owner = c /\ n \in s.batch
  /\ calls' = [calls EXCEPT ![n] = @ + 1]
  /\ UNCHANGED <<store, saves, pc, mem, job, handled>>

CallHandler(c, n) ==
  /\ pc[c] = "open" /\ job[c][n] = "todo"
  /\ job' = [job EXCEPT ![c][n] = "called"]
  /\ calls' = [calls EXCEPT ![n] = @ + 1]
  /\ UNCHANGED <<store, saves, pc, mem, handled>>

TakeEffect(c, n) ==
  /\ pc[c] = "open" /\ job[c][n] = "called" /\ n \notin handled
  /\ handled' = handled \cup {n}
  /\ UNCHANGED <<store, saves, pc, mem, job, calls>>

\* A handler reports success only after its effect; it may fail or be
\* cancelled after it too, and it may defer.
Finish(c, n, o) ==
  /\ pc[c] = "open" /\ job[c][n] = "called"
  /\ o = "Succeeded" => n \in handled
  /\ job' = [job EXCEPT ![c][n] = o]
  /\ UNCHANGED <<store, saves, pc, mem, calls, handled>>

Joined(c) == \A n \in Node : job[c][n] \notin {"todo", "called"}

\* Faulty variant: a deferred handler is recorded like any other outcome.
RecordAnyOutcome(c, n) ==
  /\ pc[c] = "open" /\ Joined(c)
  /\ job[c][n] # "none"
  /\ Issue(c, mem[c], SetState(mem[c].st, n, job[c][n]), {})
  /\ job' = [job EXCEPT ![c][n] = "none"]
  /\ UNCHANGED <<store, calls, handled>>

RecordOutcome(c, n) ==
  /\ pc[c] = "open" /\ Joined(c)
  /\ job[c][n] \in OutcomeState
  /\ mem[c].st[n] = "Running"
  /\ Issue(c, mem[c], SetState(mem[c].st, n, job[c][n]), {})
  /\ job' = [job EXCEPT ![c][n] = "none"]
  /\ UNCHANGED <<store, calls, handled>>

\* The caller returns: its graph, and what it had not recorded, is gone.
Leave(c) ==
  /\ pc' = [pc EXCEPT ![c] = "idle"]
  /\ mem' = [mem EXCEPT ![c] = Absent]
  /\ job' = [job EXCEPT ![c] = NoJobs]

\* record_outcome of a deferred node is an error: the node stays Running.
RecordDeferred(c, n) ==
  /\ pc[c] = "open" /\ Joined(c)
  /\ job[c][n] = "Deferred"
  /\ Leave(c)
  /\ UNCHANGED <<store, saves, calls, handled>>

-----------------------------------------------------------------------------
(* The store, and the end of a save. *)

Adopt(s, row) ==
  IF s.owner = Dropped
    THEN UNCHANGED <<pc, mem, job>>
    ELSE /\ pc' = [pc EXCEPT ![s.owner] = "open"]
         /\ mem' = [mem EXCEPT ![s.owner] = row]
         /\ job' = [job EXCEPT ![s.owner] =
              [n \in Node |-> IF n \in s.batch THEN "todo" ELSE @[n]]]

\* Faulty variants: the version is not compared; the version is not advanced.
CommitAnyVersion(s) ==
  /\ store' = [version |-> store.version + 1, st |-> s.st,
               reconciled |-> s.reconciled]
  /\ saves' = saves \ {s}
  /\ Adopt(s, store')
  /\ UNCHANGED <<calls, handled>>

CommitSameVersion(s) ==
  /\ s.expected = store.version
  /\ store' = [version |-> 1, st |-> s.st, reconciled |-> s.reconciled]
  /\ saves' = saves \ {s}
  /\ Adopt(s, store')
  /\ UNCHANGED <<calls, handled>>

\* save_graph_cas commits one version further, and the client adopts its clone.
SaveCommits(s) ==
  /\ s.expected = store.version
  /\ store' = [version |-> store.version + 1, st |-> s.st,
               reconciled |-> s.reconciled]
  /\ saves' = saves \ {s}
  /\ Adopt(s, store')
  /\ UNCHANGED <<calls, handled>>

\* A version conflict, or a database error before the commit.  The client's
\* graph and version are untouched, and every caller returns the error.
SaveFails(s) ==
  /\ saves' = saves \ {s}
  /\ IF s.owner = Dropped THEN UNCHANGED <<pc, mem, job>> ELSE Leave(s.owner)
  /\ UNCHANGED <<store, calls, handled>>

-----------------------------------------------------------------------------
(* Interruptions. *)

\* The task is done with the graph, or is aborted at an await: a save it waits
\* for goes on without it.
Abort(c) ==
  /\ pc[c] # "idle"
  /\ Leave(c)
  /\ saves' = {IF s.owner = c THEN [s EXCEPT !.owner = Dropped] ELSE s : s \in saves}
  /\ UNCHANGED <<store, calls, handled>>

Crash ==
  /\ \E c \in Client : pc[c] # "idle"
  /\ saves' = {}
  /\ pc' = [c \in Client |-> "idle"]
  /\ mem' = [c \in Client |-> Absent]
  /\ job' = [c \in Client |-> NoJobs]
  /\ UNCHANGED <<store, calls, handled>>

RunnerCall(c) ==
  \/ Initialize(c)
  \/ Recover(c)
  \/ CommitIntents(c)
  \/ \E S \in SUBSET Node : Admit(c, S) \/ CommitSettled(c, S) \/ EditInMemory(c, S)
  \/ \E n \in Node : CommitBlocked(c, n)
  \/ \E n \in Node, d \in Decision : ReconcileNode(c, n, d)

HandlerStep(c) ==
  \E n \in Node :
    \/ CallHandler(c, n)
    \/ TakeEffect(c, n)
    \/ \E o \in OutcomeState \cup {"Deferred"} : Finish(c, n, o)
    \/ RecordOutcome(c, n)
    \/ RecordDeferred(c, n)

Next ==
  \/ \E c \in Client : RunnerCall(c) \/ HandlerStep(c) \/ Abort(c)
  \/ \E s \in saves : SaveCommits(s) \/ SaveFails(s)
  \/ Crash

Spec == Init /\ [][Next]_vars

-----------------------------------------------------------------------------
(* Properties *)

\* A client whose version is current holds the stored graph, except for pending
\* nodes it cancelled or skipped and has not saved yet.  The version alone
\* decides whether its clone may replace the row, so a client that was overtaken
\* by a late save must never carry a current version.
CacheCoherent ==
  \A c \in Client :
    pc[c] # "idle" /\ mem[c].version = store.version =>
      \A n \in Node : \/ mem[c].st[n] = store.st[n]
                      \/ /\ store.st[n] = "Pending"
                         /\ mem[c].st[n] \in {"Cancelled", "Skipped"}

\* A handler runs only for a node the row already shows as started, so that a
\* crash cannot hide a call from recovery.
CalledAfterAdmission ==
  \A n \in Node : calls[n] > 0 => store.st[n] \notin {"Pending", "Skipped"}

\* No interleaving of admissions, recoveries, aborts, late saves and crashes
\* calls the handler of a node twice.
CalledAtMostOnce == \A n \in Node : calls[n] <= 1

\* A node the row shows as interrupted is settled by a reconciliation and by
\* nothing else, and the reconciliation stands: no late save of an outcome that
\* the interrupted client had in flight, no second recovery and no client with
\* an older graph settles the node first or overwrites the decision later.
InterruptedAwaitsDecision ==
  [][\A n \in Node :
       /\ store.st[n] = "RecoveryRequired" /\ store'.st[n] # "RecoveryRequired" =>
            n \in store'.reconciled
       /\ n \in store.reconciled =>
            n \in store'.reconciled /\ store'.st[n] = store.st[n]]_vars

\* The row never holds a node that was started before its prerequisites, and
\* never gives up a node whose prerequisites may still succeed.
DependencyOrder ==
  StartedAfterPrerequisites(store.st) /\ SkippedForCause(store.st)

Lifecycle ==
  INSTANCE NodeLifecycle WITH life <- store.st, reconciled <- store.reconciled

\* The row and the handler calls, seen without clients, saves and versions,
\* behave as the abstract lifecycle.
ImplementsLifecycle == Lifecycle!Spec
=============================================================================
