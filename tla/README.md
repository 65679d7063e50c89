# TLA+ models of zhongshu

zhongshu is a desktop agent: it runs language-model workers, lets teams of them
work on one task, and has to survive cancellation, crashes and unreliable
services around it.  This directory holds TLA+ modules for the parts of it whose
correctness depends on order and interleaving, TLC configurations that check
them on small instances, and theorems with proofs checked by TLAPS.

Paths are relative to `src/`; `core/`, `agent/` and so on are directories of
`zhongshu-core/src/`.

## 1. The system

| Component | State | Operations | Interacts with |
|---|---|---|---|
| Execution graph (`agent/execution_graph.rs`) | nodes with states, typed edges, artifacts, effect intents, transition log | build, start, complete, fail, cancel, skip, reconcile, recover, snapshot | owned by a driver; serialised into a checkpoint |
| Durable runner (`core/execution_runner.rs`) | none of its own; borrows a graph and its version | initialize, admit, record outcome, commit, reconcile, recover | checkpoint store through blocking tasks |
| Checkpoint store (`core/checkpoint.rs`) | one versioned row per task | compare-and-swap save, load, list | SQLite |
| Mutation pipeline (`agent/organization.rs`, `agent/orchestrator.rs`) | graph, claims, proposals, patch report | contract, claim, propose, review, apply, release, finalize | runner, claim registry, patch engine, workers |
| Read-only driver (`agent/orchestrator.rs`) | graph, reports, cancel token | batches or handoffs of workers | runner, workers |
| Reconciliation (`core/reconciliation.rs`) | none | assess facts, reconcile, abandon, clean up | runner, claim registry, workspace |
| Claim registry client (`integration/deeplossless.rs`) | client behind an async lock; registry is external | claim, release, list facts | HTTP service |
| Organization service (`zhongshu-orb/src/organization_service.rs`) | busy flag, current task, session, cancel token | submit, cancel, recover | drivers, run controller, event bus |
| Core tasks (`core/task`, `zhongshu-orb/src/services.rs`) | task row with claim, lease and retry count | claim, plan, execute, finish, retry, cancel, recover | event bus, planner, workers |
| Goals, scheduler, suggestions (`core/goal`, `core/scheduler`, `core/suggestion`) | goal and suggestion rows | create tasks for goals | event bus |
| Authority gate (`authority/mod.rs`) | pending approvals, approved programs, waiters, early decisions | check, request, approve, deny, wait, take | dispatcher, user's thread |
| Run controller (`agent/run.rs`) | current run, state, cancel token, interruption | start, interrupt, resume, cancel, finish | session, organization, ledger |
| Agent loop (`agent/loop_.rs`) | conversation, budget, counters | ask, handle calls, checkpoint, stop, restore | provider, dispatcher, checkpoint store |
| Actions and ledger (`action/`, `core/ledger.rs`, `tool/executor.rs`) | journal of tool calls | dispatch, skip, record, reconcile | tools, authority gate |
| Chat session (`zhongshu-orb/src/app.rs`, `handler.rs`, `main.rs`) | agent state, inbox, task | submit, push, flush, run, stop, approve, recover | run controller, agent loop, event bus |
| Patch engine (`patch/mod.rs`) | read hashes, backups | plan, check staleness, apply | workspace files |
| Everything else (harness, context, equipment, memory, sandboxes, overlay, command line) | data and user interface | | |

What is hard about it:

* **Interleaving.** A driver is an async task that can be aborted at any await.
  Its saves run on blocking threads that are not aborted with it.
* **Crashes.** The graph is stored between steps; the effects of the steps
  (claims, files, worker runs) are not stored with it.
* **Partial failure.** Claiming, applying and releasing are loops over calls,
  each of which may fail before or after its effect.
* **Several threads, one session.** The user's thread, the inbox listener, the
  task of a run and a decision in the panel meet in the run controller and in
  the approval gate, neither of which has one lock for all it holds.
* **Stale state.** Several holders of one graph work on copies, and some code
  edits its copy without saving it.

## 2. Modules

| Module | Models | Kind |
|---|---|---|
| `ExecutionGraph` | `agent/execution_graph.rs` as operators on graph states | definitions |
| `SettleLoop` | the loop of `settle_unreachable`, one skip per step | specification |
| `NodeLifecycle` | what the runner promises about one task | abstract specification |
| `DurableRunner` | `core/execution_runner.rs` over `save_graph_cas` | specification |
| `MutationPipeline` | the mutation graph, its driver and its recovery | specification |
| `TaskExecution` | one background task between its executor, the scans and the commands | specification |
| `RunControl` | `agent/run.rs`: the controller's fields and operations | component |
| `ApprovalGate` | `authority/mod.rs`: requests, waiters, decisions, grants | component |
| `ToolDispatch` | `agent/loop_.rs`, `action/`, ledger and checkpoint of a run; extends both | component |
| `AgentSession` | the session around them: threads, inbox, task, crash and start-up | specification |
| `RunLedger` | what the session promises about the records of its runs | abstract specification |
| `AgentSessionProofs`, `SettleLoopProofs`, `ExecutionGraphTheorems`, `DurableRunnerProofs`, `DurableRunnerRefinement`, `MutationPipelineProofs`, `MutationGraphProofs`, `TaskExecutionProofs` | theorems | proofs |
| `MC...` | constants of the runs | instances |

### ExecutionGraph

A graph state is a function `[Node -> NodeState]`; `Node` and `Edge` are
constants because the topology never changes once compiled.  `ReadyNodeIds`,
`StartReadyBatch`, `SettleUnreachable`, `RecoverFromCheckpoint` and
`ValidSnapshotTransition` are the functions of the same names.  What
`settle_unreachable` computes with a loop is stated as a least fixed point
(`Unreachable`); `SettleLoop` checks and `SettleLoopProofs` proves that the loop
computes it.  `add_edge` refuses cycles and unknown nodes, which is what the two
assumptions say.  Artifacts, reasons and the transition log are payload: nothing
in the runner branches on them except validations that reject malformed input
from callers in the same process.  The reconciliations a graph carries are kept by
`DurableRunner`.

### DurableRunner

One checkpoint row (`store`), saves in flight (`saves`), and clients, each with
its own copy of the graph and its `store_version` (`mem`).  Every runner call is
split where the code awaits: issuing the save (`Issue`) and its end
(`SaveCommits`, `SaveFails`), after which the client adopts the clone it saved.
`Abort` drops a client at any await; a save it waited for stays in `saves` with
owner `Dropped` and may commit later, because `spawn_blocking` goes on.  `Crash`
ends all of them.

| Code | Action |
|---|---|
| `initialize` | `Initialize` |
| `recover` | `Recover` |
| `admit_node`, `admit_ready_batch` | `Admit` |
| `commit_deterministic` with cancels and settle | `CommitSettled` |
| `commit_deterministic` with effect intents | `CommitIntents` |
| `commit_deterministic` for a blocked decision | `CommitBlocked` |
| in-memory cancel and settle of the read-only driver | `EditInMemory` |
| `reconcile_node` | `ReconcileNode` |
| a handler's call, effect and result | `CallHandler`, `TakeEffect`, `Finish` |
| `record_outcome` | `RecordOutcome`, `RecordDeferred` |
| `save_graph_cas` | `SaveCommits`, `SaveFails` |

A row and a copy of it hold, beside the states of the nodes, `reconciled`: the
nodes for which the graph has a reconciliation (`reconciliations` of
`execution_graph.rs`, of which the decision, the reason and the evidence are
payload).  `ReconcileNode` takes any decision for a node in RecoveryRequired, as
`reconcile_node` does: the runner asks for evidence and does not examine it.
Whether a success is true is the subject of `MutationPipeline`, which has the facts.
`calls` and `handled` are history variables: how often each handler was called
and whether its external effect happened.

### NodeLifecycle

The abstract specification: one sequence of graph states, each a legal step of
the one before (`GraphStep`), handlers called at most once, only for started
nodes, and reconciliations that alone settle interrupted nodes and are never taken
back (`SettledByDecision`).  `DurableRunner` implements it with `life <- store.st`
and `reconciled <- store.reconciled`.

### MutationPipeline

The graph that `compile_mutation_execution_graph` builds for a roster of
workers, the durable driver (`execute_organization_mutation_from_workers_durable`
and the stage functions it calls) and the recovery commands.  A program counter
follows the driver from one runner call or registry request to the next.  The
driver and a recovery command hold the lock of the registry client, so there is
one of them at a time, and the driver never edits its graph without a save; what
aborts and late saves do to the row is the subject of `DurableRunner`, so here a
runner call is one step.

Outside the graph there are `claims` (what the registry says this task holds)
and `written` (files that have their planned content).  `Fault` selects the
errors a run may meet: `"limit"` (too many workers), `"plan"` (the patch no
longer applies) and `"call"` (a registry request fails, before or after its
effect).  A worker, the review and a patch operation may fail in every run.
The roster may be empty: the compiler then builds a graph without workers, and the
driver fails its contract (`RecordContract`).
`Interrupt` is a crash, a cancel, or a failed save: the driver's local state is
gone and the row stays.

### TaskExecution

One row of `tasks` and everyone who writes its status.  The executor of
`zhongshu-orb/src/services.rs` is one loop, so it has one program counter; the
scan and the start-up recovery list a task and mark it later (`ListInFlight`,
`MarkStale`); `record_failure` and `schedule_retry` read and write in two steps,
as they do in the code; the completion runs in the background (`CompleteLate`).

| Code | Action |
|---|---|
| receive Triggered, pre-check, `claim_task` | `SkipTrigger`, `ClaimTask` |
| `planner.plan` with its status update | `FinishPlan`, `FailPlan` |
| step loop | `BeginStep`, `EndStep`, `BreakStep` |
| finalize | `Finalize`, `CompleteLate` |
| `record_failure` | `ReadFailure`, `WriteFailure` |
| `list_stale_pending` in the scan | `Republish` |
| `recover_stale_inflight` in the scan and at start-up | `ListInFlight`, `MarkStale` |
| lagging receiver, `EventLogger::replay`, a restart | `Lag`, `Replay`, `Restart` |
| complete, cancel and retry of tool and overlay | `Complete`, `Cancel`, `ReadRetry`, `WriteRetry` |

The clock is the task's age in three classes (`age`): the scan compares
`created_at`, because this protocol never sets `started_at`.  The lease is not a
variable: only a task in flight has a claim (`ClaimMeansInFlight`, proved), and
the executor skips tasks in flight before it looks at the lease.  A claim counts
as one retry and `record_failure` counts another; the model keeps both.
`attempts`, `clean` and `vouched` are history variables.

### RunControl, ApprovalGate, ToolDispatch, AgentSession

The first three hold the state and the operations of one component each, without
a next-state relation of their own, because none of them acts alone;
`AgentSession` composes them.

* `RunControl`: `phase` is `RunState` with the tool and approval states left
  aside, `marks` the flag, the context and the token that `interrupt` and
  `request_cancel` set.  `start_run` and `begin_resume` are two steps each
  (`StartRun` and `ArmRun`, `ResumeRun` and `ContinueRun`): they write one lock
  after another, and a stop in between is seen half done.  A stop between the
  id and the token of a new run is lost, in the code as in the model.
* `ApprovalGate`: `pending`, `senders` and `early` are `PENDING_AUTH`,
  `AUTH_OUTCOME_TX` and `AUTH_RESOLVED`; `heard` is what the one-shot channel of
  a waiter carries.  `decided` is a history variable.
* `ToolDispatch`: one attempt.  `told` abstracts the conversation to what the
  model knows of each call, `journal` and `committed` the rows of the ledger,
  `saved` the checkpoint.  `killed` is a history variable.
* `AgentSession`: the user's thread (`hand`), the listener (`listener`) and the
  task (`pc`) interleave between the operations of the components.

| Code | Action |
|---|---|
| a submitted text, `AgentInbox::push`, `submit`, `try_flush` | `Submit`, `Enqueue`, `FlushDone` |
| stop, approve and deny of the panel | `Cancel`, `Decide` |
| the listener's loop | `HearIdle`, `DrainDone` |
| `AgentController::run`: claimed, or busy | `Claim`, `Intrude` |
| the rest of `run`: approval keyword, `begin_resume` or `start_run`, spawn | `Prepare`, `Launch` |
| the task: context, attempt, `finish_run`, Idle | `ContextFails`, `Work`, `Close`, `Rest` |
| `run_attempt` with `AGENT_TIMEOUT` | `BeginAttempt`, `Timeout` |
| the agent loop | `StopAtHead`, `Ask`, `AnswerLost`, `FinalAnswer`, `CallsAnswer`, `Refuse`, `BatchDone` |
| `dispatch_with` and `ToolExecutor::execute` | `SkipCommitted`, `Dispatch`, `Succeed`, `Fail`, `CutShort` |
| an approval: request, waiter, decision, cancelled wait | `AuthRequired`, `AwaitDecision`, `HearDecision`, `StopWaiting` |
| death of the process, then `latest_unfinished`, `restore_interrupted_run` | `Restart` |

### RunLedger

The abstract specification of the session, without threads, approvals, stops or
timeouts: one run at a time is held, one call of it at a time is in hand, and
what is on disk (`finished`, `journal`, `committed` and the calls each
checkpoint names) changes only by its steps.  `AgentSession` implements it
(`ImplementsLedger`) with this mapping:

| Abstract | In `AgentSession` |
|---|---|
| `held`, `stage` | the run of the controller while a task of the session works on it (`HeldRun`); open from the first lock of `start_run` or `begin_resume` to the end of the attempt, closing up to `finish_run` (`HeldStage`) |
| `hand` | the call whose start row is written and whose end row is not, in a living attempt (`CallInHand`) |
| `named` | the calls in the saved conversation of each run (`NamedCalls`) |
| `runs`, `finished`, `journal`, `committed` | the same |

A step of the session is one of the abstract steps or leaves the record alone:
a question, an approval, a decision, a stop and a message change nothing in it.
The save before a call and its start row are one step (`StartCall`), because
`Dispatch` is; `PassOver` is the save before a call that is skipped.

## 3. What the runs check

| Run | Instance | Properties |
|---|---|---|
| `settle_loop` | five nodes, six edges with a chain, a join and a cleanup node; every state a driver can hold | the loop's result does not depend on its order; nothing pending is stranded; no ready node is skipped |
| `durable_runner` | one client, three nodes, versions up to 5, two saves | types; no call before its admission is stored; dependency order |
| `durable_runner_pair` | two clients, two nodes, versions up to 4, two saves | a current version means a current graph; at most one call per handler; an interrupted node is settled by a reconciliation alone, and that decision stands; refinement of `NodeLifecycle` |
| `mutation_pipeline` | two workers side by side, all faults, three interruptions | types; publication means done; claims cover unknown effects; intents are recorded first; stored success is true; a clean end frees the claims; every step of the row is legal; the runner refuses no call of the driver but release intents an interrupted driver has already recorded |
| `mutation_handoff` | two workers one after the other, no interruption | the driver ends what it began; claims are freed eventually, unless a worker or the registry never answers |
| `mutation_plan_fails` | a patch that no longer applies | violated: claims are kept (finding 1) |
| `mutation_stranded` | one interruption | violated: no recovery command applies (finding 2) |
| `task_execution` | three retries, plans of up to two steps, two queued events, one lost event, one restart | types; executions bounded by `max_retries`; no claim outside a task in flight; no completion without a clean attempt or a person; a pending task moves, unless the executor waits for an answer for ever; a task in flight ends |
| `task_cancel_lost` | the same | violated: a cancel during planning is overwritten (finding 3) |
| `task_swept_alive` | the same | violated: the scan fails a task under execution (finding 4) |
| `agent_session` | two messages, a gated call that writes and a call that reads, one stop, one crash at any point | types; the model is told of every effect; only killed calls stay open; decisions reach their call; a crash in a call is recovered; a completed call is not repeated; a finished run is final; a busy session becomes idle, unless its context cannot be built or it waits for its memory for ever; refinement of `RunLedger` |
| `agent_notes_lost` | three messages, no calls | violated: a note is delivered to a busy agent (finding 5) |

**Bounds.** `MaxVersion` bounds the number of commits of a behaviour: five are
enough to initialise, admit, record, admit again and record or recover on three
nodes; the pair run needs fewer because its question is who wins a race.
`MaxSaves = 2` allows the save of a live client to race with one that an aborted
client left behind.  `TeamEdge` has a node with a `Requires` and a `Finally`
source, and two nodes that may be admitted in one batch; these are all the ways a
node depends on others.  The two-client run uses symmetry over clients, and it
checks no liveness.  Two files are enough for a partial claim, a partial
apply and a partial release; three interruptions let a recovery be interrupted
twice.  `MaxRetries = 3` is the code's default and lets a failed attempt (which
counts twice) be followed by another; two steps are enough for a bad step before
a good one, two queued events for a trigger that arrives while the task runs.
`MaxRuns = 2` lets a new run follow a finished, a stopped or a recovered one;
every message starts at most one run, so it bounds the messages too.  With one
live request (`MaxRequests`) a request left behind by a timeout blocks the next
one until it is decided, so a decision may reach a request that nobody waits for
while another run is at work.  `MCAnswers` has the writing call alone, before
and after the reading one, and `MaxCalls = 2` lets the budget end an attempt in
the middle of an answer or after it.  One stop and one crash, each at any point,
meet every state of a call.  The proofs hold for all of these bounds.

**Deadlock** is not checked where the system may stop: the settling loop ends,
a mutation task ends when its graph is finished or nobody recovers it, a
background task ends, and a chat session rests until its user writes again.

**Fairness.**  What the code does by itself is fair; what it awaits without a limit
is not.  Each specification with fairness names the places where it depends on
others (`AwaitsOthers`), takes their steps out of the fair action, and its liveness
properties say "unless it waits there for ever".

* `mutation_handoff`: weak fairness of the driver's steps, one async function that
  the runtime polls until it returns, except while it waits for a worker's proposal
  or for the reply to a claim or release request.  The registry client has no
  timeout (`integration/deeplossless.rs:496`, `541`): a request that hangs keeps the
  claims.  `ClaimsEndEventually` says that nothing else does.  Recovery commands
  are issued by a person and get no fairness.
* `task_execution`: weak fairness of the executor's loop, of the scan (an interval
  timer) and its publishing, of the start-up recovery, of the background
  completion, of the write that ends a started retry command, and of time.  The
  executor is not fair while it awaits the planner's call to the model, which has no
  timeout (`core/task/planner.rs:56`), or a step, whose tool may wait for an
  approval (`action/dispatcher.rs:146`).  `PendingMoves` therefore allows a task to
  stay pending behind an executor that waits for ever; `InFlightEnds` needs no such
  exception, because the scan ends a task in flight by its age.  Lost events,
  restarts and commands are never forced.  The two violated runs use the same
  specification.
* `agent_session`: weak fairness of one action, `GoesOn`: the caller of
  `AgentController::run` returns, `AGENT_TIMEOUT` ends every attempt that has begun,
  and a run that is closed sets the state to Idle.  Before the attempt the task may
  wait for the lock of the memory proxy and an answer of its registry
  (`app.rs:624`), behind it for the same lock (`app.rs:766`), which the mutation
  driver holds for its whole run (`organization_service.rs:355`): neither has a
  limit, and `SessionSettles` says that a session stays busy for ever only there, or
  when its context could not be built.  Neither the provider nor a tool has to
  answer, and nobody has to decide, stop or write.

**Mutants.** Each property of a passing run has a variant of a definition that
breaks it (`RestartInterrupted`, `CallUnsaved`, `CommitAnyVersion` and so on);
they stand next to the definition they replace and are used by nothing else.

## 4. What is proved

The proofs hold for every finite or infinite set of nodes or of calls, every
acyclic edge set, every number of clients and every bound.

* `SettleLoopProofs`: `LoopCorrect`, `SettledGraphAdvances` and
  `ReadyNodesSurvive`, the three properties of the run `settle_loop`.  The first
  rests on the invariant that the loop only ever skipped members of the least
  closed set; the second on acyclicity, applied to the set of pending nodes.
* `ExecutionGraphTheorems`: each update the runner performs is a legal step of
  the graph (`StartIsStep`, `EndIsStep`, `BlockIsStep`, `RecoverIsStep`,
  `EditThenStep`), and legal steps keep the dependency order
  (`GraphStepKeepsOrder`).
* `DurableRunnerProofs`: `Invariance`, from which follow `TypeCorrect`,
  `Coherence`, `AdmissionFirst`, `AtMostOnce`, `DecisionsStand` and `OrderKept`.
* `DurableRunnerRefinement`: `RunnerImplementsLifecycle`.
* `MutationGraphProofs`: `CompiledGraph`, `LegalHistory`, `GraphKeepsOrder`,
  `RunnerRefusesOnlyRepeats`, `DriverEndsItsWork` and `TaskEnds` (below).
* `MutationPipelineProofs`: `PipelineTypes`, `IntentsComeFirst`, `SuccessIsTrue`,
  `ClaimsOutliveEffects`, `PublishedIsDone` and `EndedTasksHoldNothing`, all the
  safety properties of the run `mutation_pipeline`, for every roster.
* `TaskExecutionProofs`: `TypeCorrect`, `ExecutionsBounded`, `ClaimsFollowWork`
  and `CompletionsVouched`, for every limit.  `AttemptsBounded` is not inductive,
  because `record_failure` writes a count it read earlier: `Counts` says that
  neither that count nor the row's is ever behind the number of executions.
  `Vouching` carries the verdict of an attempt to the completion that runs later:
  a defect of any step is still in `bad` when the attempt is judged, and every
  completion still running was vouched for.  `RetriesOnlyGrow`: no step of anyone
  gives a retry back and every execution uses one up.  It needs `ReadIsCurrent`,
  that the count `record_failure` read is still the row's when it writes: nobody
  but the executor changes the count meanwhile, which no condition in the SQL says.
  `AttemptsEnd`: every step of the executor begins an attempt, uses up one of the
  `2 * MaxSteps + 4` steps an attempt can have (`Remaining`) or drops a trigger, and
  no scan or command prolongs an attempt.
* `AgentSessionProofs`: `SessionTypes`, `NoEffectIsSilent`, `CallsAreClosed`,
  `DecisionsArrive`, `CommittedCallsRest`, `FinishedRunsRest` and
  `CrashesAreRecovered`, all the safety properties of the run `agent_session`;
  `SessionKeepsLedger`, its refinement of `RunLedger`; `TasksTakeTurns`,
  `BudgetOutlivesCrashes` and `CallsSpendTheBudget` (below).

**The graph of a mutation task.**  `ExecutionGraph` and everything proved of it
assume a graph without foreign nodes and without cycles.  `CompiledGraph`
discharges both assumptions for what `compile_mutation_execution_graph` builds
from any roster, in either mode: of a set of workers, the one that comes first in
the roster waits for none of the others.  With it the theorems about graphs apply
to the task through `G == INSTANCE ExecutionGraphTheorems`, and `LegalHistory`
follows action by action: a success is recorded by the driver behind its effect,
or inferred from facts, for which `Whole` says that the recorded claim intents
name every file or none.  `GraphKeepsOrder` follows from the same steps.

**What the runner refuses** (`Driven`).  `IInv` says what must be over when a
node has started.  That a node is *ready* also needs what has not happened:
`Ahead` says which nodes and intents the driver has not touched at each of its
places, `Behind` which nodes are over, whatever their outcome, and `AtWork` what
runs at the places where an outcome is about to be recorded; in a handoff this
is one worker, with all before it succeeded and all behind it pending
(`Handed`).  The step that is not obvious is the settle behind the workers: it
must leave the review ready or over.  No worker is ready when the driver comes
there; the first one it left pending would wait for a success that is there, and
be ready, or that cannot come, and be skipped (`NoWorkerWaits`,
`SettleLeavesNoneBlocked`).  One refusal remains, and the property names it: a
driver that is interrupted between recording the release intents and admitting
the release leaves them in the row, and the cleanup of a later recovery records
them once more, which `record_effect_intents` refuses
(`core/reconciliation.rs:530`, `agent/execution_graph.rs:397`).  That it needs
an interruption is proved of the driver that met none (`Fresh`): nothing
requires recovery, nothing runs but the node at hand, and the release has no
intents until it records them (`First`).

**What an undisturbed driver leaves** (`Calm`).  `DriverEndsItsWork` is the partial
correctness of the driver: without a crash, a failed registry request or a patch
that cannot be planned it returns with no claim and, unless it never took up the
task, with every node of the graph ended.  Findings 1 and 2 are therefore about
exactly these disturbances: conflicts, failing workers, a refused review and a
partial patch leave nothing.  The invariant has three parts: `Attended` (a node
runs only where its outcome is about to be recorded, and none requires recovery),
`Owed` (every release will meet its claim, so that none counts as failed) and
`Over` (what the driver has passed has ended).  When the contract fails, the settle
must end the whole graph: the first node it left pending would wait for one that
cannot succeed, and acyclicity (`CompiledGraph`) says that there is a first one
(`BlockedIsOver`).  The exception is a task to which nobody was assigned: without
workers the review depends on nothing, so the settle behind the failed contract
leaves it, and the apply behind it, pending (`NeverBegun`).

**Why a task ends** (`TaskRunsOut`).  `TaskEnds` is the variant of a mutation
task, and it holds with any number of crashes and recoveries: each of their
steps moves some node forward and none back (`GraphGoesOn`, from `LegalHistory`
and the ranks of the states), or leaves the graph alone and moves the driver to
a later place (`PlaceGoesOn`), or shortens the list it works on (`LoopGoesOn`).
A node has finitely many states and a roster finitely many nodes.  Together with
`RunnerRefusesOnlyRepeats` this leaves nothing of `ClaimsEndEventually` to
fairness but that the driver is scheduled where it does not wait for others.
The descent of such a variant needs induction over data and is not stated as a
theorem.

**One task, and its budget.**  The session has one variable for the place of the
task because there is one task: `TasksTakeTurns` says that a claim never replaces
a task that is stuck, or resting before it reports Idle.  `max_tool_calls` is
looked at before the model is asked (`loop_.rs:268`) and after a dispatched call
(`loop_.rs:658`), but a refused, skipped or unauthorized call goes on to the next
one of the answer without it, and a new process takes the counter from the
checkpoint (`loop_.rs:212`).  `BudgetOutlivesCrashes` says what this amounts to:
when no answer holds more than N calls (an assumption of the theorem, which every
finite set of answers meets) the counters stay below `MaxCalls + N`.  A
checkpoint is written before every call, so each call that is started raises the
saved counter (`CallsSpendTheBudget`), and a run dispatches less than `MaxCalls + N`
calls over all the processes it lives in.  TLC agreed with these statements on the
instance of `agent_session` before they were proved.

**The refinement of the session** (`SessionKeepsLedger`).  `SessionMaps` has a step
for each action of the session.  Four facts carry it.  While an attempt works the
controller names its run, which is not finished (`Placed`).  The run that
`begin_resume` takes up has the newest checkpoint of an unfinished run (`Newest`),
which is the condition of `TakeUp`.  A checkpoint written before a call names the
call and all that have a row (`Recorded`, `SavesName`).  And a saved conversation
is never without calls (`Filled`), so that the absence of a checkpoint can be the
empty set.

**The inductive invariant of the session** (`IInv`).  `Placed` ties the place of
the task to the run the controller names: while a task is at work its run is not
finished, and only an idle session can start one.  `Newest` keeps the run at
work, and the run offered for recovery, ahead of every other checkpoint of an
unfinished run: `latest_unfinished` takes the newest, so a crash finds the run
it interrupted.  `Recorded` follows a call from the checkpoint written before it,
through its row in the ledger, to the conversation: whatever has a row is in the
answer that was saved, so that a restored conversation has either its result or
an unknown effect.  `Requested` follows an approval from its making to the
decision, across the gap between `set_pending` and the waiter.  The three action
properties follow from `IInv` and one step.

**The inductive invariant of the mutation task** (`IInv`).  `Order` says what
the edges make of the graph: what must have succeeded when a node has started,
and that a skipped release means a contract that cannot succeed.  The edges
alone do not say that the release waits for the end of an interrupted apply,
nor, in a handoff, that the first worker ran behind the claims; `Placed` does,
by the places from which the driver starts these nodes.  `Foretold` keeps the
intents ahead of the effects, and the intents of a release ahead of what it may
free.  `Known` says how the driver's list of active claims compares with the
registry: after a failed rollback the list is empty and only the flag `failed`
remembers the rest.  `Staffed` says that a graph without workers never gets
beyond its contract.  `OpenPatchFirst` is the step the code never states: while
the outcome of a patch is open no other node requires recovery, so no recovery
reaches the release before the patch is decided.

**The inductive invariant of the runner.** None of the safety properties is
inductive: a save in flight can overwrite the row, so they must be carried by
the saves too.  `IInv` adds: no client and no save is ahead of the row
(`VersionsBehind`); a row that does not exist is all pending; an idle client
holds nothing; a client waits for exactly one save and only for its own
(`SavesOwned`); a save whose expected version is the row's holds a graph that is
a legal step from the row (`SavesLegal`), so that committing it keeps the order;
jobs belong to nodes the row shows as Running and not to two clients at once
(`JobsOnce`), and what they report happened (`JobsTruthful`); a node with a
reconciliation has ended, and no legal step leaves that state
(`ReconciledEnded`); and a client with the current version holds the row up to
unsaved cancellations (`MemEdited`).  An obsolete save cannot commit, which is
why nothing has to be said about it.

Assumptions used: `EdgeAssumption`, `AcyclicAssumption` (from `add_edge`),
`DroppedAssumption` and `BoundAssumption` (naming only), `LimitAssumption`,
`RunAssumption`, `GateAssumption`, `SessionAssumption`, `ParameterAssumption`
(bounds), `RosterAssumption` (a roster without repetitions) and
`CallAssumption` (answers are non-empty sequences of calls).  TLC evaluates them in
the runs.

**Only model-checked:** liveness (`ClaimsEndEventually`, `PendingMoves`,
`InFlightEnds`, `SessionSettles`), which rests on fairness and ENABLED and is
beyond the prover.  `RunnerRefusesOnlyRepeats` and `DriverEndsItsWork` prove the
part of `ClaimsEndEventually` that is about safety: an uninterrupted driver is
never refused, and if it returns, its claims are free.  `TaskEnds` and
`AttemptsEnd` prove the variants that `ClaimsEndEventually`, `InFlightEnds` and
`PendingMoves` rest on; that the steps are taken is fairness.

## 5. Findings

1. `mutation_plan_fails`: when planning the patch fails, the driver returns
   before the release stage (`agent/orchestrator.rs:3752`).  The files stay
   claimed, the release node stays Pending and no node requires recovery, while
   the graph's documentation says that claims are cleaned up after success and
   failure (`agent/organization.rs:267`).
2. `mutation_stranded`: a crash between two nodes, for instance after the claims
   were recorded, recovers to a graph without a node in RecoveryRequired.
   Start-up reports it as awaiting explicit recovery
   (`zhongshu-orb/src/main.rs:776`), but the recovery commands accept only such
   nodes, so nothing releases the claims.
3. `task_cancel_lost`: the planner ends with `update_status(Planning)`, whose SQL
   has no condition on the status (`core/task/planner.rs:78`,
   `core/task/repository.rs:472`).  A cancel given while the model is asked is
   overwritten, and the "Post-plan cancel check"
   (`zhongshu-orb/src/services.rs:354`) reads what the planner wrote.
4. `task_swept_alive`: `list_stale_inflight` measures
   `COALESCE(started_at, created_at)` (`core/task/repository.rs:359`), but the
   executor sets no `started_at`, so the recovery of crashed executors
   (`zhongshu-orb/src/services.rs:836`) fails any task older than ten minutes
   while it is executed.
5. `agent_notes_lost`: a text given to a busy agent is queued with the notice that
   it will be handled after the current reply
   (`zhongshu-orb/src/handler.rs:418`, `app.rs:1562`).  `try_flush` and the
   listener deliver the whole queue, and only the first message can start a run;
   the others reach a busy agent as interruptions (`app.rs:1568`, `1594`).  An
   interruption's text is never used again: `build_recovery_prompt` needs a
   partial answer or completed steps, and nothing outside the tests records any.

Observations without a run: a task whose steps went unverified is said
to be left pending (`zhongshu-orb/src/services.rs:609`); its status is planning,
so the executor skips it whenever the scan publishes it again, and it ends as
failed when the sweep of tasks in flight takes it.  A task that `schedule_retry`
puts back to pending while its last attempt is claimed stays pending, with no
retry left; `PendingMoves` says nothing about it.

A mutation task to which nobody was assigned fails its contract and leaves its
review and its apply pending (`agent/orchestrator.rs:2023`).  Its row is never
finished, so the start-up scan reports it as awaiting explicit recovery every time,
and no recovery command applies to it; it holds no claim (`EndsWhatItBegins`).

From the session:

* When the context cannot be built the task returns and the state stays busy
  (`app.rs:698`): `SessionSettles` has to name that end (`pc = "stuck"`).
* `AGENT_TIMEOUT` covers the attempt only: see the fairness of `agent_session`.
* The dispatcher skips any completed call of the run whose policy is not
  `AlwaysExecute` (`action/policy.rs:22`), also when no interruption came between:
  a model that writes A, then B, then A again in one run is told that the third
  call succeeded.  `tool/spec.rs` says of edits "Verify workspace state before
  retrying".
* After a stop the loop goes on with the remaining calls of the answer; each is
  started and cancelled.  The stop is looked at before the next question only.
* A stop pressed after a restart and before the first instruction replaces the
  reason `process_restart_recovery`: the recovered run can no longer be resumed
  in this process.
* A text typed while a request is shown denies it (`handler.rs:389`) before
  `AgentController::run` looks for the approval keyword (`app.rs:485`).
* `AGENT_TIMEOUT` drops a call without its end row and leaves its request
  pending; a later decision on it grants the tool.
* Checkpoints of stopped and timed-out runs are never deleted; they are not
  offered for recovery, because the run is finished.
* The callbacks of the session and the dispatcher journal each call under two
  different keys.

## 6. What is not modelled

* The non-durable variants of the drivers (`execute_organization_mutation_task`
  without a store): same stages, no recovery.
* Review rules, ownership checks, proposal validation: data; their verdict is a
  nondeterministic choice.
* A claim request in flight when its driver is aborted: the registry client
  awaits it, so the request may land after a later recovery read the facts.
* Several background tasks at once: the executor takes them one after the other;
  their steps' rows, runbooks and artifacts are payload.
* Deletion of checkpoint rows (`delete_graph`): it has no caller outside tests.
* In the chat session: the moment in which another thread holds the lock that
  `try_claim` tries; an Idle event lost to a lagging listener (the queued note
  then waits for the next one); the classification of commands (a call is gated
  or not); the harness's feedback in the conversation; a checkpoint or ledger
  write that the database refuses, which the code only logs.
* The organization and the delegations use the same run controller as the chat.
  `OrganizationService::cancel` clears its busy flag and leaves `finish_run` to a
  spawned task (`organization_service.rs:474`), which may finish a run the chat
  has started since.  `AgentSession` has no organization in it.
* Parsing, rendering, prompts, sandboxes, equipment manifests: data and I/O.

## 7. Plan

In order of weight:

1. `OrganizationController`: busy flag, session, cancel and the spawned
   `finish_run` of `organization_service.rs` beside `AgentSession`.
2. `GoalWorkflow`: suggestion to goal to task over a lossy broadcast channel, with the
   scheduler and the compensation scan: no goal without a task, no second task.
3. `PatchEngine`: plan, staleness check and apply against files that others
   change.
