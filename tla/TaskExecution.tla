--------------------------- MODULE TaskExecution ---------------------------
(***************************************************************************)
(* One background task: its row (core/task/repository.rs), the executor    *)
(* that claims, plans, runs and finishes it, the compensation scan and the *)
(* start-up recovery (zhongshu-orb services.rs and main.rs), and the       *)
(* commands a user or an agent gives (core/task/tool.rs, handler.rs).      *)
(*                                                                         *)
(* The executor is one sequential loop in one process.  A step of a reader *)
(* and of a later writer are separate wherever the code reads the row,     *)
(* goes on, and writes it later.  The lease adds nothing here: only rows   *)
(* in flight carry a claim, and the executor never claims such a row.      *)
(***************************************************************************)
EXTENDS Naturals

CONSTANTS
  MaxRetries,    \* max_retries of the row
  MaxSteps,      \* length of a plan
  MaxQueued,     \* bound on Triggered events waiting for the executor
  MaxLost,       \* bound on events lost to lag
  MaxRestarts    \* bound on restarts of the process

ASSUME LimitAssumption ==
  /\ MaxRetries \in Nat \ {0} /\ MaxSteps \in Nat \ {0} /\ MaxQueued \in Nat \ {0}
  /\ MaxLost \in Nat /\ MaxRestarts \in Nat

VARIABLES
  row,         \* status, claim and retry_count
  age,         \* created_at: 0 fresh, 1 over 300 s ago, 2 over 600 s ago
  queued,      \* Triggered events the executor has not received
  pc,          \* where the executor is
  left,        \* steps of the plan still to run
  bad,         \* step_failed and step_unverified of this attempt
  seen,        \* retry_count as record_failure read it
  finishing,   \* mark_completed calls running in the background
  listed,      \* sweeps that have this task on their list
  retrying,    \* a retry command is between its read and its write
  booting,     \* the start-up recovery is still to come
  budget,      \* events that may still be lost, restarts still to come
  attempts,    \* history: successful claims
  clean,       \* history: every step of the attempt so far was verified
  vouched      \* history: an attempt ended clean, or somebody completed it

vars == <<row, age, queued, pc, left, bad, seen, finishing, listed, retrying,
          booting, budget, attempts, clean, vouched>>

local == <<pc, left, bad, seen, finishing>>
history == <<attempts, clean, vouched>>
service == <<age, listed, retrying, booting, budget>>

InFlight == {"planning", "running"}
Ended == {"completed", "failed", "cancelled"}
Status == {"pending"} \cup InFlight \cup Ended

Defect == {"failed", "unverified"}
Report == Defect \cup {"verified"}

Sweep == {"boot", "scan"}

Place == {"idle", "planning", "rejecting", "step", "stepping", "finalize",
          "failing", "requeue"}

TypeOK ==
  /\ row \in [status : Status, claimed : BOOLEAN, retries : 0 .. MaxRetries + 1]
  /\ age \in 0 .. 2
  /\ queued \in 0 .. MaxQueued
  /\ pc \in Place
  /\ left \in 0 .. MaxSteps
  /\ bad \subseteq Defect
  /\ seen \in 0 .. MaxRetries
  /\ finishing \in Nat
  /\ listed \subseteq Sweep
  /\ retrying \in BOOLEAN /\ booting \in BOOLEAN
  /\ budget \in [lost : 0 .. MaxLost, restarts : 0 .. MaxRestarts]
  /\ attempts \in Nat
  /\ clean \in BOOLEAN /\ vouched \in BOOLEAN

\* create, and the Triggered event its caller publishes.
Init ==
  /\ row = [status |-> "pending", claimed |-> FALSE, retries |-> 0]
  /\ age = 0 /\ queued = 1
  /\ pc = "idle" /\ left = 0 /\ bad = {} /\ seen = 0 /\ finishing = 0
  /\ listed = {} /\ retrying = FALSE /\ booting = FALSE
  /\ budget = [lost |-> MaxLost, restarts |-> MaxRestarts]
  /\ attempts = 0 /\ clean = TRUE /\ vouched = FALSE

-----------------------------------------------------------------------------
(* Statements on the row. *)

Unclaimed(status) == [row EXCEPT !.status = status, !.claimed = FALSE]

\* mark_failed and mark_cancelled leave an ended task alone; mark_completed
\* leaves only a cancelled one alone.  All of them drop the claim.
MarkFailed == IF row.status \in Ended THEN row ELSE Unclaimed("failed")
MarkCancelled == IF row.status \in Ended THEN row ELSE Unclaimed("cancelled")
MarkCompleted == IF row.status = "cancelled" THEN row ELSE Unclaimed("completed")

\* A full channel drops its oldest event.
Publish == queued' = IF queued < MaxQueued THEN queued + 1 ELSE queued

-----------------------------------------------------------------------------
(* The executor. *)

\* The check before the claim, and claim_task's own conditions.
Claimable ==
  /\ row.status = "pending"
  /\ row.retries < MaxRetries
  /\ ~row.claimed

SkipTrigger ==
  /\ pc = "idle" /\ queued > 0 /\ ~Claimable
  /\ queued' = queued - 1
  /\ UNCHANGED <<row, local, service, history>>

\* Faulty variants: claim_task ignores max_retries; it counts no attempt.
ClaimAnyway ==
  /\ pc = "idle" /\ queued > 0 /\ row.status = "pending"
  /\ queued' = queued - 1
  /\ row' = [status |-> "running", claimed |-> TRUE, retries |-> row.retries + 1]
  /\ pc' = "planning" /\ bad' = {}
  /\ attempts' = attempts + 1 /\ clean' = TRUE
  /\ UNCHANGED <<left, seen, finishing, service, vouched>>

ClaimUncounted ==
  /\ pc = "idle" /\ queued > 0 /\ Claimable
  /\ queued' = queued - 1
  /\ row' = [row EXCEPT !.status = "running", !.claimed = TRUE]
  /\ pc' = "planning" /\ bad' = {}
  /\ attempts' = attempts + 1 /\ clean' = TRUE
  /\ UNCHANGED <<left, seen, finishing, service, vouched>>

ClaimTask ==
  /\ pc = "idle" /\ queued > 0 /\ Claimable
  /\ queued' = queued - 1
  /\ row' = [status |-> "running", claimed |-> TRUE, retries |-> row.retries + 1]
  /\ pc' = "planning" /\ bad' = {}
  /\ attempts' = attempts + 1 /\ clean' = TRUE
  /\ UNCHANGED <<left, seen, finishing, service, vouched>>

\* The planner sets the status after its call to the model, whatever the status
\* has become.  An empty plan is then a failure.
FinishPlan(steps) ==
  /\ pc = "planning"
  /\ row' = [row EXCEPT !.status = "planning"]
  /\ pc' = IF steps = 0 THEN "rejecting" ELSE "step"
  /\ left' = steps
  /\ UNCHANGED <<queued, bad, seen, finishing, service, history>>

FailPlan ==
  /\ pc \in {"planning", "rejecting"}
  /\ row' = MarkFailed
  /\ pc' = "idle"
  /\ UNCHANGED <<queued, left, bad, seen, finishing, service, history>>

\* A step starts with a look at the row: a cancelled task fails its attempt.
BeginStep ==
  /\ pc = "step"
  /\ IF row.status = "cancelled"
       THEN pc' = "finalize" /\ bad' = bad \cup {"failed"}
       ELSE pc' = "stepping" /\ UNCHANGED bad
  /\ UNCHANGED <<row, queued, left, seen, finishing, service, history>>

AfterStep == /\ left' = left - 1
             /\ pc' = IF left = 1 THEN "finalize" ELSE "step"

\* Faulty variant: only the last step's report counts.
EndStepOnly(report) ==
  /\ pc = "stepping"
  /\ AfterStep
  /\ bad' = {report} \cap Defect
  /\ clean' = (clean /\ report = "verified")
  /\ UNCHANGED <<row, queued, seen, finishing, service, attempts, vouched>>

\* The worker's report.  After an unsuccessful step the plan goes on.
EndStep(report) ==
  /\ pc = "stepping"
  /\ AfterStep
  /\ bad' = bad \cup ({report} \cap Defect)
  /\ clean' = (clean /\ report = "verified")
  /\ UNCHANGED <<row, queued, seen, finishing, service, attempts, vouched>>

\* The worker returned an error: the plan stops.
BreakStep ==
  /\ pc = "stepping"
  /\ pc' = "finalize"
  /\ bad' = bad \cup {"failed"}
  /\ clean' = FALSE
  /\ UNCHANGED <<row, queued, left, seen, finishing, service, attempts, vouched>>

\* The look at the row for a late cancel decides what follows.  The completion
\* runs in the background; an unverified task is left as it is.
Finalize ==
  /\ pc = "finalize"
  /\ LET completes == row.status # "cancelled" /\ bad = {} IN
       /\ pc' = IF row.status # "cancelled" /\ "failed" \in bad THEN "failing" ELSE "idle"
       /\ finishing' = IF completes THEN finishing + 1 ELSE finishing
       /\ vouched' = (vouched \/ (completes /\ clean))
  /\ UNCHANGED <<row, queued, left, bad, seen, service, attempts, clean>>

CompleteLate ==
  /\ finishing > 0
  /\ finishing' = finishing - 1
  /\ row' = MarkCompleted
  /\ UNCHANGED <<queued, pc, left, bad, seen, service, history>>

\* record_failure: it reads the row ...
ReadFailure ==
  /\ pc = "failing"
  /\ pc' = IF row.status = "cancelled" THEN "idle" ELSE "requeue"
  /\ seen' = row.retries
  /\ UNCHANGED <<row, queued, left, bad, finishing, service, history>>

\* Faulty variant: the claim survives the requeue.
WriteFailureClaimed ==
  /\ pc = "requeue"
  /\ pc' = "idle"
  /\ IF seen + 1 >= MaxRetries
       THEN row' = [row EXCEPT !.status = "failed", !.retries = seen + 1]
            /\ UNCHANGED queued
       ELSE row' = [row EXCEPT !.status = "pending", !.retries = seen + 1]
            /\ Publish
  /\ UNCHANGED <<left, bad, seen, finishing, service, history>>

\* ... and writes it, whatever it has become.
WriteFailure ==
  /\ pc = "requeue"
  /\ pc' = "idle"
  /\ IF seen + 1 >= MaxRetries
       THEN row' = [Unclaimed("failed") EXCEPT !.retries = seen + 1]
            /\ UNCHANGED queued
       ELSE row' = [Unclaimed("pending") EXCEPT !.retries = seen + 1]
            /\ Publish
  /\ UNCHANGED <<left, bad, seen, finishing, service, history>>

-----------------------------------------------------------------------------
(* Compensation, start-up and the event channel. *)

GrowOld ==
  /\ age < 2
  /\ age' = age + 1
  /\ UNCHANGED <<row, queued, local, listed, retrying, booting, budget, history>>

\* Faulty variant: only planned tasks are published again.
RepublishPlanned ==
  /\ age >= 1 /\ row.status = "planning"
  /\ queued < MaxQueued
  /\ queued' = queued + 1
  /\ UNCHANGED <<row, local, service, history>>

\* list_stale_pending, then Triggered once more.
Republish ==
  /\ age >= 1 /\ row.status \in {"pending", "planning"}
  /\ queued < MaxQueued
  /\ queued' = queued + 1
  /\ UNCHANGED <<row, local, service, history>>

\* Faulty variant: only running tasks count as in flight.
ListRunning(s) ==
  /\ s \notin listed
  /\ (s = "boot" /\ booting) \/ (s = "scan" /\ age = 2 /\ row.status = "running")
  /\ booting' = (booting /\ s # "boot")
  /\ listed' = IF row.status = "running" THEN listed \cup {s} ELSE listed
  /\ UNCHANGED <<row, age, queued, local, retrying, budget, history>>

\* recover_stale_inflight lists old tasks in flight.  The age is that of the
\* task: nothing in this protocol sets started_at.  Start-up lists every age.
ListInFlight(s) ==
  /\ s \notin listed
  /\ (s = "boot" /\ booting) \/ (s = "scan" /\ age = 2 /\ row.status \in InFlight)
  /\ booting' = (booting /\ s # "boot")
  /\ listed' = IF row.status \in InFlight THEN listed \cup {s} ELSE listed
  /\ UNCHANGED <<row, age, queued, local, retrying, budget, history>>

MarkStale(s) ==
  /\ s \in listed
  /\ listed' = listed \ {s}
  /\ row' = MarkFailed
  /\ UNCHANGED <<age, queued, local, retrying, booting, budget, history>>

\* The executor's receiver lags behind the channel.
Lag ==
  /\ queued > 0 /\ budget.lost > 0
  /\ queued' = queued - 1
  /\ budget' = [budget EXCEPT !.lost = @ - 1]
  /\ UNCHANGED <<row, local, age, listed, retrying, booting, history>>

\* The process ends and is started again: only the row is left, and the
\* services run before the start-up recovery does.
Restart ==
  /\ budget.restarts > 0
  /\ budget' = [budget EXCEPT !.restarts = @ - 1]
  /\ queued' = 0 /\ pc' = "idle" /\ left' = 0 /\ bad' = {} /\ seen' = 0
  /\ finishing' = 0 /\ listed' = {} /\ retrying' = FALSE
  /\ booting' = TRUE
  /\ UNCHANGED <<row, age, history>>

\* EventLogger::replay publishes the logged events before that recovery.
Replay ==
  /\ booting
  /\ queued < MaxQueued
  /\ queued' = queued + 1
  /\ UNCHANGED <<row, local, service, history>>

-----------------------------------------------------------------------------
(* Commands. *)

Complete ==
  /\ row.status # "cancelled"
  /\ row' = MarkCompleted
  /\ vouched' = TRUE
  /\ UNCHANGED <<queued, local, service, attempts, clean>>

Cancel ==
  /\ row.status \notin Ended
  /\ row' = MarkCancelled
  /\ UNCHANGED <<queued, local, service, history>>

\* schedule_retry reads the row ...
ReadRetry ==
  /\ ~retrying
  /\ row.status # "cancelled" /\ row.retries < MaxRetries
  /\ retrying' = TRUE
  /\ UNCHANGED <<row, age, queued, local, listed, booting, budget, history>>

\* ... and writes it, whatever it has become.
WriteRetry ==
  /\ retrying
  /\ retrying' = FALSE
  /\ row' = Unclaimed("pending")
  /\ Publish
  /\ UNCHANGED <<age, local, listed, booting, budget, history>>

-----------------------------------------------------------------------------
Executor ==
  \/ SkipTrigger \/ ClaimTask \/ FailPlan
  \/ \E steps \in 0 .. MaxSteps : FinishPlan(steps)
  \/ BeginStep \/ BreakStep
  \/ \E report \in Report : EndStep(report)
  \/ Finalize \/ ReadFailure \/ WriteFailure

Scan == \E s \in Sweep : ListInFlight(s) \/ MarkStale(s)

Command == Complete \/ Cancel \/ ReadRetry \/ WriteRetry

Next ==
  \/ Executor \/ CompleteLate \/ Scan \/ Command
  \/ GrowOld \/ Republish \/ Lag \/ Restart \/ Replay

Spec == Init /\ [][Next]_vars

\* Nothing limits the planner's call to the model (provider.chat) or how long a
\* worker waits for an approval: in both the executor depends on others.
AwaitsOthers == pc \in {"planning", "stepping"}

\* Time passes, the executor and the scan are loops of their own, background
\* writes end, and a command that read the row writes it.  Nobody has to give a
\* command or an answer, and no event has to be lost.
FairSpec ==
  /\ Spec
  /\ WF_vars(~AwaitsOthers /\ Executor)
  /\ WF_vars(CompleteLate) /\ WF_vars(Scan)
  /\ WF_vars(GrowOld) /\ WF_vars(Republish) /\ WF_vars(WriteRetry)

-----------------------------------------------------------------------------
(* Properties *)

\* max_retries bounds how often a task is executed, whatever mixture of failed
\* plans, failed steps, restarts and retry commands leads to the executions.
AttemptsBounded == attempts <= MaxRetries

\* A claim is dropped with the work it stands for.  A task that went back to
\* pending with a claim would wait for a lease nobody renews.
ClaimMeansInFlight == row.claimed => row.status \in InFlight

\* A task is completed by a person or by an attempt whose steps were all
\* verified, never by one of which a single step failed or was unverified.
CompletedMeansVouched == row.status = "completed" => vouched

\* A pending task with retries left is executed or ended, or its retries are
\* used up, although events are lost and the process is restarted: it stays
\* behind only if the one executor waits for ever in a call without a limit.
PendingMoves ==
  <>[](row.status = "pending" /\ row.retries < MaxRetries) => <>[]AwaitsOthers

\* No task stays in flight for ever: neither one whose process died, nor one
\* whose steps went unverified, nor one whose executor waits for ever.
InFlightEnds == row.status \in InFlight ~> row.status \notin InFlight

\* update_status is documented to have "terminal-state guards on relevant arms"
\* and the executor checks for a cancel after planning: a cancel is final.
CancelIsFinal == [][row.status = "cancelled" => row'.status = "cancelled"]_vars

\* The scan recovers "stale in-flight tasks (mid-executor crash)": it fails no
\* task the executor is working on.
OnlyAbandonedSwept ==
  [][row.status \in InFlight /\ row'.status = "failed" => pc = "idle" \/ pc' # pc]_vars
=============================================================================
