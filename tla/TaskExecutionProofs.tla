------------------------ MODULE TaskExecutionProofs ------------------------
(***************************************************************************)
(* What a row of tasks keeps, for every limit.  AttemptsBounded is not     *)
(* inductive: record_failure writes a count it read earlier, so the        *)
(* invariant says how that count, the row's and the number of executions   *)
(* are related at each place of the executor.                              *)
(***************************************************************************)
EXTENDS TaskExecution, TLAPS

Working == {"step", "stepping"}

Counts ==
  /\ attempts <= row.retries
  /\ attempts <= MaxRetries
  /\ pc # "idle" => row.retries <= MaxRetries
  /\ pc = "requeue" => attempts <= seen
  /\ pc \in Working => left > 0

IInv == TypeOK /\ Counts /\ ClaimMeansInFlight

-----------------------------------------------------------------------------

LEMMA InitInv == Init => IInv
<1> SUFFICES ASSUME Init PROVE IInv
  OBVIOUS
<1>1. /\ row \in [status : Status, claimed : BOOLEAN, retries : 0 .. MaxRetries + 1]
      /\ budget \in [lost : 0 .. MaxLost, restarts : 0 .. MaxRestarts]
  BY LimitAssumption DEF Init, Status
<1>2. retrying \in BOOLEAN /\ booting \in BOOLEAN /\ clean \in BOOLEAN /\ vouched \in BOOLEAN
  BY Zenon DEF Init
<1>3. TypeOK
  BY <1>1, <1>2, LimitAssumption DEF Init, TypeOK, Place
<1> QED
  BY <1>3, LimitAssumption DEF Init, IInv, Counts, ClaimMeansInFlight, Working

\* The executor's steps keep the invariant.
LEMMA ExecutorKeeps == IInv /\ Executor => IInv'
<1> SUFFICES ASSUME IInv, Executor PROVE IInv'
  OBVIOUS
<1> USE LimitAssumption DEF IInv, TypeOK, Counts, ClaimMeansInFlight, Working, Place, Status,
        InFlight, Ended, service, history
<1>1. CASE SkipTrigger
  BY <1>1 DEF SkipTrigger, local
<1>2. CASE ClaimTask
  BY <1>2 DEF ClaimTask, Claimable
<1>3. CASE FailPlan
  BY <1>3 DEF FailPlan, MarkFailed, Unclaimed
<1>4. ASSUME NEW steps \in 0 .. MaxSteps, FinishPlan(steps) PROVE IInv'
  BY <1>4 DEF FinishPlan
<1>5. CASE BeginStep
  BY <1>5 DEF BeginStep, Defect
<1>6. CASE BreakStep
  BY <1>6 DEF BreakStep, Defect
<1>7. ASSUME NEW report \in Report, EndStep(report) PROVE IInv'
  BY <1>7 DEF EndStep, AfterStep, Defect
<1>8. CASE Finalize
  BY <1>8 DEF Finalize
<1>9. CASE ReadFailure
  BY <1>9 DEF ReadFailure
<1>10. CASE WriteFailure
  <2>1. seen + 1 \in 0 .. MaxRetries + 1
    OBVIOUS
  <2>2. \/ row' = [status |-> "failed", claimed |-> FALSE, retries |-> seen + 1]
        \/ row' = [status |-> "pending", claimed |-> FALSE, retries |-> seen + 1]
    BY <1>10 DEF WriteFailure, Unclaimed
  <2>3. row' \in [status : Status, claimed : BOOLEAN, retries : 0 .. MaxRetries + 1]
    <3>1. CASE row' = [status |-> "failed", claimed |-> FALSE, retries |-> seen + 1]
      BY <2>1, <3>1, Zenon
    <3>2. CASE row' = [status |-> "pending", claimed |-> FALSE, retries |-> seen + 1]
      BY <2>1, <3>2, Zenon
    <3> QED
      BY <2>2, <3>1, <3>2
  <2>4. row'.retries = seen + 1 /\ ~row'.claimed
    BY <2>2
  <2>5. queued' \in 0 .. MaxQueued
    BY <1>10 DEF WriteFailure, Publish
  <2> QED
    BY <1>10, <2>3, <2>4, <2>5 DEF WriteFailure
<1> QED
  BY <1>1, <1>2, <1>3, <1>4, <1>5, <1>6, <1>7, <1>8, <1>9, <1>10 DEF Executor

\* A command or a compensation writes its status and drops the claim, or it
\* leaves the row alone.
LEMMA RowWritten ==
  ASSUME IInv, NEW status \in Status, row' = row \/ row' = Unclaimed(status)
  PROVE  /\ row' \in [status : Status, claimed : BOOLEAN, retries : 0 .. MaxRetries + 1]
         /\ row'.retries = row.retries
         /\ ClaimMeansInFlight'
<1>1. row \in [status : Status, claimed : BOOLEAN, retries : 0 .. MaxRetries + 1]
  BY DEF IInv, TypeOK
<1>2. CASE row' = row
  BY <1>1, <1>2 DEF IInv, ClaimMeansInFlight
<1>3. CASE row' = Unclaimed(status)
  <2>1. row' = [status |-> status, claimed |-> FALSE, retries |-> row.retries]
    BY <1>1, <1>3 DEF Unclaimed
  <2>2. row.retries \in 0 .. MaxRetries + 1
    BY <1>1
  <2>3. row' \in [status : Status, claimed : BOOLEAN, retries : 0 .. MaxRetries + 1]
    BY <2>1, <2>2, Zenon
  <2>4. row'.retries = row.retries /\ ~ row'.claimed
    BY <2>1
  <2> QED
    BY <2>3, <2>4 DEF ClaimMeansInFlight
<1> QED
  BY <1>2, <1>3

\* What such a write leaves to be shown: the variables beside the row.
LEMMA BesideTheRow ==
  ASSUME IInv,
         row' \in [status : Status, claimed : BOOLEAN, retries : 0 .. MaxRetries + 1],
         row'.retries = row.retries, ClaimMeansInFlight',
         queued' \in 0 .. MaxQueued, listed' \subseteq Sweep, finishing' \in Nat,
         retrying' \in BOOLEAN, vouched' \in BOOLEAN,
         UNCHANGED <<pc, left, bad, seen, age, booting, budget, attempts, clean>>
  PROVE  IInv'
<1>1. /\ age' \in 0 .. 2 /\ pc' \in Place /\ left' \in 0 .. MaxSteps /\ bad' \subseteq Defect
      /\ seen' \in 0 .. MaxRetries /\ attempts' \in Nat
      /\ budget' \in [lost : 0 .. MaxLost, restarts : 0 .. MaxRestarts]
  BY DEF IInv, TypeOK
<1>2. booting' \in BOOLEAN /\ clean' \in BOOLEAN
  BY DEF IInv, TypeOK
<1>3. TypeOK'
  BY <1>1, <1>2, Zenon DEF TypeOK
<1>4. Counts'
  BY DEF IInv, Counts, Working
<1> QED
  BY <1>3, <1>4 DEF IInv

\* The compensation and the commands keep the invariant.
LEMMA WritesKeep ==
  ASSUME IInv,
         \/ CompleteLate \/ Complete \/ Cancel \/ WriteRetry
         \/ \E s \in Sweep : MarkStale(s)
  PROVE  IInv'
<1>1. /\ queued \in 0 .. MaxQueued /\ listed \subseteq Sweep /\ finishing \in Nat
      /\ retrying \in BOOLEAN /\ vouched \in BOOLEAN
  BY DEF IInv, TypeOK
<1>2. CASE CompleteLate
  <2>1. row' = row \/ row' = Unclaimed("completed")
    BY <1>2 DEF CompleteLate, MarkCompleted
  <2>2. /\ UNCHANGED <<queued, listed, retrying, vouched>>
        /\ UNCHANGED <<pc, left, bad, seen, age, booting, budget, attempts, clean>>
    BY <1>2 DEF CompleteLate, local, service, history
  <2>3. finishing' \in Nat
    BY <1>1, <1>2 DEF CompleteLate
  <2> QED
    BY <1>1, <2>1, <2>2, <2>3, RowWritten, BesideTheRow DEF Status, InFlight, Ended
<1>3. CASE Complete
  <2>1. row' = row \/ row' = Unclaimed("completed")
    BY <1>3 DEF Complete, MarkCompleted
  <2>2. /\ UNCHANGED <<queued, listed, finishing, retrying>>
        /\ UNCHANGED <<pc, left, bad, seen, age, booting, budget, attempts, clean>>
    BY <1>3 DEF Complete, local, service, history
  <2>3. vouched' \in BOOLEAN
    BY <1>3, Zenon DEF Complete
  <2> QED
    BY <1>1, <2>1, <2>2, <2>3, RowWritten, BesideTheRow DEF Status, InFlight, Ended
<1>4. CASE Cancel
  <2>1. row' = row \/ row' = Unclaimed("cancelled")
    BY <1>4 DEF Cancel, MarkCancelled
  <2>2. /\ UNCHANGED <<queued, listed, finishing, retrying, vouched>>
        /\ UNCHANGED <<pc, left, bad, seen, age, booting, budget, attempts, clean>>
    BY <1>4 DEF Cancel, local, service, history
  <2> QED
    BY <1>1, <2>1, <2>2, RowWritten, BesideTheRow DEF Status, InFlight, Ended
<1>5. CASE WriteRetry
  <2>1. row' = row \/ row' = Unclaimed("pending")
    BY <1>5 DEF WriteRetry
  <2>2. /\ UNCHANGED <<listed, finishing, vouched>>
        /\ UNCHANGED <<pc, left, bad, seen, age, booting, budget, attempts, clean>>
    BY <1>5 DEF WriteRetry, local, service, history
  <2>3. retrying' \in BOOLEAN
    BY <1>5, Zenon DEF WriteRetry
  <2>4. queued' \in 0 .. MaxQueued
    BY <1>1, <1>5, LimitAssumption DEF WriteRetry, Publish
  <2> QED
    BY <1>1, <2>1, <2>2, <2>3, <2>4, RowWritten, BesideTheRow DEF Status, InFlight, Ended
<1>6. ASSUME NEW s \in Sweep, MarkStale(s) PROVE IInv'
  <2>1. row' = row \/ row' = Unclaimed("failed")
    BY <1>6 DEF MarkStale, MarkFailed
  <2>2. /\ UNCHANGED <<queued, finishing, retrying, vouched>>
        /\ UNCHANGED <<pc, left, bad, seen, age, booting, budget, attempts, clean>>
    BY <1>6 DEF MarkStale, local, service, history
  <2>3. listed' \subseteq Sweep
    BY <1>1, <1>6 DEF MarkStale
  <2> QED
    BY <1>1, <2>1, <2>2, <2>3, RowWritten, BesideTheRow DEF Status, InFlight, Ended
<1> QED
  BY <1>2, <1>3, <1>4, <1>5, <1>6

\* So do the channel, the commands' reads, the scans and a restart.
LEMMA OthersKeep ==
  ASSUME IInv,
         \/ CompleteLate \/ Scan \/ Command
         \/ GrowOld \/ Republish \/ Lag \/ Restart \/ Replay
  PROVE  IInv'
<1> USE LimitAssumption DEF IInv, TypeOK, Counts, ClaimMeansInFlight, Working, Place, Status,
        InFlight, Ended, Sweep, local, history, service
<1>1. ASSUME NEW s \in Sweep, ListInFlight(s) PROVE IInv'
  BY <1>1 DEF ListInFlight
<1>2. CASE ReadRetry
  BY <1>2 DEF ReadRetry
<1>3. CASE GrowOld
  BY <1>3 DEF GrowOld
<1>4. CASE Republish
  BY <1>4 DEF Republish
<1>5. CASE Lag
  BY <1>5 DEF Lag
<1>6. CASE Restart
  <2>1. budget' \in [lost : 0 .. MaxLost, restarts : 0 .. MaxRestarts]
    BY <1>6 DEF Restart
  <2>2. retrying' \in BOOLEAN /\ booting' \in BOOLEAN
    BY <1>6, Zenon DEF Restart
  <2> QED
    BY <1>6, <2>1, <2>2 DEF Restart
<1>7. CASE Replay
  BY <1>7 DEF Replay
<1> HIDE DEF IInv
<1> QED
  BY <1>1, <1>2, <1>3, <1>4, <1>5, <1>6, <1>7, WritesKeep DEF Scan, Command

LEMMA StepInv == IInv /\ [Next]_vars => IInv'
<1>1. CASE UNCHANGED vars
  BY <1>1 DEF IInv, TypeOK, Counts, ClaimMeansInFlight, vars
<1> QED
  BY <1>1, ExecutorKeeps, OthersKeep DEF Next

LEMMA SpecInv == Spec => []IInv
  BY InitInv, StepInv, PTL DEF Spec

\* Every value the row and the executor's locals take is of its type, whatever
\* the limits: the retry count passes max_retries by one at most.
THEOREM TypeCorrect == Spec => []TypeOK
  BY SpecInv, PTL DEF IInv

\* max_retries bounds the executions of a task: no order of failures, restarts
\* and retry commands makes claim_task hand it out once more.
THEOREM ExecutionsBounded == Spec => []AttemptsBounded
<1>1. IInv => AttemptsBounded
  BY DEF IInv, Counts, AttemptsBounded
<1> QED
  BY <1>1, SpecInv, PTL

\* No write of any actor leaves a claim on a task that is not in flight, so a
\* pending task is always free to be claimed.
THEOREM ClaimsFollowWork == Spec => []ClaimMeansInFlight
  BY SpecInv, PTL DEF IInv

-----------------------------------------------------------------------------
(* Completion.  What completes a task later was decided earlier: a running   *)
(* completion stands for an attempt that ended clean, and a defect of any    *)
(* step so far is still in bad when the attempt is judged.                   *)

Attempting == {"planning", "step", "stepping", "finalize"}

DefectsRemembered == pc \in Attempting /\ bad = {} => clean

FinishingIsVouched == finishing > 0 => vouched

Vouching == DefectsRemembered /\ FinishingIsVouched /\ CompletedMeansVouched

LEMMA InitVouching == Init => Vouching
<1> SUFFICES ASSUME Init PROVE Vouching
  OBVIOUS
<1>1. clean /\ ~(finishing > 0) /\ row.status # "completed"
  <2>1. clean
    BY Zenon DEF Init
  <2>2. ~(finishing > 0) /\ row.status # "completed"
    BY DEF Init
  <2> QED
    BY <2>1, <2>2
<1> QED
  BY <1>1, Zenon DEF Vouching, DefectsRemembered, FinishingIsVouched, CompletedMeansVouched

\* A step that completes no task, takes up no completion and judges no attempt.
LEMMA StepsApart ==
  ASSUME Vouching, DefectsRemembered',
         vouched => vouched',
         finishing' > 0 => finishing > 0,
         row'.status = "completed" => row.status = "completed"
  PROVE  Vouching'
  BY Zenon DEF Vouching, FinishingIsVouched, CompletedMeansVouched

\* The record of defects outlives every step of the attempt.
LEMMA DefectsStay ==
  ASSUME TypeOK, Vouching, Next
  PROVE  DefectsRemembered'
<1> USE DEF Vouching, DefectsRemembered, Attempting
<1>1. CASE UNCHANGED <<pc, bad, clean>>
  BY <1>1
<1>2. CASE ClaimTask
  BY <1>2, Zenon DEF ClaimTask
<1>3. CASE FailPlan \/ Restart
  BY <1>3 DEF FailPlan, Restart
<1>4. ASSUME NEW steps \in 0 .. MaxSteps, FinishPlan(steps) PROVE DefectsRemembered'
  BY <1>4 DEF FinishPlan, history
<1>5. CASE BeginStep
  BY <1>5 DEF BeginStep, history
<1>6. CASE BreakStep
  BY <1>6 DEF BreakStep
<1>7. ASSUME NEW report \in Report, EndStep(report) PROVE DefectsRemembered'
  <2>1. HAVE pc' \in Attempting /\ bad' = {}
  <2>2. bad = {} /\ report \notin Defect
    BY <1>7, <2>1 DEF EndStep
  <2>3. report = "verified"
    BY <2>2 DEF Report
  <2>4. clean
    BY <1>7, <2>2 DEF EndStep
  <2>5. clean' = (clean /\ report = "verified")
    BY <1>7, Zenon DEF EndStep
  <2> QED
    BY <2>3, <2>4, <2>5, Zenon
<1>8. CASE Finalize \/ ReadFailure \/ WriteFailure
  BY <1>8 DEF Finalize, ReadFailure, WriteFailure, history
<1>9. CASE SkipTrigger \/ CompleteLate \/ Scan \/ Command \/ GrowOld \/ Republish \/ Lag \/ Replay
  <2>1. UNCHANGED <<pc, bad, clean>>
    BY <1>9 DEF SkipTrigger, CompleteLate, Scan, ListInFlight, MarkStale, Command, Complete,
                Cancel, ReadRetry, WriteRetry, GrowOld, Republish, Lag, Replay, local, history
  <2> QED
    BY <1>1, <2>1
<1> QED
  BY <1>2, <1>3, <1>4, <1>5, <1>6, <1>7, <1>8, <1>9 DEF Next, Executor

LEMMA VouchingKept == TypeOK /\ Vouching /\ [Next]_vars => Vouching'
<1> SUFFICES ASSUME TypeOK, Vouching, [Next]_vars PROVE Vouching'
  OBVIOUS
<1>1. CASE UNCHANGED vars
  BY <1>1 DEF vars, Vouching, DefectsRemembered, FinishingIsVouched, CompletedMeansVouched
<1> SUFFICES ASSUME Next PROVE Vouching'
  BY <1>1
<1>2. DefectsRemembered'
  BY DefectsStay
<1>3. CASE Finalize
  <2>1. CASE row.status # "cancelled" /\ bad = {}
    <3>1. clean
      BY <1>3, <2>1, Zenon DEF Finalize, Vouching, DefectsRemembered, Attempting
    <3>2. vouched'
      BY <1>3, <2>1, <3>1, Zenon DEF Finalize
    <3> QED
      BY <1>2, <3>2, Zenon DEF Vouching, FinishingIsVouched, CompletedMeansVouched
  <2>2. CASE ~(row.status # "cancelled" /\ bad = {})
    <3>1. finishing' = finishing /\ row' = row /\ (vouched => vouched')
      BY <1>3, <2>2, Zenon DEF Finalize
    <3> QED
      BY <1>2, <3>1, StepsApart, Zenon
  <2> QED
    BY <2>1, <2>2
<1>4. CASE CompleteLate
  <2>1. finishing > 0 /\ vouched' = vouched
    BY <1>4, Zenon DEF CompleteLate, history
  <2>2. vouched'
    BY <2>1, Zenon DEF Vouching, FinishingIsVouched
  <2> QED
    BY <1>2, <2>2, Zenon DEF Vouching, FinishingIsVouched, CompletedMeansVouched
<1>5. CASE Complete
  <2>1. vouched'
    BY <1>5, Zenon DEF Complete
  <2> QED
    BY <1>2, <2>1, Zenon DEF Vouching, FinishingIsVouched, CompletedMeansVouched
<1>6. CASE \/ SkipTrigger \/ ClaimTask \/ FailPlan \/ BeginStep \/ BreakStep
           \/ ReadFailure \/ WriteFailure \/ Scan \/ Cancel \/ ReadRetry \/ WriteRetry
           \/ GrowOld \/ Republish \/ Lag \/ Restart \/ Replay
           \/ \E steps \in 0 .. MaxSteps : FinishPlan(steps)
           \/ \E report \in Report : EndStep(report)
  <2>1. vouched' = vouched
    BY <1>6 DEF SkipTrigger, ClaimTask, FailPlan, BeginStep, BreakStep, ReadFailure, WriteFailure,
                Scan, ListInFlight, MarkStale, Cancel, ReadRetry, WriteRetry, GrowOld, Republish,
                Lag, Restart, Replay, FinishPlan, EndStep, history
  <2>2. finishing' = finishing \/ finishing' = 0
    BY <1>6 DEF SkipTrigger, ClaimTask, FailPlan, BeginStep, BreakStep, ReadFailure, WriteFailure,
                Scan, ListInFlight, MarkStale, Cancel, ReadRetry, WriteRetry, GrowOld, Republish,
                Lag, Restart, Replay, FinishPlan, EndStep, local
  <2>3. row'.status = "completed" => row.status = "completed"
    <3>1. CASE UNCHANGED row
      BY <3>1
    <3>2. CASE WriteFailure
      <4>1. row.status \in Status /\ row = [status |-> row.status, claimed |-> row.claimed,
                                           retries |-> row.retries]
        BY DEF TypeOK
      <4>2. \/ row' = [Unclaimed("failed") EXCEPT !.retries = seen + 1]
            \/ row' = [Unclaimed("pending") EXCEPT !.retries = seen + 1]
        BY <3>2, Zenon DEF WriteFailure
      <4> QED
        BY <4>1, <4>2 DEF Unclaimed
    <3>3. CASE ClaimTask \/ WriteRetry
      <4>1. CASE ClaimTask
        BY <4>1 DEF ClaimTask
      <4>2. CASE WriteRetry
        <5>1. row' = Unclaimed("pending")
          BY <4>2, Zenon DEF WriteRetry
        <5> QED
          BY <5>1 DEF TypeOK, Unclaimed
      <4> QED
        BY <3>3, <4>1, <4>2
    <3>4. CASE FailPlan \/ Cancel \/ (\E s \in Sweep : MarkStale(s))
      <4>1. row' = MarkFailed \/ row' = MarkCancelled
        BY <3>4, Zenon DEF FailPlan, Cancel, MarkStale
      <4> QED
        BY <4>1 DEF TypeOK, MarkFailed, MarkCancelled, Unclaimed
    <3>5. ASSUME NEW steps \in 0 .. MaxSteps, FinishPlan(steps)
          PROVE  row'.status = "completed" => row.status = "completed"
      BY <3>5 DEF TypeOK, FinishPlan
    <3>6. CASE \/ SkipTrigger \/ BeginStep \/ BreakStep \/ ReadFailure \/ ReadRetry
               \/ GrowOld \/ Republish \/ Lag \/ Restart \/ Replay
               \/ (\E s \in Sweep : ListInFlight(s))
               \/ \E report \in Report : EndStep(report)
      <4>1. UNCHANGED row
        BY <3>6 DEF SkipTrigger, BeginStep, BreakStep, ReadFailure, ReadRetry, GrowOld,
                    Republish, Lag, Restart, Replay, ListInFlight, EndStep
      <4> QED
        BY <3>1, <4>1
    <3> QED
      BY <1>6, <3>2, <3>3, <3>4, <3>5, <3>6 DEF Scan
  <2>4. finishing' > 0 => finishing > 0
    BY <2>2
  <2> QED
    BY <1>2, <2>1, <2>3, <2>4, StepsApart, Zenon
<1> QED
  BY <1>3, <1>4, <1>5, <1>6 DEF Next, Executor, Command

\* A completed row has been vouched for, though the completion itself runs in the
\* background, after the attempt and beside retries, sweeps, restarts and commands.
THEOREM CompletionsVouched == Spec => []CompletedMeansVouched
<1>1. Spec => []Vouching
  BY InitVouching, VouchingKept, TypeCorrect, PTL DEF Spec
<1> QED
  BY <1>1, PTL DEF Vouching

-----------------------------------------------------------------------------
(* The budget of retries.  record_failure writes a count that it read a step  *)
(* earlier; nobody else counts in between.                                    *)

ReadIsCurrent == pc = "requeue" => seen = row.retries

\* A statement that changes the status or the claim leaves the count alone.
LEMMA CountsSurvive ==
  ASSUME TypeOK
  PROVE  /\ \A status : Unclaimed(status).retries = row.retries
         /\ MarkFailed.retries = row.retries
         /\ MarkCancelled.retries = row.retries
         /\ MarkCompleted.retries = row.retries
<1>1. \A status : Unclaimed(status).retries = row.retries
  BY DEF TypeOK, Unclaimed
<1> QED
  BY <1>1 DEF MarkFailed, MarkCancelled, MarkCompleted

\* Only a claim and record_failure change the count.
LEMMA CountSteps ==
  ASSUME TypeOK, [Next]_vars
  PROVE  \/ ClaimTask \/ WriteFailure
         \/ row'.retries = row.retries /\ attempts' = attempts
<1> USE DEF local, history
<1>1. CASE UNCHANGED vars
  BY <1>1 DEF vars
<1>2. CASE \/ SkipTrigger \/ BeginStep \/ BreakStep \/ Finalize \/ ReadFailure \/ ReadRetry
           \/ GrowOld \/ Republish \/ Lag \/ Restart \/ Replay
           \/ (\E s \in Sweep : ListInFlight(s))
           \/ (\E report \in Report : EndStep(report))
  BY <1>2 DEF SkipTrigger, BeginStep, BreakStep, Finalize, ReadFailure, ReadRetry, GrowOld,
     Republish, Lag, Restart, Replay, ListInFlight, EndStep
<1>3. CASE FailPlan \/ CompleteLate \/ Complete \/ Cancel \/ WriteRetry
           \/ \E s \in Sweep : MarkStale(s)
  BY <1>3, CountsSurvive DEF FailPlan, CompleteLate, Complete, Cancel, WriteRetry, MarkStale
<1>4. ASSUME NEW steps \in 0 .. MaxSteps, FinishPlan(steps)
      PROVE  row'.retries = row.retries /\ attempts' = attempts
  BY <1>4 DEF FinishPlan, TypeOK
<1> QED
  BY <1>1, <1>2, <1>3, <1>4 DEF Next, Executor, Scan, Command

\* The count that record_failure is about to write is the one in the row.
LEMMA ReadStaysCurrent == TypeOK /\ ReadIsCurrent /\ [Next]_vars => ReadIsCurrent'
<1> SUFFICES ASSUME TypeOK, ReadIsCurrent, [Next]_vars, pc' = "requeue"
             PROVE  seen' = row'.retries
  BY DEF ReadIsCurrent
<1> USE DEF local, history
<1>1. CASE ReadFailure
  BY <1>1 DEF ReadFailure
<1>2. CASE UNCHANGED <<pc, seen>>
  <2>1. ~ ClaimTask /\ ~ WriteFailure
    BY <1>2 DEF ClaimTask, WriteFailure
  <2> QED
    BY <1>2, <2>1, CountSteps DEF ReadIsCurrent
<1>3. CASE UNCHANGED vars
  BY <1>2, <1>3 DEF vars
<1>4. CASE \/ ClaimTask \/ FailPlan \/ BeginStep \/ BreakStep \/ Finalize \/ WriteFailure \/ Restart
           \/ (\E steps \in 0 .. MaxSteps : FinishPlan(steps))
           \/ (\E report \in Report : EndStep(report))
  BY <1>4 DEF ClaimTask, FailPlan, BeginStep, BreakStep, Finalize, WriteFailure, Restart,
     FinishPlan, EndStep, AfterStep
<1>5. CASE \/ SkipTrigger \/ CompleteLate \/ Scan \/ Command \/ GrowOld \/ Republish \/ Lag \/ Replay
  <2>1. UNCHANGED <<pc, seen>>
    BY <1>5 DEF SkipTrigger, CompleteLate, Scan, ListInFlight, MarkStale, Command, Complete,
       Cancel, ReadRetry, WriteRetry, GrowOld, Republish, Lag, Replay
  <2> QED
    BY <1>2, <2>1
<1> QED
  BY <1>1, <1>3, <1>4, <1>5 DEF Next, Executor

\* Every execution and every failed attempt uses up a retry, and nothing gives one
\* back: neither the stale write of record_failure, nor a retry command, a sweep, a
\* late completion or a restart.  So a task is executed finitely often.
RetriesAreSpent ==
  [][/\ row'.retries >= row.retries
     /\ attempts' # attempts => row'.retries = row.retries + 1]_vars

LEMMA SpendStep ==
  TypeOK /\ ReadIsCurrent /\ [Next]_vars =>
    [/\ row'.retries >= row.retries
     /\ attempts' # attempts => row'.retries = row.retries + 1]_vars
<1> SUFFICES ASSUME TypeOK, ReadIsCurrent, [Next]_vars
             PROVE  /\ row'.retries >= row.retries
                    /\ attempts' # attempts => row'.retries = row.retries + 1
  OBVIOUS
<1>0. row.retries \in Nat /\ seen \in Nat
  BY LimitAssumption DEF TypeOK
<1>1. CASE ClaimTask
  BY <1>0, <1>1 DEF ClaimTask
<1>2. CASE WriteFailure
  <2>1. seen = row.retries /\ attempts' = attempts
    BY <1>2 DEF WriteFailure, ReadIsCurrent, history
  <2>2. row'.retries = seen + 1
    <3>1. \A status : [Unclaimed(status) EXCEPT !.retries = seen + 1].retries = seen + 1
      BY DEF Unclaimed, TypeOK
    <3> QED
      BY <1>2, <3>1 DEF WriteFailure
  <2> QED
    BY <1>0, <2>1, <2>2
<1> QED
  BY <1>0, <1>1, <1>2, CountSteps

THEOREM RetriesOnlyGrow == Spec => RetriesAreSpent
<1>1. Init => ReadIsCurrent
  BY DEF Init, ReadIsCurrent
<1> QED
  BY <1>1, TypeCorrect, ReadStaysCurrent, SpendStep, PTL DEF Spec, RetriesAreSpent

-----------------------------------------------------------------------------
(* An attempt runs out.  The executor's loop has no deadline of its own: that  *)
(* it comes back to its channel rests on the plan, which only gets shorter.    *)

\* The steps the executor has left in this attempt, at most.
Remaining ==
  CASE pc = "planning"               -> 2 * MaxSteps + 4
    [] pc = "step"                   -> 2 * left + 3
    [] pc = "stepping"               -> 2 * left + 2
    [] pc = "finalize"               -> 3
    [] pc = "failing"                -> 2
    [] pc \in {"rejecting", "requeue"} -> 1
    [] OTHER                         -> 0

ExecutorGoesOn ==
  \/ attempts' = attempts + 1
  \/ attempts' = attempts /\ Remaining' < Remaining
  \/ pc = "idle" /\ pc' = "idle" /\ queued' < queued

\* Each step of the executor begins an attempt, uses up a step of the one it is at
\* or drops a trigger, and nobody else prolongs an attempt: no command, no sweep
\* and no event makes the executor plan again or take a step twice.
AttemptRunsOut ==
  [][/\ attempts' # attempts + 1 => Remaining' <= Remaining
     /\ Executor => ExecutorGoesOn]_vars

LEMMA RemainingIsNat == IInv => Remaining \in Nat
<1> SUFFICES ASSUME IInv PROVE Remaining \in Nat
  OBVIOUS
<1>1. left \in Nat /\ MaxSteps \in Nat
  BY LimitAssumption DEF IInv, TypeOK
<1> QED
  BY <1>1 DEF Remaining

LEMMA ExecutorSteps ==
  ASSUME IInv, Executor
  PROVE  ExecutorGoesOn
<1>1. /\ left \in 0 .. MaxSteps /\ MaxSteps \in Nat /\ attempts \in Nat /\ queued \in Nat
      /\ pc \in Working => left > 0
  BY LimitAssumption DEF IInv, TypeOK, Counts
<1> USE DEF history
<1>2. CASE SkipTrigger
  BY <1>1, <1>2 DEF SkipTrigger, local, ExecutorGoesOn
<1>3. CASE ClaimTask
  BY <1>3 DEF ClaimTask, ExecutorGoesOn
<1>4. CASE FailPlan
  <2>1. pc \in {"planning", "rejecting"} /\ pc' = "idle" /\ attempts' = attempts
    BY <1>4 DEF FailPlan
  <2>2. Remaining \in {2 * MaxSteps + 4, 1} /\ Remaining' = 0
    BY <2>1 DEF Remaining
  <2> QED
    BY <1>1, <2>1, <2>2 DEF ExecutorGoesOn
<1>5. ASSUME NEW steps \in 0 .. MaxSteps, FinishPlan(steps) PROVE ExecutorGoesOn
  <2>1. /\ pc = "planning" /\ attempts' = attempts
        /\ pc' = "rejecting" \/ (pc' = "step" /\ left' = steps)
    BY <1>5 DEF FinishPlan
  <2>2. Remaining = 2 * MaxSteps + 4 /\ Remaining' \in {1, 2 * steps + 3}
    BY <2>1 DEF Remaining
  <2> QED
    BY <1>1, <2>1, <2>2 DEF ExecutorGoesOn
<1>6. CASE BeginStep
  <2>1. /\ pc = "step" /\ attempts' = attempts /\ left' = left
        /\ pc' \in {"finalize", "stepping"}
    BY <1>6 DEF BeginStep
  <2>2. Remaining = 2 * left + 3 /\ Remaining' \in {3, 2 * left + 2}
    BY <2>1 DEF Remaining
  <2>3. left > 0
    BY <1>1, <2>1 DEF Working
  <2> QED
    BY <1>1, <2>1, <2>2, <2>3 DEF ExecutorGoesOn
<1>7. CASE BreakStep \/ \E report \in Report : EndStep(report)
  <2>1. /\ pc = "stepping" /\ attempts' = attempts
        /\ pc' = "finalize" \/ (pc' = "step" /\ left' = left - 1)
    BY <1>7 DEF BreakStep, EndStep, AfterStep
  <2>2. Remaining = 2 * left + 2 /\ Remaining' \in {3, 2 * (left - 1) + 3}
    BY <2>1 DEF Remaining
  <2>3. left > 0
    BY <1>1, <2>1 DEF Working
  <2> QED
    BY <1>1, <2>1, <2>2, <2>3 DEF ExecutorGoesOn
<1>8. CASE Finalize \/ ReadFailure \/ WriteFailure
  <2>1. /\ attempts' = attempts
        /\ \/ pc = "finalize" /\ pc' \in {"failing", "idle"}
           \/ pc = "failing" /\ pc' \in {"requeue", "idle"}
           \/ pc = "requeue" /\ pc' = "idle"
    BY <1>8 DEF Finalize, ReadFailure, WriteFailure
  <2>2. \/ Remaining = 3 /\ Remaining' \in {2, 0}
        \/ Remaining = 2 /\ Remaining' \in {1, 0}
        \/ Remaining = 1 /\ Remaining' = 0
    BY <2>1 DEF Remaining
  <2> QED
    BY <2>1, <2>2 DEF ExecutorGoesOn
<1> QED
  BY <1>2, <1>3, <1>4, <1>5, <1>6, <1>7, <1>8 DEF Executor

\* The other actors leave the executor where it is, or end the process.
LEMMA OthersProlongNothing ==
  ASSUME IInv, [Next]_vars, ~ Executor
  PROVE  UNCHANGED <<pc, left>> \/ pc' = "idle"
<1>1. CASE \/ CompleteLate \/ Scan \/ Command \/ GrowOld \/ Republish \/ Lag \/ Replay
  BY <1>1 DEF CompleteLate, Scan, ListInFlight, MarkStale, Command, Complete, Cancel, ReadRetry,
     WriteRetry, GrowOld, Republish, Lag, Replay, local
<1>2. CASE Restart
  BY <1>2 DEF Restart
<1> QED
  BY <1>1, <1>2 DEF Next, vars

\* For every limit, and whatever happens to the task beside it: an attempt has at
\* most 2 * MaxSteps + 4 steps, and with ExecutionsBounded the executor has only so
\* many in all before it has nothing left but to drop triggers.
THEOREM AttemptsEnd == Spec => AttemptRunsOut
<1>1. IInv /\ IInv' /\ [Next]_vars =>
        [/\ attempts' # attempts + 1 => Remaining' <= Remaining
         /\ Executor => ExecutorGoesOn]_vars
  <2> SUFFICES ASSUME IInv, IInv', [Next]_vars
               PROVE  /\ attempts' # attempts + 1 => Remaining' <= Remaining
                      /\ Executor => ExecutorGoesOn
    OBVIOUS
  <2>1. Remaining \in Nat /\ Remaining' \in Nat
    <3>1. left' \in Nat /\ MaxSteps \in Nat
      BY LimitAssumption DEF IInv, TypeOK
    <3>2. Remaining' \in Nat
      BY <3>1 DEF Remaining
    <3> QED
      BY <3>2, RemainingIsNat
  <2>2. CASE Executor
    <3>1. ExecutorGoesOn
      BY <2>2, ExecutorSteps
    <3>2. CASE pc = "idle" /\ pc' = "idle"
      <4>1. Remaining = 0 /\ Remaining' = 0
        BY <3>2 DEF Remaining
      <4> QED
        BY <3>1, <4>1
    <3>3. CASE ~ (pc = "idle" /\ pc' = "idle")
      BY <2>1, <3>1, <3>3 DEF ExecutorGoesOn
    <3> QED
      BY <2>1, <3>1, <3>2, <3>3
  <2>3. CASE ~ Executor
    <3>1. CASE UNCHANGED <<pc, left>>
      BY <2>1, <2>3, <3>1 DEF Remaining
    <3>2. CASE pc' = "idle"
      <4>1. Remaining' = 0
        BY <3>2 DEF Remaining
      <4> QED
        BY <2>1, <2>3, <4>1
    <3> QED
      BY <2>3, <3>1, <3>2, OthersProlongNothing
  <2> QED
    BY <2>2, <2>3
<1> QED
  BY <1>1, SpecInv, PTL DEF Spec, AttemptRunsOut
=============================================================================
