-------------------------- MODULE MutationPipeline --------------------------
(***************************************************************************)
(* One mutation task: the graph compile_mutation_execution_graph builds,   *)
(* the driver that executes it (orchestrator.rs), and the recovery of what *)
(* a crash or an abort left behind (reconciliation.rs and the recovery     *)
(* commands of organization_service.rs).                                   *)
(*                                                                         *)
(* The driver and a recovery command hold the lock on the claim registry's *)
(* client, so one of them works at a time; module DurableRunner shows what *)
(* the versioned row adds to that.  Here a runner call is one step, and    *)
(* the stored graph is the only graph: this driver never edits its graph   *)
(* without a save.  Each worker owns one file.                             *)
(***************************************************************************)
EXTENDS Naturals, Sequences, FiniteSets

CONSTANTS
  Roster,          \* the assigned workers, in order
  Sequential,      \* collaboration is SequentialHandoff, else Independent
  Fault,           \* the errors that may happen, see FaultKind
  MaxInterrupts    \* bound on crashes and aborts

Worker == {Roster[i] : i \in DOMAIN Roster}

File == Worker

\* "limit": more workers than allowed.  "plan": the patch no longer applies.
\* "call": a request to the claim registry fails, before or after its effect.
FaultKind == {"limit", "plan", "call"}

Stage == {"contract", "claim", "review", "apply", "release", "finalize"}

ASSUME RosterAssumption ==
  /\ Worker \cap Stage = {}
  /\ \A i, j \in DOMAIN Roster : Roster[i] = Roster[j] => i = j
  /\ Roster \in Seq(Worker)

ASSUME ParameterAssumption ==
  Sequential \in BOOLEAN /\ Fault \subseteq FaultKind /\ MaxInterrupts \in Nat

-----------------------------------------------------------------------------
(* The compiled graph. *)

MutationNode == Stage \cup Worker

Link(from, to, kind) == [from |-> from, to |-> to, kind |-> kind]

\* In a sequential handoff each worker consumes its predecessor's proposal.
WorkSource(i) == IF Sequential /\ i > 1 THEN Roster[i - 1] ELSE "claim"

MutationEdge ==
  {Link("contract", "claim", "Requires")}
  \cup {Link(WorkSource(i), Roster[i], "Consumes") : i \in DOMAIN Roster}
  \cup {Link(w, "review", "Validates") : w \in Worker}
  \cup {Link("review", "apply", "Requires"),
        Link("contract", "release", "Requires"),
        Link("review", "release", "Finally"),
        Link("apply", "release", "Finally"),
        Link("apply", "finalize", "Requires"),
        Link("release", "finalize", "Requires")}

INSTANCE ExecutionGraph WITH Node <- MutationNode, Edge <- MutationEdge

-----------------------------------------------------------------------------
VARIABLES
  st,           \* the stored graph
  intents,      \* stored effect intents: the files of each effectful node
  claims,       \* files this task holds in the claim registry
  written,      \* files that have their planned content
  pc,           \* where the driver or the recovery command is
  todo,         \* files the current handler has still to visit
  active,       \* claim_report.active_claims
  failed,       \* whether a call of the current stages failed
  interrupts    \* crashes and aborts so far

vars == <<st, intents, claims, written, pc, todo, active, failed, interrupts>>

EffectNode == {"claim", "apply", "release"}

\* Nobody is working on the graph.
Resting == {"returned", "gone", "recovered"}

Place ==
  Resting \cup
  {"contract", "validating", "settleBlocked", "claimIntents", "claimAdmit",
   "claiming", "conflict", "claimError", "propose", "proposing", "settleWork",
   "review", "reviewing", "settleReview", "applyIntents", "applyAdmit",
   "applying", "settleApply", "releaseIntents", "releaseAdmit", "releasing",
   "settleRelease", "finalize", "finalizing", "settleRecovery", "facts"}

TypeOK ==
  /\ st \in [MutationNode -> NodeState]
  /\ intents \in [EffectNode -> SUBSET File]
  /\ claims \in SUBSET File
  /\ written \in SUBSET File
  /\ pc \in Place
  /\ todo \in SUBSET File
  /\ active \in SUBSET File
  /\ failed \in BOOLEAN
  /\ interrupts \in 0 .. MaxInterrupts

\* initialize has saved the compiled graph.
Init ==
  /\ st = AllPending
  /\ intents = [n \in EffectNode |-> {}]
  /\ claims = {} /\ written = {}
  /\ pc = "contract"
  /\ todo = {} /\ active = {} /\ failed = FALSE
  /\ interrupts = 0

-----------------------------------------------------------------------------
(* Runner calls of the driver. *)

Goto(from, to) == pc = from /\ pc' = to

\* admit_node; an unready node is an error, and the driver returns it.
Admit(n, from, to) ==
  /\ pc = from
  /\ IF CanStartBatch(st, {n})
       THEN st' = StartReadyBatch(st, {n}) /\ pc' = to
       ELSE UNCHANGED st /\ pc' = "returned"

\* record_outcome
Record(n, o) == st[n] = "Running" /\ st' = SetState(st, n, o)

\* record_effect_intents refuses a node that already has these intents.
RecordIntents(n, files) ==
  /\ st[n] = "Pending"
  /\ intents[n] = {}
  /\ intents' = [intents EXCEPT ![n] = files]

\* Staffing may find no specialist to dispatch: Direct mode returns at once.
ReturnDirect ==
  /\ Goto("contract", "returned")
  /\ UNCHANGED <<st, intents, claims, written, todo, active, failed, interrupts>>

AdmitContract ==
  /\ Admit("contract", "contract", "validating")
  /\ UNCHANGED <<intents, claims, written, todo, active, failed, interrupts>>

\* Faulty variant: the claim intents are not recorded first.
RecordContractOnly(o) ==
  /\ o = "Succeeded" => Roster # <<>>
  /\ Goto("validating", IF o = "Succeeded" THEN "claimAdmit" ELSE "settleBlocked")
  /\ Record("contract", o)
  /\ UNCHANGED <<intents, claims, written, todo, active, failed, interrupts>>

\* A contract without assignments is always recorded as failed.
RecordContract(o) ==
  /\ o = "Succeeded" => Roster # <<>>
  /\ Goto("validating", IF o = "Succeeded" THEN "claimIntents" ELSE "settleBlocked")
  /\ Record("contract", o)
  /\ UNCHANGED <<intents, claims, written, todo, active, failed, interrupts>>

\* ensure_worker_limit
ExceedWorkerLimit ==
  /\ "limit" \in Fault
  /\ Goto("claimIntents", "returned")
  /\ UNCHANGED <<st, intents, claims, written, todo, active, failed, interrupts>>

RecordClaimIntents ==
  /\ Goto("claimIntents", "claimAdmit")
  /\ RecordIntents("claim", File)
  /\ UNCHANGED <<st, claims, written, todo, active, failed, interrupts>>

AdmitClaim ==
  /\ Admit("claim", "claimAdmit", "claiming")
  /\ todo' = File
  /\ UNCHANGED <<intents, claims, written, active, failed, interrupts>>

-----------------------------------------------------------------------------
(* claim_worker_files, and release_worker_file_claims for its rollback. *)

ClaimFile(f) ==
  /\ pc = "claiming" /\ f \in todo
  /\ claims' = claims \cup {f}
  /\ active' = active \cup {f}
  /\ todo' = todo \ {f}
  /\ UNCHANGED <<st, intents, written, pc, failed, interrupts>>

\* Faulty variant: a conflict rolls nothing back.
MeetConflictOnly ==
  /\ Goto("claiming", "conflict")
  /\ todo # {}
  /\ todo' = {}
  /\ UNCHANGED <<st, intents, claims, written, active, failed, interrupts>>

\* Somebody else holds a file, or two assignments overlap.
MeetConflict ==
  /\ Goto("claiming", "conflict")
  /\ todo # {}
  /\ todo' = active
  /\ UNCHANGED <<st, intents, claims, written, active, failed, interrupts>>

\* A failed request may still have claimed the file.
FailClaimCall(f, landed) ==
  /\ "call" \in Fault
  /\ Goto("claiming", "claimError")
  /\ f \in todo
  /\ claims' = IF landed THEN claims \cup {f} ELSE claims
  /\ todo' = active
  /\ UNCHANGED <<st, intents, written, active, failed, interrupts>>

Releasing == pc \in {"conflict", "claimError", "releasing"}

\* Releasing a file that is not claimed any more counts as a failure.
ReleaseFile(f) ==
  /\ Releasing /\ f \in todo
  /\ todo' = todo \ {f}
  /\ claims' = claims \ {f}
  /\ failed' = (failed \/ f \notin claims)
  /\ UNCHANGED <<st, intents, written, pc, active, interrupts>>

FailReleaseCall(f, landed) ==
  /\ "call" \in Fault
  /\ Releasing /\ f \in todo
  /\ todo' = todo \ {f}
  /\ claims' = IF landed THEN claims \ {f} ELSE claims
  /\ failed' = TRUE
  /\ UNCHANGED <<st, intents, written, pc, active, interrupts>>

RecordClaimed ==
  /\ Goto("claiming", "propose")
  /\ todo = {}
  /\ Record("claim", "Succeeded")
  /\ UNCHANGED <<intents, claims, written, todo, active, failed, interrupts>>

\* After a conflict the driver goes on to review and release; after a failed
\* request it returns the error.
RecordClaimFailed ==
  /\ \/ Goto("conflict", "settleWork")
     \/ Goto("claimError", "returned")
  /\ todo = {}
  /\ Record("claim", "Failed")
  /\ active' = {}
  /\ UNCHANGED <<intents, claims, written, todo, failed, interrupts>>

-----------------------------------------------------------------------------
(* execute_claimed_assignments_durable: all workers at once, or one by one. *)

NextBatch ==
  IF Sequential
    THEN {Roster[i] : i \in {j \in DOMAIN Roster :
            /\ st[Roster[j]] = "Pending"
            /\ \A k \in 1 .. j - 1 : st[Roster[k]] # "Pending"}}
    ELSE Worker

AdmitProposals ==
  /\ Goto("propose", "proposing")
  /\ CanStartBatch(st, NextBatch)
  /\ st' = StartReadyBatch(st, NextBatch)
  /\ UNCHANGED <<intents, claims, written, todo, active, failed, interrupts>>

\* The joined workers are recorded one by one; a sequential handoff stops at
\* the first failure.
RecordProposal(w, o) ==
  /\ pc = "proposing"
  /\ Record(w, o)
  /\ pc' = IF \E v \in Worker : st'[v] = "Running" THEN "proposing"
           ELSE IF o = "Succeeded" /\ \E v \in Worker : st'[v] = "Pending"
             THEN "propose" ELSE "settleWork"
  /\ UNCHANGED <<intents, claims, written, todo, active, failed, interrupts>>

-----------------------------------------------------------------------------
(* Review, apply, release, finalize. *)

\* A commit of settle_unreachable between two stages.
Settle(from, to) ==
  /\ pc = from
  /\ st' = SettleUnreachable(st)
  /\ pc' = to
  /\ UNCHANGED <<intents, claims, written, todo, active, failed, interrupts>>

IsReady(n) == n \in ReadyNodeIds(SettleUnreachable(st))

SettleStage ==
  \/ Settle("settleBlocked", "returned")
  \/ Settle("settleWork", IF IsReady("review") THEN "review" ELSE "settleReview")
  \/ Settle("settleReview",
            IF st["review"] = "Succeeded" THEN "applyIntents" ELSE "settleApply")
  \/ Settle("settleApply", "releaseIntents")
  \/ Settle("settleRelease", IF IsReady("finalize") THEN "finalize" ELSE "returned")

AdmitReview ==
  /\ Admit("review", "review", "reviewing")
  /\ UNCHANGED <<intents, claims, written, todo, active, failed, interrupts>>

RecordReview(o) ==
  /\ Goto("reviewing", "settleReview")
  /\ Record("review", o)
  /\ UNCHANGED <<intents, claims, written, todo, active, failed, interrupts>>

\* plan_operations fails and its error is returned at once.
FailPlan ==
  /\ "plan" \in Fault
  /\ Goto("applyIntents", "returned")
  /\ UNCHANGED <<st, intents, claims, written, todo, active, failed, interrupts>>

RecordApplyIntents ==
  /\ Goto("applyIntents", "applyAdmit")
  /\ RecordIntents("apply", File)
  /\ UNCHANGED <<st, claims, written, todo, active, failed, interrupts>>

AdmitApply ==
  /\ Admit("apply", "applyAdmit", "applying")
  /\ todo' = File
  /\ UNCHANGED <<intents, claims, written, active, failed, interrupts>>

\* apply_worker_patch_review goes on after a failed operation and undoes none.
ApplyOperation(f, ok) ==
  /\ pc = "applying" /\ f \in todo
  /\ todo' = todo \ {f}
  /\ written' = IF ok THEN written \cup {f} ELSE written
  /\ UNCHANGED <<st, intents, claims, pc, active, failed, interrupts>>

\* Faulty variant: a partial apply is recorded as neither success nor failure.
RecordApplyVerdict ==
  /\ Goto("applying", "settleApply")
  /\ todo = {}
  /\ Record("apply", CASE written = File -> "Succeeded"
                       [] written = {}   -> "Failed"
                       [] OTHER          -> "Inconclusive")
  /\ UNCHANGED <<intents, claims, written, todo, active, failed, interrupts>>

RecordApply ==
  /\ Goto("applying", "settleApply")
  /\ todo = {}
  /\ Record("apply", IF written = File THEN "Succeeded" ELSE "Failed")
  /\ UNCHANGED <<intents, claims, written, todo, active, failed, interrupts>>

\* Release intents are only recorded when there is a claim to release.  If the
\* node already has some, the call is refused and the caller returns.
RecordReleaseIntents ==
  \/ /\ Goto("releaseIntents", "releaseAdmit")
     /\ active = {}
     /\ UNCHANGED <<st, intents, claims, written, todo, active, failed, interrupts>>
  \/ /\ Goto("releaseIntents", "releaseAdmit")
     /\ active # {}
     /\ RecordIntents("release", active)
     /\ UNCHANGED <<st, claims, written, todo, active, failed, interrupts>>
  \/ /\ Goto("releaseIntents", "returned")
     /\ active # {} /\ intents["release"] # {}
     /\ UNCHANGED <<st, intents, claims, written, todo, active, failed, interrupts>>

AdmitRelease ==
  /\ Admit("release", "releaseAdmit", "releasing")
  /\ todo' = active
  /\ UNCHANGED <<intents, claims, written, active, failed, interrupts>>

\* Faulty variant: the driver forgets that calls failed.
RecordReleased ==
  /\ Goto("releasing", "settleRelease")
  /\ todo = {}
  /\ Record("release", "Succeeded")
  /\ UNCHANGED <<intents, claims, written, todo, active, failed, interrupts>>

RecordRelease ==
  /\ Goto("releasing", "settleRelease")
  /\ todo = {}
  /\ Record("release", IF failed THEN "Failed" ELSE "Succeeded")
  /\ UNCHANGED <<intents, claims, written, todo, active, failed, interrupts>>

AdmitFinalize ==
  /\ Admit("finalize", "finalize", "finalizing")
  /\ UNCHANGED <<intents, claims, written, todo, active, failed, interrupts>>

RecordFinalize ==
  /\ Goto("finalizing", "returned")
  /\ Record("finalize", "Succeeded")
  /\ UNCHANGED <<intents, claims, written, todo, active, failed, interrupts>>

-----------------------------------------------------------------------------
(* Interruptions and recovery. *)

\* The process crashes, the user cancels, or a save fails: the driver is gone
\* with its local state.
Interrupt ==
  /\ pc \notin Resting
  /\ interrupts < MaxInterrupts
  /\ interrupts' = interrupts + 1
  /\ pc' = "gone"
  /\ todo' = {} /\ active' = {} /\ failed' = FALSE
  /\ UNCHANGED <<st, intents, claims, written>>

\* Faulty variant: recovery cleans up before anything is reconciled.
RecoverAndClean ==
  /\ pc \in {"returned", "gone"}
  /\ ~CleanTerminal(st)
  /\ st' = RecoverFromCheckpoint(st)
  /\ pc' = "settleRecovery"
  /\ todo' = {} /\ active' = {} /\ failed' = FALSE
  /\ UNCHANGED <<intents, claims, written, interrupts>>

\* The start-up scan, and the first call of every recovery command.
Recover ==
  /\ pc \in {"returned", "gone"}
  /\ ~CleanTerminal(st)
  /\ st' = RecoverFromCheckpoint(st)
  /\ pc' = "recovered"
  /\ todo' = {} /\ active' = {} /\ failed' = FALSE
  /\ UNCHANGED <<intents, claims, written, interrupts>>

\* Faulty variant: some facts are enough.
VerdictOfSome(agree, all) == IF agree # {} THEN "Succeeded" ELSE "Failed"

\* assess: all facts for, all against, or anything else.
Verdict(agree, all) ==
  CASE all = {}                 -> "Inconclusive"
    [] all # {} /\ agree = all  -> "Succeeded"
    [] all # {} /\ agree = {}   -> "Failed"
    [] OTHER                    -> "Inconclusive"

Assess(n) ==
  CASE n = "apply"   -> Verdict(written \cap intents[n], intents[n])
    [] n = "claim"   -> Verdict(claims \cap intents[n], intents[n])
    [] n = "release" -> Verdict(intents[n] \ claims, intents[n])
    [] OTHER         -> "Inconclusive"

\* A recovery command for one node: confirm it from facts, or abandon it.
Reconcile(n, d) ==
  /\ Goto("recovered", "settleRecovery")
  /\ CanReconcile(st, n)
  /\ d \in {Assess(n), "Failed"} \cap Decision
  /\ st' = SetState(st, n, d)
  /\ UNCHANGED <<intents, claims, written, todo, active, failed, interrupts>>

\* continue_after_reconcile executes no node but release and finalize.
SettleRecovery ==
  Settle("settleRecovery",
         IF IsReady("release") THEN "facts"
         ELSE IF IsReady("finalize") THEN "finalize" ELSE "returned")

\* execute_release_cleanup: what the registry still holds of the claim intents.
ReadFacts ==
  /\ Goto("facts", "releaseIntents")
  /\ active' = claims \cap intents["claim"]
  /\ UNCHANGED <<st, intents, claims, written, todo, failed, interrupts>>

FailFacts ==
  /\ "call" \in Fault
  /\ Goto("facts", "returned")
  /\ UNCHANGED <<st, intents, claims, written, todo, active, failed, interrupts>>

-----------------------------------------------------------------------------
DriverStep ==
  \/ AdmitContract \/ ReturnDirect \/ ExceedWorkerLimit
  \/ RecordClaimIntents \/ AdmitClaim \/ MeetConflict
  \/ RecordClaimed \/ RecordClaimFailed \/ AdmitProposals
  \/ SettleStage \/ AdmitReview
  \/ FailPlan \/ RecordApplyIntents \/ AdmitApply \/ RecordApply
  \/ RecordReleaseIntents \/ AdmitRelease \/ RecordRelease
  \/ AdmitFinalize \/ RecordFinalize
  \/ \E o \in {"Succeeded", "Failed"} :
       \/ RecordContract(o) \/ RecordReview(o)
       \/ \E w \in Worker : RecordProposal(w, o)
  \/ \E f \in File :
       \/ ClaimFile(f) \/ ReleaseFile(f)
       \/ \E b \in BOOLEAN :
            FailClaimCall(f, b) \/ FailReleaseCall(f, b) \/ ApplyOperation(f, b)

RecoveryStep ==
  \/ Recover \/ SettleRecovery \/ ReadFacts \/ FailFacts
  \/ \E n \in MutationNode, d \in Decision : Reconcile(n, d)

Next == DriverStep \/ RecoveryStep \/ Interrupt

Spec == Init /\ [][Next]_vars

\* The driver waits for others: for the proposal of a worker, which may itself
\* wait for a model or an approval, or for the reply to a registry request, which
\* has no timeout.
AwaitsOthers ==
  \/ pc = "proposing"
  \/ pc \in {"claiming", "conflict", "claimError", "releasing"} /\ todo # {}

\* The driver is one async function: while nothing interrupts it, it goes on by
\* itself wherever it waits for nobody else.
FairSpec == Spec /\ WF_vars(~AwaitsOthers /\ DriverStep)

-----------------------------------------------------------------------------
(* Properties *)

\* The last node publishes "only after apply and claim release both succeed":
\* then every file has its content and no file stays claimed, also when apply
\* or release was confirmed by a recovery.
PublishedMeansDone ==
  st["finalize"] = "Succeeded" => written = File /\ claims = {}

\* Nobody gives up a file while its content may change: all files are claimed
\* as long as a worker runs, a patch is applied, or nobody knows whether it was.
\* RecoveryRequired satisfies the Finally edge from apply to release, so only
\* the order of the recovery protects it.
ClaimsCoverUnknownEffects ==
  \/ \E w \in Worker : st[w] = "Running"
  \/ st["apply"] \in {"Running", "RecoveryRequired"}
  => claims = File

\* A crash at any point finds the intents of every effect in the row, so that
\* recovery looks at everything the task may have touched.
EffectsForetold == claims \subseteq intents["claim"] /\ written \subseteq intents["apply"]

\* What the row says of an external effect is true, whether the driver recorded
\* it or a recovery inferred it from partial facts.
SuccessMatchesWorld ==
  /\ st["apply"] = "Succeeded" => written = File
  /\ st["release"] = "Succeeded" => claims = {}

\* The nodes that may be recorded as succeeded: what they do to the world is done.
Effected ==
  {n \in MutationNode : /\ n = "claim" => claims = File
                        /\ n = "apply" => written = File
                        /\ n = "release" => claims = {}}

\* The driver and the recovery commands share one stored graph across crashes.
\* Each of them takes it only to a legal next state: a node starts behind its
\* prerequisites, is skipped for a cause, never goes back to be run again, and
\* succeeds only when its effect is in the world.
StoredGraphIsLegal == [][GraphStep(st, st', Effected)]_vars

\* The nodes admit_node, start_ready_batch or record_outcome is called for next.
Admitted ==
  [contract |-> {"contract"}, claimAdmit |-> {"claim"}, propose |-> NextBatch,
   review |-> {"review"}, applyAdmit |-> {"apply"}, releaseAdmit |-> {"release"},
   finalize |-> {"finalize"}]

Recorded ==
  [validating |-> {"contract"}, claiming |-> {"claim"}, conflict |-> {"claim"},
   claimError |-> {"claim"}, proposing |-> {w \in Worker : st[w] = "Running"},
   reviewing |-> {"review"}, applying |-> {"apply"}, releasing |-> {"release"},
   finalizing |-> {"finalize"}]

\* The driver returns the error of a refused call at once, with its claims held
\* and its effects half done.  Whatever failed, and after every recovery, it asks
\* only for nodes that are ready, records only nodes that run, and writes intents
\* only for nodes that are pending.  One call is refused all the same: an
\* interruption after the release intents were recorded, and before the release was
\* admitted, leaves them in the row, and the cleanup of a later recovery records
\* them once more.
OnlyRepeatedReleaseRefused ==
  /\ pc \in DOMAIN Admitted => CanStartBatch(st, Admitted[pc])
  /\ pc \in DOMAIN Recorded =>
       Recorded[pc] # {} /\ \A n \in Recorded[pc] : st[n] = "Running"
  /\ pc = "claimIntents" => st["claim"] = "Pending" /\ intents["claim"] = {}
  /\ pc = "applyIntents" => st["apply"] = "Pending" /\ intents["apply"] = {}
  /\ pc = "releaseIntents" =>
       /\ st["release"] = "Pending"
       /\ active # {} /\ intents["release"] # {} => interrupts > 0

\* A task that ended leaves no claim behind unless its release node says so.
CleanEndFreesClaims ==
  CleanTerminal(st) => claims = {} \/ st["release"] = "Failed"

\* An uninterrupted driver frees what it claimed, whether its workers, the review
\* and the patch succeed or fail: it keeps claims for ever only while it waits for
\* ever for a worker or for a reply of the registry.
ClaimsEndEventually ==
  <>[](claims # {} /\ st["release"] # "Failed") => <>[]AwaitsOthers

\* No crash, no failed request, and the patch can still be planned.
Undisturbed == interrupts = 0 /\ Fault \cap {"plan", "call"} = {}

\* What no staffing decision can end: a graph without workers has a review that
\* waits for nobody, and the driver returns without starting it.
NeverBegun == IF Roster = <<>> THEN {"review", "apply"} ELSE {}

\* Whatever the workers, the review, a conflict and the patch operations come to:
\* a driver that nothing disturbs returns with no file claimed, and with a graph
\* that is over, so that no start-up scan asks for its recovery, unless it never
\* took up the task (no specialist, too many workers).  If nobody was assigned, the
\* review and the patch stay pending for ever, and the scan does ask.
EndsWhatItBegins ==
  pc = "returned" /\ Undisturbed =>
    /\ claims = {}
    /\ st["claim"] = "Pending" \/ \A n \in MutationNode \ NeverBegun : st[n] \in Settled

\* compile_mutation_execution_graph: "Release uses finally-edges so claims are
\* cleaned up after both success and failure."
ClaimsCleanedUp ==
  pc = "returned" => claims = {} \/ st["release"] = "Failed"

\* The start-up scan reports an unfinished graph as awaiting explicit recovery,
\* and a recovery command needs a node that requires recovery: a task that still
\* holds files can be recovered.
ExplicitRecoveryPossible ==
  pc = "recovered" /\ claims # {} => \E n \in MutationNode : CanReconcile(st, n)
=============================================================================
