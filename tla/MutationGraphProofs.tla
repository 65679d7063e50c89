------------------------ MODULE MutationGraphProofs ------------------------
(***************************************************************************)
(* The graph that a mutation task compiles, and what its driver may count  *)
(* on: the compilation meets none of the refusals of add_edge, the stored  *)
(* graph takes only legal steps, the runner refuses no call but a repeated *)
(* record of the release intents, and a driver that nothing disturbs ends  *)
(* what it begins.                                                         *)
(***************************************************************************)
EXTENDS MutationPipelineProofs, WellFoundedInduction

\* The facts about every graph, for the compiled one.
G == INSTANCE ExecutionGraphTheorems WITH Node <- MutationNode, Edge <- MutationEdge

-----------------------------------------------------------------------------
(* The compiled graph. *)

\* Every set of places in the roster has a first one.
LEMMA LeastIndex ==
  ASSUME NEW T \in SUBSET Nat, T # {}
  PROVE  \E i \in T : \A j \in T : ~ (j < i)
<1> DEFINE R == OpToRel(<, Nat)
<1>1. IsWellFoundedOn(R, Nat)
  BY NatLessThanWellFounded
<1>2. \A x, y \in Nat : y < x => <<y, x>> \in R
  BY DEF OpToRel
<1> HIDE DEF R
<1>3. PICK x \in T : \A y \in T : ~ (<<y, x>> \in R)
  BY <1>1, WFMin
<1> QED
  BY <1>2, <1>3

LEMMA Indices ==
  /\ Len(Roster) \in Nat /\ DOMAIN Roster = 1 .. Len(Roster)
  /\ \A i \in DOMAIN Roster : i \in Nat /\ i >= 1 /\ Roster[i] \in Worker
  /\ \A w \in Worker : \E i \in DOMAIN Roster : w = Roster[i]
  /\ \A i, j \in DOMAIN Roster : Roster[i] = Roster[j] => i = j
  /\ \A i \in DOMAIN Roster : i > 1 => i - 1 \in DOMAIN Roster
<1>1. Len(Roster) \in Nat /\ DOMAIN Roster = 1 .. Len(Roster)
  BY RosterAssumption
<1>2. \A i \in DOMAIN Roster : Roster[i] \in Worker
  BY DEF Worker
<1> QED
  BY <1>1, <1>2, RosterAssumption DEF Worker

\* A worker consumes the claims, or the proposal of the worker before it.
LEMMA WorkSources ==
  ASSUME NEW i \in DOMAIN Roster
  PROVE  \/ WorkSource(i) = "claim" /\ (Sequential => i = 1)
         \/ /\ Sequential /\ i > 1 /\ i - 1 \in DOMAIN Roster
            /\ WorkSource(i) = Roster[i - 1]
<1>1. CASE Sequential /\ i > 1
  BY <1>1, Indices DEF WorkSource
<1>2. CASE ~ (Sequential /\ i > 1)
  BY <1>2, Indices DEF WorkSource
<1> QED
  BY <1>1, <1>2

\* A worker and its source are nodes.
LEMMA WorkNodes ==
  ASSUME NEW i \in DOMAIN Roster
  PROVE  /\ Roster[i] \in Worker /\ Roster[i] \in MutationNode
         /\ WorkSource(i) \in MutationNode
<1>1. \A j \in DOMAIN Roster : Roster[j] \in Worker
  BY Indices
<1>2. \A j \in DOMAIN Roster : Roster[j] \in MutationNode
  BY <1>1, Named
<1>3. "claim" \in MutationNode
  BY Named
<1>4. CASE WorkSource(i) = "claim"
  BY <1>1, <1>2, <1>3, <1>4
<1>5. CASE i - 1 \in DOMAIN Roster /\ WorkSource(i) = Roster[i - 1]
  BY <1>1, <1>2, <1>5
<1> QED
  BY <1>4, <1>5, WorkSources

\* The edges, by the node they lead to.
LEMMA EdgesInto ==
  ASSUME NEW e \in MutationEdge
  PROVE  \/ e.to = "claim" /\ e.from = "contract" /\ e.kind = "Requires"
         \/ \E i \in DOMAIN Roster :
              e.to = Roster[i] /\ e.from = WorkSource(i) /\ e.kind = "Consumes"
         \/ e.to = "review" /\ e.from \in Worker /\ e.kind = "Validates"
         \/ e.to = "apply" /\ e.from = "review" /\ e.kind = "Requires"
         \/ e.to = "release" /\ e.from = "contract" /\ e.kind = "Requires"
         \/ e.to = "release" /\ e.from \in {"review", "apply"} /\ e.kind = "Finally"
         \/ e.to = "finalize" /\ e.from \in {"apply", "release"} /\ e.kind = "Requires"
<1>1. \/ e = Link("contract", "claim", "Requires")
      \/ \E i \in DOMAIN Roster : e = Link(WorkSource(i), Roster[i], "Consumes")
      \/ \E w \in Worker : e = Link(w, "review", "Validates")
      \/ e = Link("review", "apply", "Requires")
      \/ e = Link("contract", "release", "Requires")
      \/ e = Link("review", "release", "Finally")
      \/ e = Link("apply", "release", "Finally")
      \/ e = Link("apply", "finalize", "Requires")
      \/ e = Link("release", "finalize", "Requires")
  BY DEF MutationEdge
<1>2. CASE \E i \in DOMAIN Roster : e = Link(WorkSource(i), Roster[i], "Consumes")
  BY <1>2 DEF Link
<1>3. CASE \E w \in Worker : e = Link(w, "review", "Validates")
  BY <1>3 DEF Link
<1> QED
  BY <1>1, <1>2, <1>3 DEF Link

LEMMA CompiledEdges ==
  /\ \A i \in DOMAIN Roster : Link(WorkSource(i), Roster[i], "Consumes") \in MutationEdge
  /\ MutationEdge \subseteq [from : MutationNode, to : MutationNode, kind : EdgeKind]
<1>1. \A a \in MutationNode, b \in MutationNode, k \in EdgeKind :
        Link(a, b, k) \in [from : MutationNode, to : MutationNode, kind : EdgeKind]
  BY DEF Link
<1>2. {"Requires", "Consumes", "Validates", "Finally"} \subseteq EdgeKind
  BY DEF EdgeKind
<1>3. \A i \in DOMAIN Roster : WorkSource(i) \in MutationNode /\ Roster[i] \in MutationNode
  BY WorkNodes
<1>4. /\ {"contract", "claim", "review", "apply", "release", "finalize"} \subseteq MutationNode
      /\ Worker \subseteq MutationNode
  BY Named
<1> QED
  BY <1>1, <1>2, <1>3, <1>4 DEF MutationEdge

\* compile_mutation_execution_graph meets none of add_edge's refusals, for any
\* roster and either collaboration: its edges join nodes it has added, and no set
\* of nodes waits for itself.
THEOREM CompiledGraph ==
  /\ MutationEdge \subseteq [from : MutationNode, to : MutationNode, kind : EdgeKind]
  /\ \A S \in SUBSET MutationNode :
       S # {} => \E n \in S : \A e \in MutationEdge : e.to = n => e.from \notin S
<1>1. SUFFICES ASSUME NEW S \in SUBSET MutationNode, S # {}
               PROVE  \E n \in S : \A e \in MutationEdge : e.to = n => e.from \notin S
  BY CompiledEdges
<1>2. \A e \in MutationEdge :
        /\ e.to # "contract"
        /\ e.to = "claim" => e.from = "contract"
        /\ e.to = "review" => e.from \in Worker
        /\ e.to = "apply" => e.from = "review"
        /\ e.to = "release" => e.from \in {"contract", "review", "apply"}
        /\ e.to = "finalize" => e.from \in {"apply", "release"}
        /\ e.to \in Worker => \E i \in DOMAIN Roster : e.to = Roster[i] /\ e.from = WorkSource(i)
  BY EdgesInto, Indices, Named
<1>3. CASE "contract" \in S \/ "claim" \in S
  BY <1>2, <1>3
<1>4. CASE "contract" \notin S /\ "claim" \notin S /\ S \cap Worker # {}
  <2> DEFINE T == {i \in DOMAIN Roster : Roster[i] \in S}
  <2>1. T \in SUBSET Nat /\ T # {}
    BY <1>4, Indices
  <2>2. PICK i \in T : \A j \in T : ~ (j < i)
    BY <2>1, LeastIndex
  <2>3. i \in Nat /\ Roster[i] \in S /\ Roster[i] \in Worker /\ WorkSource(i) \notin S
    BY <1>4, <2>2, WorkSources, Indices
  <2>4. \A e \in MutationEdge : e.to = Roster[i] => e.from = WorkSource(i)
    BY <1>2, <2>2, <2>3, Indices
  <2> QED
    BY <2>3, <2>4
<1>5. CASE "contract" \notin S /\ "claim" \notin S /\ S \cap Worker = {} /\ "review" \in S
  BY <1>2, <1>5
<1>6. CASE "contract" \notin S /\ "review" \notin S /\ "apply" \in S
  BY <1>2, <1>6
<1>7. CASE "contract" \notin S /\ "review" \notin S /\ "apply" \notin S /\ "release" \in S
  BY <1>2, <1>7
<1>8. CASE "apply" \notin S /\ "release" \notin S /\ "finalize" \in S
  BY <1>2, <1>8
<1>9. MutationNode = {"contract", "claim", "review", "apply", "release", "finalize"} \cup Worker
  BY NodeNames DEF Stage
<1>10. S \cap Worker = {} =>
         "contract" \in S \/ "claim" \in S \/ "review" \in S \/ "apply" \in S
         \/ "release" \in S \/ "finalize" \in S
  BY <1>1, <1>9
<1> QED
  BY <1>3, <1>4, <1>5, <1>6, <1>7, <1>8, <1>10

-----------------------------------------------------------------------------
(* The stored graph. *)

\* Both instances speak of the same graph.
LEMMA SameWords ==
  /\ G!NodeState = NodeState /\ G!GraphState = [MutationNode -> NodeState]
  /\ G!EdgeKind = EdgeKind /\ G!OutcomeState = OutcomeState /\ G!Decision = Decision
  /\ G!Terminal = Terminal /\ G!Unsuccessful = Unsuccessful /\ G!Started = Started
  /\ \A n : G!HardSources(n) = HardSources(n) /\ G!FinallySources(n) = FinallySources(n)
  BY DEF G!NodeState, NodeState, G!GraphState, G!EdgeKind, EdgeKind, G!OutcomeState, OutcomeState,
     G!Decision, Decision, G!Terminal, Terminal, G!Unsuccessful, Unsuccessful, G!Started, Started,
     G!HardSources, HardSources, G!FinallySources, FinallySources

LEMMA SameSteps ==
  ASSUME NEW from, NEW to, NEW handled
  PROVE  G!GraphStep(from, to, handled) <=> GraphStep(from, to, handled)
<1>1. \A f, t : G!LegalNodeStep(f, t) = LegalNodeStep(f, t)
  BY DEF G!LegalNodeStep, LegalNodeStep, G!ValidSnapshotTransition, ValidSnapshotTransition
<1> QED
  BY <1>1, SameWords DEF G!GraphStep, GraphStep, G!JustifiedStart, JustifiedStart,
     G!JustifiedSkip, JustifiedSkip, G!JustifiedSuccess, JustifiedSuccess

LEMMA SameUpdates ==
  /\ \A g : /\ G!Unreachable(g) = Unreachable(g)
            /\ G!SettleUnreachable(g) = SettleUnreachable(g)
            /\ G!RecoverFromCheckpoint(g) = RecoverFromCheckpoint(g)
            /\ G!ReadyNodeIds(g) = ReadyNodeIds(g)
  /\ \A g, B : /\ G!CanStartBatch(g, B) = CanStartBatch(g, B)
               /\ G!StartReadyBatch(g, B) = StartReadyBatch(g, B)
  /\ \A g, n, s : G!SetState(g, n, s) = SetState(g, n, s)
<1>1. \A g, S : G!SkipClosed(g, S) = SkipClosed(g, S)
  BY SameWords DEF G!SkipClosed, SkipClosed
<1>2. \A g : G!Unreachable(g) = Unreachable(g)
  BY <1>1 DEF G!Unreachable, Unreachable
<1>3. \A g : G!SettleUnreachable(g) = SettleUnreachable(g)
  BY <1>2 DEF G!SettleUnreachable, SettleUnreachable
<1>4. \A g : G!RecoverFromCheckpoint(g) = RecoverFromCheckpoint(g)
  BY <1>3 DEF G!RecoverFromCheckpoint, RecoverFromCheckpoint, G!MarkInterrupted, MarkInterrupted
<1>5. \A g : G!ReadyNodeIds(g) = ReadyNodeIds(g)
  BY SameWords DEF G!ReadyNodeIds, ReadyNodeIds
<1> QED
  BY <1>2, <1>3, <1>4, <1>5 DEF G!CanStartBatch, CanStartBatch, G!StartReadyBatch,
     StartReadyBatch, G!SetState, SetState

\* What settle_unreachable does to the compiled graph: it skips for a cause, and
\* leaves no node pending behind a prerequisite that did not succeed.
LEMMA SettleWorks ==
  ASSUME NEW g \in [MutationNode -> NodeState]
  PROVE  /\ \A n \in MutationNode :
              g[n] # "Skipped" /\ SettleUnreachable(g)[n] = "Skipped" =>
                \E m \in HardSources(n) : SettleUnreachable(g)[m] \in Unsuccessful
         /\ \A n \in MutationNode :
              SettleUnreachable(g)[n] = "Pending" =>
                \A m \in HardSources(n) : SettleUnreachable(g)[m] \notin Unsuccessful
<1>1. g \in G!GraphState
  BY SameWords
<1>2. \A n \in MutationNode :
        g[n] # "Skipped" /\ SettleUnreachable(g)[n] = "Skipped" =>
          \E m \in HardSources(n) : SettleUnreachable(g)[m] \in Unsuccessful
  BY <1>1, CompiledGraph, SameWords, SameUpdates, G!SettleSkipsForCause
<1>3. \A n \in MutationNode :
        SettleUnreachable(g)[n] = "Pending" =>
          \A m \in HardSources(n) : SettleUnreachable(g)[m] \notin Unsuccessful
  BY <1>1, CompiledGraph, SameWords, SameUpdates, G!SettleLeavesNoneBlocked
<1> QED
  BY <1>2, <1>3

\* What the runner's calls do is legal.
LEMMA CallsAreSteps ==
  ASSUME NEW g \in [MutationNode -> NodeState], NEW handled
  PROVE  /\ GraphStep(g, g, handled)
         /\ GraphStep(g, SettleUnreachable(g), handled)
         /\ GraphStep(g, RecoverFromCheckpoint(g), handled)
         /\ \A B \in SUBSET MutationNode :
              CanStartBatch(g, B) => GraphStep(g, StartReadyBatch(g, B), handled)
         /\ \A n \in MutationNode, o \in Decision :
              g[n] \in Unsure /\ (o = "Succeeded" => n \in handled)
                => GraphStep(g, SetState(g, n, o), handled)
<1>1. g \in G!GraphState
  BY SameWords
<1>2. GraphStep(g, g, handled)
  BY DEF GraphStep, LegalNodeStep, JustifiedStart, JustifiedSkip, JustifiedSuccess
<1>3. GraphStep(g, SettleUnreachable(g), handled)
  BY SettleNodes, SettleWorks DEF GraphStep, LegalNodeStep, ValidSnapshotTransition,
     JustifiedStart, JustifiedSkip, JustifiedSuccess, Started
<1>4. GraphStep(g, RecoverFromCheckpoint(g), handled)
  BY <1>1, CompiledGraph, SameWords, SameUpdates, SameSteps, G!RecoverIsStep
<1>5. \A B \in SUBSET MutationNode :
        CanStartBatch(g, B) => GraphStep(g, StartReadyBatch(g, B), handled)
  BY <1>1, CompiledGraph, SameWords, SameUpdates, SameSteps, G!StartIsStep
<1>6. ASSUME NEW n \in MutationNode, NEW o \in Decision,
             g[n] \in Unsure, o = "Succeeded" => n \in handled
      PROVE  GraphStep(g, SetState(g, n, o), handled)
  <2>1. o \in G!OutcomeState /\ o \in G!Decision
    BY SameWords DEF OutcomeState, Decision
  <2>2. g[n] = "Running" \/ (g[n] = "RecoveryRequired" /\ o \in G!Decision)
    BY <1>6, <2>1 DEF Unsure
  <2>3. G!GraphStep(g, G!SetState(g, n, o), handled)
    BY <1>1, <1>6, <2>1, <2>2, CompiledGraph, SameWords, G!EndIsStep
  <2> QED
    BY <2>3, SameUpdates, SameSteps
<1> QED
  BY <1>2, <1>3, <1>4, <1>5, <1>6

\* A node that is recorded as succeeded has taken its effect.
LEMMA RecordIsLegal ==
  ASSUME IInv, NEW n \in MutationNode, NEW o \in Decision, Record(n, o),
         o = "Succeeded" => n \in Effected
  PROVE  GraphStep(st, st', Effected)
<1>1. st[n] \in Unsure /\ st' = SetState(st, n, o)
  BY DEF Record, Unsure
<1> QED
  BY <1>1, CallsAreSteps DEF IInv, TypeOK

\* The nodes without an external effect succeed by being recorded.
LEMMA QuietNodes ==
  ASSUME NEW n \in MutationNode, n \notin {"claim", "apply", "release"}
  PROVE  n \in Effected
  BY DEF Effected

\* The claim intents name every file or none, so facts that confirm them confirm
\* every claim.
Whole == intents["claim"] \in {{}, File}

LEMMA WholeKept ==
  ASSUME IInv, Whole, [Next]_vars
  PROVE  Whole'
<1> USE DEF Whole
<1>1. \/ UNCHANGED intents
      \/ RecordIntents("claim", File)
      \/ \E files : RecordIntents("apply", files) \/ RecordIntents("release", files)
  BY DEF Next, DriverStep, RecoveryStep, AdmitContract, ReturnDirect, ExceedWorkerLimit,
     RecordClaimIntents, AdmitClaim, MeetConflict, RecordClaimed, RecordClaimFailed,
     AdmitProposals, SettleStage, Settle, AdmitReview, FailPlan, RecordApplyIntents, AdmitApply,
     RecordApply, RecordReleaseIntents, AdmitRelease, RecordRelease, AdmitFinalize,
     RecordFinalize, RecordContract, RecordReview, RecordProposal, ClaimFile, ReleaseFile,
     FailClaimCall, FailReleaseCall, ApplyOperation, Recover, SettleRecovery, ReadFacts,
     FailFacts, Reconcile, Interrupt, vars
<1> QED
  BY <1>1 DEF RecordIntents, IInv, TypeOK, EffectNode, File

LEMMA StepIsLegal ==
  ASSUME IInv, Whole, [Next]_vars
  PROVE  GraphStep(st, st', Effected)
<1> USE DEF Goto
<1>1. st \in [MutationNode -> NodeState]
  BY DEF IInv, TypeOK
<1>2. ASSUME UNCHANGED st PROVE GraphStep(st, st', Effected)
  BY <1>1, <1>2, CallsAreSteps
<1>3. ASSUME NEW n \in Stage, NEW from, NEW to, Admit(n, from, to)
      PROVE  GraphStep(st, st', Effected)
  BY <1>1, <1>2, <1>3, CallsAreSteps, Named DEF Admit
<1>4. CASE AdmitContract \/ AdmitClaim \/ AdmitReview \/ AdmitApply \/ AdmitRelease \/ AdmitFinalize
  BY <1>3, <1>4, Named DEF AdmitContract, AdmitClaim, AdmitReview, AdmitApply, AdmitRelease,
     AdmitFinalize
<1>5. CASE AdmitProposals
  <2>1. NextBatch \in SUBSET MutationNode
    BY Named DEF NextBatch, Worker
  <2> QED
    BY <1>1, <1>5, <2>1, CallsAreSteps DEF AdmitProposals
<1>6. CASE SettleStage \/ SettleRecovery
  BY <1>1, <1>6, CallsAreSteps DEF SettleStage, SettleRecovery, Settle
<1>7. CASE RecordClaimed
  <2>1. claims = File
    BY <1>7 DEF RecordClaimed, IInv, World, Known
  <2>2. "claim" \in Effected /\ "claim" \in MutationNode
    BY <2>1, Named DEF Effected
  <2> QED
    BY <1>7, <2>2, RecordIsLegal DEF RecordClaimed, Decision
<1>8. CASE RecordClaimFailed
  BY <1>8, RecordIsLegal, Named DEF RecordClaimFailed, Decision
<1>9. CASE RecordApply
  <2>1. IF written = File THEN Record("apply", "Succeeded") ELSE Record("apply", "Failed")
    BY <1>9 DEF RecordApply
  <2>2. written = File => "apply" \in Effected
    BY Named DEF Effected
  <2> QED
    BY <2>1, <2>2, RecordIsLegal, Named DEF Decision
<1>10. CASE RecordRelease
  <2>1. IF failed THEN Record("release", "Failed") ELSE Record("release", "Succeeded")
    BY <1>10 DEF RecordRelease
  <2>2. failed \/ claims = {}
    BY <1>10 DEF RecordRelease, IInv, World, Known
  <2>3. failed \/ "release" \in Effected
    BY <2>2, Named DEF Effected
  <2> QED
    BY <2>1, <2>3, RecordIsLegal, Named DEF Decision
<1>11. CASE RecordFinalize
  BY <1>11, RecordIsLegal, QuietNodes, Named DEF RecordFinalize, Decision
<1>12. ASSUME NEW o \in {"Succeeded", "Failed"}, RecordContract(o) \/ RecordReview(o)
       PROVE  GraphStep(st, st', Effected)
  BY <1>12, RecordIsLegal, QuietNodes, Named DEF RecordContract, RecordReview, Decision
<1>13. ASSUME NEW o \in {"Succeeded", "Failed"}, NEW w \in Worker, RecordProposal(w, o)
       PROVE  GraphStep(st, st', Effected)
  <2>1. w \in MutationNode /\ w \notin {"claim", "apply", "release"}
    BY Named
  <2> QED
    BY <1>13, <2>1, RecordIsLegal, QuietNodes DEF RecordProposal, Decision
<1>14. CASE Recover
  BY <1>1, <1>14, CallsAreSteps DEF Recover
<1>15. ASSUME NEW n \in MutationNode, NEW d \in Decision, Reconcile(n, d)
       PROVE  GraphStep(st, st', Effected)
  <2>1. st[n] \in Unsure /\ st' = SetState(st, n, d) /\ (d = "Succeeded" => Assess(n) = d)
    BY <1>15 DEF Reconcile, CanReconcile, Unsure
  <2>2. ASSUME d = "Succeeded", n = "claim" PROVE claims = File
    <3>1. Verdict(claims \cap intents["claim"], intents["claim"]) = "Succeeded"
      BY <2>1, <2>2 DEF Assess
    <3>2. claims \cap intents["claim"] = intents["claim"] /\ intents["claim"] # {}
      BY <3>1 DEF Verdict
    <3> QED
      BY <3>2 DEF Whole, IInv, TypeOK
  <2>3. d = "Succeeded" => n \in Effected
    BY <2>1, <2>2, FactsAreTrue DEF Effected
  <2> QED
    BY <1>1, <2>1, <2>3, CallsAreSteps
<1>16. CASE \/ ReturnDirect \/ ExceedWorkerLimit \/ RecordClaimIntents \/ MeetConflict
            \/ FailPlan \/ RecordApplyIntents \/ RecordReleaseIntents \/ ReadFacts \/ FailFacts
            \/ Interrupt
  BY <1>2, <1>16 DEF ReturnDirect, ExceedWorkerLimit, RecordClaimIntents, MeetConflict, FailPlan,
     RecordApplyIntents, RecordReleaseIntents, ReadFacts, FailFacts, Interrupt
<1>17. ASSUME NEW f \in File, NEW b \in BOOLEAN,
              \/ ClaimFile(f) \/ ReleaseFile(f)
              \/ FailClaimCall(f, b) \/ FailReleaseCall(f, b) \/ ApplyOperation(f, b)
       PROVE  GraphStep(st, st', Effected)
  BY <1>2, <1>17 DEF ClaimFile, ReleaseFile, FailClaimCall, FailReleaseCall, ApplyOperation
<1>18. CASE UNCHANGED vars
  BY <1>2, <1>18 DEF vars
<1> QED
  BY <1>4, <1>5, <1>6, <1>7, <1>8, <1>9, <1>10, <1>11, <1>12, <1>13, <1>14, <1>15, <1>16, <1>17,
     <1>18 DEF Next, DriverStep, RecoveryStep

\* Driver, crashes and recovery commands take the stored graph only through legal
\* steps, and a node becomes Succeeded only with its effect in the world.
THEOREM LegalHistory == Spec => StoredGraphIsLegal
<1>1. Init => Whole
  BY DEF Init, Whole, EffectNode
<1>2. IInv /\ Whole /\ [Next]_vars => Whole'
  BY WholeKept
<1>3. IInv /\ Whole /\ [Next]_vars => [GraphStep(st, st', Effected)]_vars
  BY StepIsLegal
<1> QED
  BY <1>1, <1>2, <1>3, SpecInv, PTL DEF Spec, StoredGraphIsLegal

\* A legal step of the compiled graph keeps the order of its edges.
LEMMA OrderSurvives ==
  ASSUME NEW g \in [MutationNode -> NodeState], NEW h \in [MutationNode -> NodeState],
         NEW S, GraphStep(g, h, S),
         StartedAfterPrerequisites(g), SkippedForCause(g)
  PROVE  StartedAfterPrerequisites(h) /\ SkippedForCause(h)
<1>1. \A f : /\ G!StartedAfterPrerequisites(f) = StartedAfterPrerequisites(f)
            /\ G!SkippedForCause(f) = SkippedForCause(f)
  BY SameWords DEF G!StartedAfterPrerequisites, StartedAfterPrerequisites,
     G!SkippedForCause, SkippedForCause
<1>2. G!GraphStep(g, h, S)
  BY SameSteps
<1>3. g \in G!GraphState /\ h \in G!GraphState
  BY SameWords
<1>4. G!StartedAfterPrerequisites(g) /\ G!SkippedForCause(g)
  BY <1>1
<1>5. G!StartedAfterPrerequisites(h) /\ G!SkippedForCause(h)
  BY <1>2, <1>3, <1>4, CompiledGraph, SameWords, G!GraphStepKeepsOrder
<1> QED
  BY <1>1, <1>5

\* The order of the edges holds in the row at every moment: no crash, abandoned
\* patch or retried cleanup leaves a node started ahead of a prerequisite, or
\* skipped while all of them may still succeed.
GraphInOrder == StartedAfterPrerequisites(st) /\ SkippedForCause(st)

\* Every behaviour of the driver and the recovery commands keeps that order.
THEOREM GraphKeepsOrder == Spec => []GraphInOrder
<1>1. Init => GraphInOrder
  <2> SUFFICES ASSUME Init PROVE GraphInOrder
    OBVIOUS
  <2>1. \A n \in MutationNode : st[n] = "Pending"
    BY DEF Init, AllPending
  <2> QED
    BY <2>1 DEF GraphInOrder, StartedAfterPrerequisites, SkippedForCause, Started
<1>2. Init => Whole
  BY DEF Init, Whole, EffectNode
<1>3. IInv /\ Whole /\ [Next]_vars => Whole'
  BY WholeKept
<1>4. IInv /\ IInv' /\ Whole /\ [Next]_vars /\ GraphInOrder => GraphInOrder'
  <2> SUFFICES ASSUME IInv, IInv', Whole, [Next]_vars, GraphInOrder
               PROVE  GraphInOrder'
    OBVIOUS
  <2>1. GraphStep(st, st', Effected)
    BY StepIsLegal
  <2>2. st \in [MutationNode -> NodeState] /\ st' \in [MutationNode -> NodeState]
    BY DEF IInv, TypeOK
  <2>3. StartedAfterPrerequisites(st) /\ SkippedForCause(st)
    BY DEF GraphInOrder
  <2>4. StartedAfterPrerequisites(st') /\ SkippedForCause(st')
    BY <2>1, <2>2, <2>3, OrderSurvives
  <2> QED
    BY <2>4 DEF GraphInOrder, StartedAfterPrerequisites, SkippedForCause
<1> QED
  BY <1>1, <1>2, <1>3, <1>4, SpecInv, PTL DEF Spec

-----------------------------------------------------------------------------
(* A task runs out.  Nothing takes the graph back, and while the graph stays   *)
(* as it is, the driver and the recovery only go forward: what a liveness      *)
(* argument needs beside fairness, for any number of crashes.                  *)

\* How far a node is on its way to a terminal state.
Stride(s) ==
  CASE s = "Pending" -> 0 [] s = "Running" -> 1 [] s = "RecoveryRequired" -> 2 [] OTHER -> 3

\* The places in the order in which an unchanged graph lets them follow.
Turn ==
  [contract |-> 1, validating |-> 2, settleBlocked |-> 3, claimIntents |-> 4,
   claimAdmit |-> 5, claiming |-> 6, conflict |-> 7, claimError |-> 8, propose |-> 9,
   proposing |-> 10, settleWork |-> 11, review |-> 12, reviewing |-> 13, settleReview |-> 14,
   applyIntents |-> 15, applyAdmit |-> 16, applying |-> 17, settleApply |-> 18,
   settleRecovery |-> 19, facts |-> 20, releaseIntents |-> 21, releaseAdmit |-> 22,
   releasing |-> 23, settleRelease |-> 24, finalize |-> 25, finalizing |-> 26,
   returned |-> 27, gone |-> 28, recovered |-> 29]

GraphGoesOn == st' # st /\ \A n \in MutationNode : st'[n] = st[n] \/ Stride(st'[n]) > Stride(st[n])

PlaceGoesOn == st' = st /\ Turn[pc'] > Turn[pc]

LoopGoesOn == st' = st /\ pc' = pc /\ todo' \subseteq todo /\ todo' # todo

\* Each step of the driver, of a recovery command or of a crash uses up something
\* there is only so much of: a change of a node, a place, or a file left to visit.
TaskRunsOut == [][GraphGoesOn \/ PlaceGoesOn \/ LoopGoesOn]_vars

LEMMA LegalStride ==
  ASSUME NEW from \in NodeState, NEW to \in NodeState, LegalNodeStep(from, to), to # from
  PROVE  Stride(to) > Stride(from)
<1>1. \/ from = "Pending" /\ to \in {"Running", "Cancelled", "Skipped", "Failed"}
      \/ from = "Running" /\ to \in {"Succeeded", "Failed", "Cancelled", "RecoveryRequired"}
      \/ from = "RecoveryRequired" /\ to \in {"Succeeded", "Failed"}
  BY DEF LegalNodeStep, ValidSnapshotTransition
<1> QED
  BY <1>1 DEF Stride

LEMMA PlacesGoOn ==
  ASSUME IInv, Next, st' = st
  PROVE  PlaceGoesOn \/ LoopGoesOn
<1> USE DEF Goto
<1>1. ASSUME NEW f \in todo, pc' = pc, todo' = todo \ {f} PROVE LoopGoesOn
  BY <1>1 DEF LoopGoesOn
<1>2. ASSUME NEW f \in File, NEW b \in BOOLEAN,
             ClaimFile(f) \/ ReleaseFile(f) \/ FailReleaseCall(f, b) \/ ApplyOperation(f, b)
      PROVE  LoopGoesOn
  BY <1>1, <1>2 DEF ClaimFile, ReleaseFile, FailReleaseCall, ApplyOperation
<1>3. ASSUME NEW f \in File, NEW b \in BOOLEAN, FailClaimCall(f, b) PROVE PlaceGoesOn
  <2>1. pc = "claiming" /\ pc' = "claimError"
    BY <1>3 DEF FailClaimCall
  <2> QED
    BY <2>1 DEF PlaceGoesOn, Turn
<1>4. CASE AdmitContract \/ AdmitClaim \/ AdmitReview \/ AdmitApply \/ AdmitRelease \/ AdmitFinalize
  <2>1. \/ pc = "contract" /\ pc' \in {"validating", "returned"}
        \/ pc = "claimAdmit" /\ pc' \in {"claiming", "returned"}
        \/ pc = "review" /\ pc' \in {"reviewing", "returned"}
        \/ pc = "applyAdmit" /\ pc' \in {"applying", "returned"}
        \/ pc = "releaseAdmit" /\ pc' \in {"releasing", "returned"}
        \/ pc = "finalize" /\ pc' \in {"finalizing", "returned"}
    BY <1>4 DEF AdmitContract, AdmitClaim, AdmitReview, AdmitApply, AdmitRelease, AdmitFinalize,
       Admit
  <2> QED
    BY <2>1 DEF PlaceGoesOn, Turn
<1>5. CASE ReturnDirect \/ ExceedWorkerLimit \/ FailPlan \/ FailFacts
  <2>1. pc \in {"contract", "claimIntents", "applyIntents", "facts"} /\ pc' = "returned"
    BY <1>5 DEF ReturnDirect, ExceedWorkerLimit, FailPlan, FailFacts
  <2> QED
    BY <2>1 DEF PlaceGoesOn, Turn
<1>6. CASE RecordClaimIntents \/ RecordApplyIntents \/ MeetConflict \/ ReadFacts
  <2>1. \/ pc = "claimIntents" /\ pc' = "claimAdmit"
        \/ pc = "applyIntents" /\ pc' = "applyAdmit"
        \/ pc = "claiming" /\ pc' = "conflict"
        \/ pc = "facts" /\ pc' = "releaseIntents"
    BY <1>6 DEF RecordClaimIntents, RecordApplyIntents, MeetConflict, ReadFacts
  <2> QED
    BY <2>1 DEF PlaceGoesOn, Turn
<1>7. CASE RecordReleaseIntents
  <2>1. pc = "releaseIntents" /\ pc' \in {"releaseAdmit", "returned"}
    BY <1>7 DEF RecordReleaseIntents
  <2> QED
    BY <2>1 DEF PlaceGoesOn, Turn
<1>8. CASE RecordClaimed \/ RecordClaimFailed \/ RecordApply \/ RecordRelease \/ RecordFinalize
  <2>1. \/ pc = "claiming" /\ pc' = "propose"
        \/ pc = "conflict" /\ pc' = "settleWork"
        \/ pc = "claimError" /\ pc' = "returned"
        \/ pc = "applying" /\ pc' = "settleApply"
        \/ pc = "releasing" /\ pc' = "settleRelease"
        \/ pc = "finalizing" /\ pc' = "returned"
    BY <1>8 DEF RecordClaimed, RecordClaimFailed, RecordApply, RecordRelease, RecordFinalize
  <2> QED
    BY <2>1 DEF PlaceGoesOn, Turn
<1>9. CASE AdmitProposals
  <2>1. pc = "propose" /\ pc' = "proposing"
    BY <1>9 DEF AdmitProposals
  <2> QED
    BY <2>1 DEF PlaceGoesOn, Turn
<1>10. CASE SettleStage
  <2>1. \/ pc = "settleBlocked" /\ pc' = "returned"
        \/ pc = "settleWork" /\ pc' \in {"review", "settleReview"}
        \/ pc = "settleReview" /\ pc' \in {"applyIntents", "settleApply"}
        \/ pc = "settleApply" /\ pc' = "releaseIntents"
        \/ pc = "settleRelease" /\ pc' \in {"finalize", "returned"}
    BY <1>10 DEF SettleStage, Settle
  <2> QED
    BY <2>1 DEF PlaceGoesOn, Turn
<1>11. ASSUME NEW o \in {"Succeeded", "Failed"}, RecordContract(o) \/ RecordReview(o)
       PROVE  PlaceGoesOn
  <2>1. \/ pc = "validating" /\ pc' \in {"claimIntents", "settleBlocked"}
        \/ pc = "reviewing" /\ pc' = "settleReview"
    BY <1>11 DEF RecordContract, RecordReview
  <2> QED
    BY <2>1 DEF PlaceGoesOn, Turn
<1>12. ASSUME NEW n \in MutationNode, NEW o \in Decision, st[n] \in Unsure,
              st' = SetState(st, n, o)
       PROVE  FALSE
  <2>1. o \in NodeState /\ o \notin Unsure
    BY DEF Decision, NodeState, Unsure
  <2>2. st \in [MutationNode -> NodeState]
    BY DEF IInv, TypeOK
  <2>3. SetState(st, n, o)[n] = o
    BY <2>1, <2>2, SetNodes
  <2> QED
    BY <1>12, <2>1, <2>3
<1>13. ASSUME NEW o \in {"Succeeded", "Failed"}, NEW w \in Worker, RecordProposal(w, o)
       PROVE  FALSE
  BY <1>12, <1>13, Named DEF RecordProposal, Record, Decision, Unsure
<1>14. ASSUME NEW n \in MutationNode, NEW d \in Decision, Reconcile(n, d) PROVE FALSE
  BY <1>12, <1>14 DEF Reconcile, CanReconcile, Unsure
<1>15. CASE Recover \/ SettleRecovery
  <2>1. \/ pc \in {"returned", "gone"} /\ pc' = "recovered"
        \/ pc = "settleRecovery" /\ pc' \in {"facts", "finalize", "returned"}
    BY <1>15 DEF Recover, SettleRecovery, Settle
  <2> QED
    BY <2>1 DEF PlaceGoesOn, Turn
<1>16. CASE Interrupt
  <2>1. pc \in Place /\ pc \notin Resting /\ pc' = "gone"
    BY <1>16 DEF Interrupt, IInv, TypeOK
  <2>2. Turn[pc] \in Nat /\ Turn[pc] < 27
    BY <2>1 DEF Turn, Place, Resting
  <2>3. Turn["gone"] = 28
    BY DEF Turn
  <2> QED
    BY <2>1, <2>2, <2>3 DEF PlaceGoesOn
<1> QED
  BY <1>2, <1>3, <1>4, <1>5, <1>6, <1>7, <1>8, <1>9, <1>10, <1>11, <1>13, <1>14, <1>15, <1>16
     DEF Next, DriverStep, RecoveryStep

\* For every roster, set of faults and number of crashes, a task has only so many
\* steps in it: the driver, its rollbacks and any sequence of recovery commands
\* never come back to where they were.
THEOREM TaskEnds == Spec => TaskRunsOut
<1>1. Init => Whole
  BY DEF Init, Whole, EffectNode
<1>2. IInv /\ Whole /\ [Next]_vars => Whole'
  BY WholeKept
<1>3. IInv /\ IInv' /\ Whole /\ [Next]_vars => [GraphGoesOn \/ PlaceGoesOn \/ LoopGoesOn]_vars
  <2> SUFFICES ASSUME IInv, IInv', Whole, Next PROVE GraphGoesOn \/ PlaceGoesOn \/ LoopGoesOn
    OBVIOUS
  <2>1. CASE st' # st
    <3>1. \A n \in MutationNode : LegalNodeStep(st[n], st'[n])
      BY StepIsLegal DEF GraphStep
    <3>2. \A n \in MutationNode : st[n] \in NodeState /\ st'[n] \in NodeState
      BY DEF IInv, TypeOK
    <3>3. \A n \in MutationNode : st'[n] = st[n] \/ Stride(st'[n]) > Stride(st[n])
      BY <3>1, <3>2, LegalStride
    <3> QED
      BY <2>1, <3>3 DEF GraphGoesOn
  <2>2. CASE st' = st
    BY <2>2, PlacesGoOn
  <2> QED
    BY <2>1, <2>2
<1> QED
  BY <1>1, <1>2, <1>3, SpecInv, PTL DEF Spec, TaskRunsOut

-----------------------------------------------------------------------------
(* What the runner accepts.  The order of the nodes (IInv) says what may have  *)
(* started; readiness also needs what has not, and what is over.               *)

\* The first part of a task, up to the record of the review.
Early == BeforeClaim \cup Claiming \cup Proposing \cup {"settleWork", "review", "reviewing"}

\* What the driver has yet to come to is untouched.
Ahead ==
  /\ pc = "contract" => st["contract"] = "Pending"
  /\ pc \in BeforeClaim => st["claim"] = "Pending"
  /\ pc \in BeforeClaim \cup Claiming => \A w \in Worker : st[w] = "Pending"
  /\ pc \in Early \ {"reviewing"} => st["review"] = "Pending"
  /\ pc \in Early \cup {"applyIntents", "applyAdmit"} => st["apply"] = "Pending"
  /\ pc \in Early \cup Judging \cup (Cleaning \ {"releasing"}) \cup {"facts"} =>
       st["release"] = "Pending"
  /\ pc = "finalize" => st["finalize"] = "Pending"
  /\ pc \in {"contract", "validating", "claimIntents"} => intents["claim"] = {}
  /\ pc \in Early \cup {"settleReview", "applyIntents"} => intents["apply"] = {}

\* What it has left behind is over.
Behind ==
  /\ pc \in {"claimIntents", "claimAdmit", "facts"} \cup Claiming \cup Proposing \cup Judging
              \cup Cleaning => st["contract"] = "Succeeded"
  /\ pc = "settleWork" =>
       /\ st["claim"] \in {"Succeeded", "Failed"}
       /\ \A w \in Worker :
            st[w] \in {"Pending", "Succeeded", "Failed"} /\ w \notin ReadyNodeIds(st)
  /\ pc = "review" => \A w \in Worker : st[w] = "Succeeded"
  /\ pc = "settleReview" =>
       \/ st["review"] = "Succeeded" /\ st["apply"] = "Pending"
       \/ st["review"] \in {"Failed", "Skipped"} /\ st["apply"] \in {"Pending", "Skipped"}
  /\ pc \in {"applyIntents", "applyAdmit"} => st["review"] = "Succeeded"
  /\ pc \in (Cleaning \ {"releasing"}) \cup {"facts"} =>
       st["review"] \in Terminal /\ st["apply"] \in Terminal
  /\ pc = "finalize" => st["apply"] = "Succeeded" /\ st["release"] = "Succeeded"

\* Up to the i-th worker the handoff has gone well, behind it nothing has begun.
Handed(i) ==
  \A j \in DOMAIN Roster :
    /\ j < i => st[Roster[j]] = "Succeeded"
    /\ j > i => st[Roster[j]] = "Pending"

\* What it is at runs.
AtWork ==
  /\ pc = "validating" => st["contract"] = "Running"
  /\ pc = "propose" =>
       IF Sequential
         THEN \E i \in DOMAIN Roster : Handed(i) /\ st[Roster[i]] = "Pending"
         ELSE \A w \in Worker : st[w] = "Pending"
  /\ pc = "proposing" =>
       IF Sequential
         THEN \E i \in DOMAIN Roster : Handed(i) /\ st[Roster[i]] = "Running"
         ELSE /\ \E w \in Worker : st[w] = "Running"
              /\ \A w \in Worker : st[w] \in {"Running", "Succeeded", "Failed"}
  /\ pc = "reviewing" => st["review"] = "Running"
  /\ pc = "applying" => st["apply"] = "Running"
  /\ pc = "releasing" => st["release"] = "Running"
  /\ pc = "finalizing" => st["finalize"] = "Running"

Driven == Ahead /\ Behind /\ AtWork

\* The prerequisites of every node.
LEMMA Sources ==
  /\ HardSources("contract") = {} /\ FinallySources("contract") = {}
  /\ HardSources("claim") \subseteq {"contract"} /\ FinallySources("claim") = {}
  /\ \A i \in DOMAIN Roster :
       HardSources(Roster[i]) = {WorkSource(i)} /\ FinallySources(Roster[i]) = {}
  /\ HardSources("review") = Worker /\ FinallySources("review") = {}
  /\ HardSources("apply") = {"review"} /\ FinallySources("apply") = {}
  /\ HardSources("release") = {"contract"} /\ FinallySources("release") = {"review", "apply"}
  /\ HardSources("finalize") = {"apply", "release"} /\ FinallySources("finalize") = {}
<1>1. \A e \in MutationEdge :
        /\ e.to # "contract"
        /\ e.to = "claim" => e.from = "contract" /\ e.kind # "Finally"
        /\ \A i \in DOMAIN Roster :
             e.to = Roster[i] => e.from = WorkSource(i) /\ e.kind # "Finally"
        /\ e.to = "review" => e.from \in Worker /\ e.kind # "Finally"
        /\ e.to = "apply" => e.from = "review" /\ e.kind # "Finally"
        /\ e.to = "release" => \/ e.from = "contract"
                               \/ e.from \in {"review", "apply"} /\ e.kind = "Finally"
        /\ e.to = "finalize" => e.from \in {"apply", "release"} /\ e.kind # "Finally"
        /\ e.kind = "Finally" => e.from \in {"review", "apply"}
  BY EdgesInto, Indices, Named
<1>2. \A i \in DOMAIN Roster : WorkSource(i) \in HardSources(Roster[i])
  <2>1. TAKE i \in DOMAIN Roster
  <2> DEFINE e == Link(WorkSource(i), Roster[i], "Consumes")
  <2>2. e \in MutationEdge /\ e.to = Roster[i] /\ e.from = WorkSource(i) /\ e.kind = "Consumes"
    BY CompiledEdges DEF Link
  <2> QED
    BY <2>2 DEF HardSources
<1>3. {"review", "apply"} \subseteq FinallySources("release")
  <2> DEFINE a == Link("review", "release", "Finally")
             b == Link("apply", "release", "Finally")
  <2>1. /\ a \in MutationEdge /\ a.to = "release" /\ a.from = "review" /\ a.kind = "Finally"
        /\ b \in MutationEdge /\ b.to = "release" /\ b.from = "apply" /\ b.kind = "Finally"
    BY DEF MutationEdge, Link
  <2> QED
    BY <2>1 DEF FinallySources
<1>4. \A i \in DOMAIN Roster :
        HardSources(Roster[i]) = {WorkSource(i)} /\ FinallySources(Roster[i]) = {}
  BY <1>1, <1>2 DEF HardSources, FinallySources
<1>5. /\ HardSources("contract") = {} /\ FinallySources("contract") = {}
      /\ HardSources("claim") \subseteq {"contract"} /\ FinallySources("claim") = {}
  BY <1>1 DEF HardSources, FinallySources
<1>6. /\ HardSources("review") = Worker /\ FinallySources("review") = {}
      /\ HardSources("apply") = {"review"} /\ FinallySources("apply") = {}
  BY <1>1, Prerequisites DEF HardSources, FinallySources
<1>7. /\ HardSources("finalize") = {"apply", "release"} /\ FinallySources("finalize") = {}
      /\ FinallySources("release") \subseteq {"review", "apply"}
  BY <1>1, Prerequisites DEF HardSources, FinallySources
<1> QED
  BY <1>3, <1>4, <1>5, <1>6, <1>7, Prerequisites

\* The batch of a handoff is the next worker.
LEMMA NextInTurn ==
  ASSUME Sequential, NEW i \in DOMAIN Roster, Handed(i), st[Roster[i]] = "Pending"
  PROVE  NextBatch = {Roster[i]}
<1>1. \A j \in DOMAIN Roster : st[Roster[j]] = "Pending" <=> j >= i
  BY Indices DEF Handed
<1>2. \A j \in DOMAIN Roster :
        (st[Roster[j]] = "Pending" /\ \A k \in 1 .. j - 1 : st[Roster[k]] # "Pending") <=> j = i
  BY <1>1, Indices
<1> QED
  BY <1>2 DEF NextBatch

\* A driver that claims files has somebody to claim them for.
LEMMA AssignedWorker ==
  ASSUME IInv, pc \in Claiming \cup Proposing
  PROVE  Worker # {} /\ 1 \in DOMAIN Roster
<1>1. Worker # {}
  BY SomeWorker DEF IInv, Staffed, Resting, Claiming, Proposing
<1>2. PICK i \in DOMAIN Roster : i \in Nat /\ i >= 1
  BY <1>1, Indices
<1> QED
  BY <1>1, <1>2, Indices

\* The next of the handoff, or all workers at once, are ready.
LEMMA BatchIsReady ==
  ASSUME IInv, Driven, pc = "propose"
  PROVE  CanStartBatch(st, NextBatch)
<1>1. st["claim"] = "Succeeded"
  BY DEF IInv, World, Placed, Proposing
<1>2. CASE Sequential
  <2>1. PICK i \in DOMAIN Roster : Handed(i) /\ st[Roster[i]] = "Pending"
    BY <1>2 DEF Driven, AtWork
  <2>2. NextBatch = {Roster[i]}
    BY <1>2, <2>1, NextInTurn
  <2>3. st[WorkSource(i)] = "Succeeded"
    BY <1>1, <2>1, WorkSources, Indices DEF Handed
  <2>4. Roster[i] \in MutationNode
    BY Indices, Named
  <2> QED
    BY <2>1, <2>2, <2>3, <2>4, Sources DEF CanStartBatch, ReadyNodeIds
<1>3. CASE ~ Sequential
  <2>1. NextBatch = Worker /\ \A w \in Worker : st[w] = "Pending"
    BY <1>3 DEF NextBatch, Driven, AtWork
  <2>2. \A i \in DOMAIN Roster : WorkSource(i) = "claim"
    BY <1>3 DEF WorkSource
  <2>3. \A w \in Worker : HardSources(w) = {"claim"} /\ FinallySources(w) = {}
    BY <2>2, Indices, Sources
  <2> QED
    BY <1>1, <2>1, <2>3, Named, AssignedWorker DEF CanStartBatch, ReadyNodeIds, Proposing
<1> QED
  BY <1>2, <1>3

LEMMA DrivenIsAccepted ==
  ASSUME IInv, Driven
  PROVE  /\ pc \in DOMAIN Admitted => CanStartBatch(st, Admitted[pc])
         /\ pc \in DOMAIN Recorded =>
              Recorded[pc] # {} /\ \A n \in Recorded[pc] : st[n] = "Running"
         /\ pc = "claimIntents" => st["claim"] = "Pending" /\ intents["claim"] = {}
         /\ pc = "applyIntents" => st["apply"] = "Pending" /\ intents["apply"] = {}
         /\ pc = "releaseIntents" => st["release"] = "Pending"
<1> USE DEF BeforeClaim, Claiming, Proposing, Judging, Cleaning, Early
<1>1. ASSUME NEW n \in Stage, st[n] = "Pending",
             \A m \in HardSources(n) : st[m] = "Succeeded",
             \A m \in FinallySources(n) : st[m] \in Terminal
      PROVE  CanStartBatch(st, {n})
  BY <1>1, Named DEF CanStartBatch, ReadyNodeIds
<1>2. pc \in DOMAIN Admitted => CanStartBatch(st, Admitted[pc])
  <2>1. CASE pc = "propose"
    BY <2>1, BatchIsReady DEF Admitted
  <2>2. \A n \in Stage :
          /\ pc = "contract" /\ n = "contract" => CanStartBatch(st, {n})
          /\ pc = "claimAdmit" /\ n = "claim" => CanStartBatch(st, {n})
          /\ pc = "review" /\ n = "review" => CanStartBatch(st, {n})
    BY <1>1, Sources DEF Driven, Ahead, Behind
  <2>3. \A n \in Stage :
          /\ pc = "applyAdmit" /\ n = "apply" => CanStartBatch(st, {n})
          /\ pc = "releaseAdmit" /\ n = "release" => CanStartBatch(st, {n})
          /\ pc = "finalize" /\ n = "finalize" => CanStartBatch(st, {n})
    BY <1>1, Sources DEF Driven, Ahead, Behind
  <2>4. \/ pc = "propose"
        \/ pc = "contract" /\ Admitted[pc] = {"contract"}
        \/ pc = "claimAdmit" /\ Admitted[pc] = {"claim"}
        \/ pc = "review" /\ Admitted[pc] = {"review"}
        \/ pc = "applyAdmit" /\ Admitted[pc] = {"apply"}
        \/ pc = "releaseAdmit" /\ Admitted[pc] = {"release"}
        \/ pc = "finalize" /\ Admitted[pc] = {"finalize"}
        \/ pc \notin DOMAIN Admitted
    BY DEF Admitted
  <2> QED
    BY <2>1, <2>2, <2>3, <2>4, Named
<1>3. pc \in DOMAIN Recorded =>
        Recorded[pc] # {} /\ \A n \in Recorded[pc] : st[n] = "Running"
  <2>1. CASE pc = "proposing"
    <3>1. \E w \in Worker : st[w] = "Running"
      BY <2>1, Indices DEF Driven, AtWork
    <3> QED
      BY <2>1, <3>1 DEF Recorded
  <2>2. CASE pc \in Claiming
    BY <2>2 DEF Recorded, IInv, World, Placed
  <2>3. \/ pc = "validating" /\ Recorded[pc] = {"contract"}
        \/ pc = "reviewing" /\ Recorded[pc] = {"review"}
        \/ pc = "applying" /\ Recorded[pc] = {"apply"}
        \/ pc = "releasing" /\ Recorded[pc] = {"release"}
        \/ pc = "finalizing" /\ Recorded[pc] = {"finalize"}
        \/ pc \in {"proposing"} \cup Claiming
        \/ pc \notin DOMAIN Recorded
    BY DEF Recorded
  <2> QED
    BY <2>1, <2>2, <2>3 DEF Driven, AtWork
<1>4. /\ pc = "claimIntents" => st["claim"] = "Pending" /\ intents["claim"] = {}
      /\ pc = "applyIntents" => st["apply"] = "Pending" /\ intents["apply"] = {}
      /\ pc = "releaseIntents" => st["release"] = "Pending"
  BY DEF Driven, Ahead
<1> QED
  BY <1>2, <1>3, <1>4

-----------------------------------------------------------------------------
(* The driver's steps. *)

\* Where nobody works, and before a settle that decides what follows, nothing is
\* to be shown.
LEMMA DrivenAtRest ==
  ASSUME pc' \in Resting \cup {"settleBlocked", "settleRelease", "settleRecovery"}
  PROVE  Driven'
  BY DEF Driven, Ahead, Behind, AtWork, Resting, Early, BeforeClaim, Claiming, Proposing, Judging,
     Cleaning

LEMMA DrivenSame ==
  ASSUME Driven, UNCHANGED <<st, intents, pc>>
  PROVE  Driven'
  BY DEF Driven, Ahead, Behind, AtWork, Handed, ReadyNodeIds

LEMMA DrivenContract ==
  ASSUME IInv, Driven,
         AdmitContract \/ RecordClaimIntents \/ \E o \in Decision : RecordContract(o)
  PROVE  Driven'
<1> USE DEF Driven, Ahead, Behind, AtWork, Early, BeforeClaim, Claiming, Proposing, Judging, Cleaning
<1>1. CASE AdmitContract
  <2>1. /\ pc = "contract" /\ UNCHANGED intents
        /\ \/ pc' = "returned"
           \/ /\ pc' = "validating" /\ st'["contract"] = "Running"
              /\ \A m \in MutationNode \ {"contract"} : st'[m] = st[m]
    BY <1>1, AdmitStage, Named DEF AdmitContract
  <2> QED
    BY <2>1, DrivenAtRest, Named DEF Resting
<1>2. CASE RecordClaimIntents
  <2>1. pc = "claimIntents" /\ pc' = "claimAdmit" /\ st' = st
    BY <1>2 DEF RecordClaimIntents, Goto
  <2>2. intents'["apply"] = intents["apply"]
    BY <1>2 DEF RecordClaimIntents, RecordIntents, IInv, TypeOK, EffectNode
  <2> QED
    BY <2>1, <2>2
<1>3. ASSUME NEW o \in Decision, RecordContract(o) PROVE Driven'
  <2>1. /\ pc = "validating" /\ pc' \in {"claimIntents", "settleBlocked"} /\ intents' = intents
        /\ pc' = "claimIntents" => st'["contract"] = "Succeeded"
        /\ \A m \in MutationNode \ {"contract"} : st'[m] = st[m]
    BY <1>3, RecordNode, Named DEF RecordContract, Goto
  <2>2. CASE pc' = "settleBlocked"
    BY <2>2, DrivenAtRest
  <2>3. CASE pc' = "claimIntents"
    BY <2>1, <2>3, Named
  <2> QED
    BY <2>1, <2>2, <2>3
<1> QED
  BY <1>1, <1>2, <1>3

\* A worker whose source did not succeed is not ready.
LEMMA NotReady ==
  ASSUME NEW g, NEW i \in DOMAIN Roster, g[WorkSource(i)] # "Succeeded"
  PROVE  Roster[i] \notin ReadyNodeIds(g)
  BY Sources DEF ReadyNodeIds

LEMMA DrivenClaim ==
  ASSUME IInv, Driven,
         \/ AdmitClaim \/ MeetConflict \/ RecordClaimed \/ RecordClaimFailed
         \/ \E f \in File : ClaimFile(f) \/ \E b \in BOOLEAN : FailClaimCall(f, b)
  PROVE  Driven'
<1> USE DEF Goto
<1>1. CASE AdmitClaim
  <2>1. /\ pc = "claimAdmit" /\ UNCHANGED intents
        /\ \/ pc' = "returned"
           \/ /\ pc' = "claiming"
              /\ \A m \in MutationNode \ {"claim"} : st'[m] = st[m]
    BY <1>1, AdmitStage, Named DEF AdmitClaim
  <2> QED
    BY <2>1, DrivenAtRest, Named DEF Resting, Driven, Ahead, Behind, AtWork, Early, BeforeClaim,
       Claiming, Proposing, Judging, Cleaning
<1>2. CASE MeetConflict \/ \E f \in File, b \in BOOLEAN : FailClaimCall(f, b)
  <2>1. /\ pc = "claiming" /\ pc' \in {"conflict", "claimError"} /\ UNCHANGED <<st, intents>>
    BY <1>2 DEF MeetConflict, FailClaimCall
  <2> QED
    BY <2>1 DEF Driven, Ahead, Behind, AtWork, Early, BeforeClaim, Claiming, Proposing, Judging,
       Cleaning
<1>3. CASE RecordClaimed
  <2>1. /\ pc = "claiming" /\ pc' = "propose" /\ intents' = intents
        /\ \A m \in MutationNode \ {"claim"} : st'[m] = st[m]
    BY <1>3, RecordNode, Named DEF RecordClaimed, Decision
  <2>2. \A w \in Worker : st'[w] = "Pending"
    BY <2>1, Named DEF Driven, Ahead, Claiming
  <2>3. 1 \in DOMAIN Roster
    BY <2>1, AssignedWorker DEF Claiming
  <2>4. AtWork'
    <3>1. \A i \in DOMAIN Roster : st'[Roster[i]] = "Pending"
      BY <2>2, Indices
    <3>2. Handed(1)' /\ st'[Roster[1]] = "Pending"
      BY <2>3, <3>1, Indices DEF Handed
    <3> QED
      BY <2>1, <2>2, <2>3, <3>2 DEF AtWork
  <2> QED
    BY <2>1, <2>2, <2>4, Named DEF Driven, Ahead, Behind, Early, BeforeClaim, Claiming, Proposing,
       Judging, Cleaning
<1>4. CASE RecordClaimFailed
  <2>1. /\ pc \in Claiming /\ pc' \in {"settleWork", "returned"} /\ intents' = intents
        /\ st'["claim"] = "Failed"
        /\ \A m \in MutationNode \ {"claim"} : st'[m] = st[m]
    BY <1>4, RecordNode, Named DEF RecordClaimFailed, Decision, Claiming
  <2>2. \A w \in Worker : st'[w] = "Pending"
    BY <2>1, Named DEF Driven, Ahead
  <2>3. \A i \in DOMAIN Roster : st'[WorkSource(i)] # "Succeeded"
    BY <2>1, <2>2, WorkSources, Indices
  <2>4. \A w \in Worker : w \notin ReadyNodeIds(st')
    BY <2>3, NotReady, Indices
  <2>5. CASE pc' = "returned"
    BY <2>5, DrivenAtRest DEF Resting
  <2>6. CASE pc' = "settleWork"
    BY <2>1, <2>2, <2>4, <2>6, Named DEF Driven, Ahead, Behind, AtWork, Early, BeforeClaim,
       Claiming, Proposing, Judging, Cleaning
  <2> QED
    BY <2>1, <2>5, <2>6
<1>5. ASSUME NEW f \in File, ClaimFile(f) PROVE Driven'
  BY <1>5, DrivenSame DEF ClaimFile
<1> QED
  BY <1>1, <1>2, <1>3, <1>4, <1>5

\* A handoff stops at the first failure, with nobody behind it ready.
LEMMA HandoffKept ==
  ASSUME IInv, Driven, Sequential, NEW w \in Worker, NEW o \in Decision, RecordProposal(w, o)
  PROVE  AtWork' /\ (pc' = "settleWork" => \A v \in Worker :
           st'[v] \in {"Pending", "Succeeded", "Failed"} /\ v \notin ReadyNodeIds(st'))
<1>1. /\ pc = "proposing" /\ st[w] = "Running" /\ st'[w] = o
      /\ \A m \in MutationNode \ {w} : st'[m] = st[m]
  BY RecordNode, Named DEF RecordProposal
<1>2. PICK i \in DOMAIN Roster : Handed(i) /\ st[Roster[i]] = "Running"
  BY <1>1 DEF Driven, AtWork
<1>3. w = Roster[i]
  BY <1>1, <1>2, Indices DEF Handed
<1>4. \A j \in DOMAIN Roster :
        /\ j < i => st'[Roster[j]] = "Succeeded"
        /\ j = i => st'[Roster[j]] = o
        /\ j > i => st'[Roster[j]] = "Pending"
  BY <1>1, <1>2, <1>3, Indices, Named DEF Handed
<1>5. \A v \in Worker : st'[v] \in {"Pending", "Succeeded", "Failed"}
  BY <1>4, Indices DEF Decision
<1>6. pc' = IF o = "Succeeded" /\ \E v \in Worker : st'[v] = "Pending" THEN "propose"
            ELSE "settleWork"
  BY <1>5 DEF RecordProposal
<1>7. CASE o = "Succeeded" /\ \E v \in Worker : st'[v] = "Pending"
  <2>1. PICK k \in DOMAIN Roster : st'[Roster[k]] = "Pending"
    BY <1>7, Indices
  <2>2. k \in Nat /\ i \in Nat /\ k > i /\ i + 1 \in DOMAIN Roster
    BY <1>4, <1>7, <2>1, Indices
  <2>3. Handed(i + 1)' /\ st'[Roster[i + 1]] = "Pending"
    BY <1>4, <1>7, <2>2, Indices DEF Handed
  <2> QED
    BY <1>6, <1>7, <2>2, <2>3 DEF AtWork
<1>8. CASE ~ (o = "Succeeded" /\ \E v \in Worker : st'[v] = "Pending")
  <2>1. AtWork'
    BY <1>6, <1>8 DEF AtWork
  <2>2. ASSUME NEW j \in DOMAIN Roster PROVE Roster[j] \notin ReadyNodeIds(st')
    <3>1. CASE st'[Roster[j]] # "Pending"
      BY <3>1 DEF ReadyNodeIds
    <3>2. CASE st'[Roster[j]] = "Pending"
      <4>1. o = "Failed" /\ j > i
        BY <1>4, <1>8, <3>2, Indices DEF Decision
      <4>2. j - 1 \in DOMAIN Roster /\ j - 1 >= i /\ WorkSource(j) = Roster[j - 1]
        BY <4>1, Indices DEF WorkSource
      <4>3. st'[WorkSource(j)] # "Succeeded"
        BY <1>4, <4>1, <4>2, Indices
      <4> QED
        BY <4>3, NotReady
    <3> QED
      BY <3>1, <3>2
  <2> QED
    BY <1>5, <2>1, <2>2, Indices
<1> QED
  BY <1>7, <1>8

LEMMA DrivenWork ==
  ASSUME IInv, Driven,
         AdmitProposals \/ \E o \in Decision, w \in Worker : RecordProposal(w, o)
  PROVE  Driven'
<1> USE DEF Goto
<1>1. CASE AdmitProposals
  <2>1. /\ pc = "propose" /\ pc' = "proposing" /\ intents' = intents
        /\ CanStartBatch(st, NextBatch) /\ st' = StartReadyBatch(st, NextBatch)
    BY <1>1 DEF AdmitProposals
  <2>2. \A m \in MutationNode : st'[m] = IF m \in NextBatch THEN "Running" ELSE st[m]
    BY <2>1, StartNodes DEF IInv, TypeOK
  <2>3. \A n \in Stage : st'[n] = st[n]
    <3>1. NextBatch \subseteq Worker
      BY DEF NextBatch, Worker
    <3> QED
      BY <2>2, <3>1, Named
  <2>4. CASE Sequential
    <3>1. PICK i \in DOMAIN Roster : Handed(i) /\ st[Roster[i]] = "Pending"
      BY <2>1, <2>4 DEF Driven, AtWork
    <3>2. \A j \in DOMAIN Roster :
            /\ j = i => st'[Roster[j]] = "Running"
            /\ j # i => st'[Roster[j]] = st[Roster[j]]
      <4>1. NextBatch = {Roster[i]}
        BY <2>4, <3>1, NextInTurn
      <4>2. \A j \in DOMAIN Roster : Roster[j] \in MutationNode
        BY Indices, Named
      <4>3. \A j \in DOMAIN Roster : Roster[j] = Roster[i] => j = i
        BY Indices
      <4> QED
        BY <2>2, <4>1, <4>2, <4>3
    <3>3. Handed(i)' /\ st'[Roster[i]] = "Running"
      BY <3>1, <3>2, Indices DEF Handed
    <3>4. AtWork'
      BY <2>1, <2>4, <3>3 DEF AtWork
    <3>5. Ahead'
      BY <2>1, <2>3, Named DEF Driven, Ahead, Early, BeforeClaim, Claiming, Proposing,
         Judging, Cleaning
    <3>6. Behind'
      BY <2>1, <2>3, Named DEF Driven, Behind, Claiming, Proposing, Judging, Cleaning
    <3> QED
      BY <3>4, <3>5, <3>6 DEF Driven
  <2>5. CASE ~ Sequential
    <3>1. \A w \in Worker : st'[w] = "Running"
      BY <2>2, <2>5, Named DEF NextBatch
    <3>2. (\E w \in Worker : st'[w] = "Running")
          /\ \A w \in Worker : st'[w] \in {"Running", "Succeeded", "Failed"}
      BY <2>1, <3>1, AssignedWorker DEF Proposing
    <3>3. AtWork'
      BY <2>1, <2>5, <3>2 DEF AtWork
    <3>4. Ahead'
      BY <2>1, <2>3, Named DEF Driven, Ahead, Early, BeforeClaim, Claiming, Proposing,
         Judging, Cleaning
    <3>5. Behind'
      BY <2>1, <2>3, Named DEF Driven, Behind, Claiming, Proposing, Judging, Cleaning
    <3> QED
      BY <3>3, <3>4, <3>5 DEF Driven
  <2> QED
    BY <2>4, <2>5
<1>2. ASSUME NEW o \in Decision, NEW w \in Worker, RecordProposal(w, o) PROVE Driven'
  <2>1. /\ pc = "proposing" /\ pc' \in {"propose", "proposing", "settleWork"}
        /\ intents' = intents
        /\ st[w] = "Running" /\ st'[w] = o
        /\ \A m \in MutationNode \ {w} : st'[m] = st[m]
    BY <1>2, RecordNode, Named DEF RecordProposal
  <2>2. \A n \in Stage : st'[n] = st[n]
    BY <2>1, Named
  <2>3. AtWork' /\ (pc' = "settleWork" => \A v \in Worker :
          st'[v] \in {"Pending", "Succeeded", "Failed"} /\ v \notin ReadyNodeIds(st'))
    <3>1. CASE Sequential
      BY <1>2, <3>1, HandoffKept
    <3>2. CASE ~ Sequential
      <4>1. \A v \in Worker : st'[v] \in {"Running", "Succeeded", "Failed"}
        BY <2>1, <3>2, Named DEF Driven, AtWork, Decision
      <4>2. pc' = IF \E v \in Worker : st'[v] = "Running" THEN "proposing" ELSE "settleWork"
        BY <1>2, <4>1 DEF RecordProposal
      <4> QED
        BY <3>2, <4>1, <4>2 DEF AtWork, ReadyNodeIds
    <3> QED
      BY <3>1, <3>2
  <2>4. st["claim"] = "Succeeded"
    BY <2>1 DEF IInv, World, Placed, Proposing
  <2> QED
    BY <2>1, <2>2, <2>3, <2>4, Named DEF Driven, Ahead, Behind, Early, BeforeClaim, Claiming,
       Proposing, Judging, Cleaning
<1> QED
  BY <1>1, <1>2

\* When no worker runs and none is ready, the settle leaves none pending: the first
\* of them that it left would wait for a success that is there or cannot come.
LEMMA NoWorkerWaits ==
  ASSUME NEW g \in [MutationNode -> NodeState], g["claim"] \in {"Succeeded", "Failed"},
         \A w \in Worker :
           g[w] \in {"Pending", "Succeeded", "Failed"} /\ w \notin ReadyNodeIds(g)
  PROVE  \A w \in Worker : SettleUnreachable(g)[w] \in {"Succeeded", "Failed", "Skipped"}
<1> DEFINE h == SettleUnreachable(g)
<1>1. /\ \A n \in MutationNode : h[n] = g[n] \/ (g[n] = "Pending" /\ h[n] = "Skipped")
      /\ \A n \in MutationNode :
           h[n] = "Pending" => \A m \in HardSources(n) : h[m] \notin Unsuccessful
  BY SettleNodes, SettleWorks
<1> HIDE DEF h
<1>2. \A w \in Worker : h[w] \in {"Pending", "Succeeded", "Failed", "Skipped"}
  BY <1>1, Named
<1>3. SUFFICES ASSUME {i \in DOMAIN Roster : h[Roster[i]] = "Pending"} # {} PROVE FALSE
  BY <1>2, Indices DEF h
<1>4. PICK i \in DOMAIN Roster :
        h[Roster[i]] = "Pending" /\ \A j \in DOMAIN Roster : j < i => h[Roster[j]] # "Pending"
  <2> DEFINE T == {i \in DOMAIN Roster : h[Roster[i]] = "Pending"}
  <2>1. T \in SUBSET Nat /\ T # {}
    BY <1>3, Indices
  <2>2. PICK i \in T : \A j \in T : ~ (j < i)
    BY <2>1, LeastIndex
  <2> QED
    BY <2>2
<1>5. h[WorkSource(i)] \in {"Succeeded", "Failed", "Skipped"}
  <2>1. CASE WorkSource(i) = "claim"
    BY <1>1, <2>1, Named
  <2>2. CASE i - 1 \in DOMAIN Roster /\ WorkSource(i) = Roster[i - 1]
    BY <1>2, <1>4, <2>2, Indices
  <2> QED
    BY <2>1, <2>2, WorkSources
<1>6. Roster[i] \in Worker /\ Roster[i] \in MutationNode /\ WorkSource(i) \in MutationNode
  BY WorkNodes
<1>7. h[WorkSource(i)] = "Succeeded"
  BY <1>1, <1>4, <1>5, <1>6, Sources DEF Unsuccessful
<1>8. g[WorkSource(i)] = "Succeeded" /\ g[Roster[i]] = "Pending"
  BY <1>1, <1>4, <1>6, <1>7
<1>9. Roster[i] \in ReadyNodeIds(g)
  BY <1>6, <1>8, Sources DEF ReadyNodeIds
<1> QED
  BY <1>6, <1>9

LEMMA DrivenSettle ==
  ASSUME IInv, Driven, SettleStage \/ SettleRecovery
  PROVE  Driven'
<1>1. st' = SettleUnreachable(st) /\ intents' = intents
  BY DEF SettleStage, SettleRecovery, Settle
<1>2. /\ \A n \in MutationNode : st'[n] = st[n] \/ (st[n] = "Pending" /\ st'[n] = "Skipped")
      /\ \A n \in MutationNode :
           st[n] # "Skipped" /\ st'[n] = "Skipped" =>
             \E m \in HardSources(n) : st'[m] \in Unsuccessful
      /\ \A n \in MutationNode :
           st'[n] = "Pending" => \A m \in HardSources(n) : st'[m] \notin Unsuccessful
  BY <1>1, SettleNodes, SettleWorks DEF IInv, TypeOK
<1>3. \A n : IsReady(n) <=> n \in ReadyNodeIds(st')
  BY <1>1 DEF IsReady
<1>4. \/ pc = "settleBlocked" /\ pc' = "returned"
      \/ pc = "settleWork" /\ pc' = IF IsReady("review") THEN "review" ELSE "settleReview"
      \/ pc = "settleReview"
           /\ pc' = IF st["review"] = "Succeeded" THEN "applyIntents" ELSE "settleApply"
      \/ pc = "settleApply" /\ pc' = "releaseIntents"
      \/ /\ pc \in {"settleRelease", "settleRecovery"}
         /\ \/ pc' = "facts" /\ IsReady("release")
            \/ pc' = "finalize" /\ IsReady("finalize")
            \/ pc' = "returned"
  BY DEF SettleStage, SettleRecovery, Settle
<1>5. {"contract", "claim", "review", "apply", "release", "finalize"} \subseteq MutationNode
  BY Named
<1>6. CASE pc' = "returned"
  BY <1>6, DrivenAtRest DEF Resting
<1>7. CASE pc' \in {"facts", "finalize"}
  <2>1. \/ pc' = "facts" /\ "release" \in ReadyNodeIds(st')
        \/ pc' = "finalize" /\ "finalize" \in ReadyNodeIds(st')
    BY <1>3, <1>4, <1>7
  <2>2. \/ /\ pc' = "facts" /\ st'["release"] = "Pending" /\ st'["contract"] = "Succeeded"
           /\ st'["review"] \in Terminal /\ st'["apply"] \in Terminal
        \/ /\ pc' = "finalize" /\ st'["finalize"] = "Pending"
           /\ st'["apply"] = "Succeeded" /\ st'["release"] = "Succeeded"
    BY <2>1, Sources DEF ReadyNodeIds
  <2> QED
    BY <2>2 DEF Driven, Ahead, Behind, AtWork, Early, BeforeClaim, Claiming, Proposing, Judging,
       Cleaning
<1>8. CASE pc \in {"settleWork", "settleReview", "settleApply"}
  <2>1. st'["contract"] = "Succeeded" /\ st'["release"] = "Pending"
    <3>1. st["contract"] = "Succeeded" /\ st["release"] = "Pending"
      BY <1>8 DEF Driven, Ahead, Behind, Judging, Cleaning
    <3>2. st'["contract"] = "Succeeded"
      BY <1>2, <1>5, <3>1
    <3> QED
      BY <1>2, <1>5, <3>1, <3>2, Sources DEF Unsuccessful
  <2>2. CASE pc = "settleWork"
    <3>1. /\ st["review"] = "Pending" /\ st["apply"] = "Pending" /\ intents["apply"] = {}
          /\ st["claim"] \in {"Succeeded", "Failed"}
          /\ \A w \in Worker :
               st[w] \in {"Pending", "Succeeded", "Failed"} /\ w \notin ReadyNodeIds(st)
      BY <2>2 DEF Driven, Ahead, Behind, Early
    <3>2. \A w \in Worker : st'[w] \in {"Succeeded", "Failed", "Skipped"}
      BY <1>1, <3>1, NoWorkerWaits DEF IInv, TypeOK
    <3>3. st'["apply"] = "Pending" \/ (st'["apply"] = "Skipped" /\ st'["review"] # "Pending")
      BY <1>2, <1>5, <3>1, Sources DEF Unsuccessful
    <3>4. CASE IsReady("review")
      <4>1. pc' = "review" /\ st'["review"] = "Pending" /\ \A w \in Worker : st'[w] = "Succeeded"
        BY <1>3, <1>4, <2>2, <3>4, Sources DEF ReadyNodeIds
      <4> QED
        BY <1>1, <2>1, <3>1, <3>3, <4>1 DEF Driven, Ahead, Behind, AtWork, Early, BeforeClaim,
           Claiming, Proposing, Judging, Cleaning
    <3>5. CASE ~ IsReady("review")
      <4>1. pc' = "settleReview"
        BY <1>4, <2>2, <3>5
      <4>2. st'["review"] # "Pending"
        BY <1>2, <1>3, <1>5, <3>2, <3>5, Sources DEF ReadyNodeIds, Unsuccessful
      <4>3. st'["review"] = "Skipped"
        BY <1>2, <1>5, <3>1, <4>2
      <4> QED
        BY <1>1, <2>1, <3>1, <3>3, <4>1, <4>3 DEF Driven, Ahead, Behind, AtWork, Early,
           BeforeClaim, Claiming, Proposing, Judging, Cleaning
    <3> QED
      BY <3>4, <3>5
  <2>3. CASE pc = "settleReview"
    <3>1. /\ intents["apply"] = {}
          /\ \/ st["review"] = "Succeeded" /\ st["apply"] = "Pending"
             \/ st["review"] \in {"Failed", "Skipped"} /\ st["apply"] \in {"Pending", "Skipped"}
      BY <2>3 DEF Driven, Ahead, Behind
    <3>2. st'["review"] = st["review"]
      BY <1>2, <1>5, <3>1
    <3>3. CASE st["review"] = "Succeeded"
      <4>1. pc' = "applyIntents" /\ st'["apply"] = "Pending"
        BY <1>2, <1>4, <1>5, <2>3, <3>1, <3>2, <3>3, Sources DEF Unsuccessful
      <4> QED
        BY <1>1, <2>1, <3>1, <3>2, <3>3, <4>1 DEF Driven, Ahead, Behind, AtWork, Early,
           BeforeClaim, Claiming, Proposing, Judging, Cleaning
    <3>4. CASE st["review"] # "Succeeded"
      <4>1. pc' = "settleApply" /\ st'["apply"] = "Skipped"
        BY <1>2, <1>4, <1>5, <2>3, <3>1, <3>2, <3>4, Sources DEF Unsuccessful
      <4> QED
        BY <1>1, <2>1, <3>1, <3>2, <4>1 DEF Driven, Ahead, Behind, AtWork, Early,
           BeforeClaim, Claiming, Proposing, Judging, Cleaning, Terminal
    <3> QED
      BY <3>3, <3>4
  <2>4. CASE pc = "settleApply"
    <3>1. /\ pc' = "releaseIntents"
          /\ st["review"] \in Terminal /\ st["apply"] \in Terminal
      BY <1>4, <2>4 DEF Driven, Behind, Cleaning
    <3>2. st'["review"] \in Terminal /\ st'["apply"] \in Terminal
      BY <1>2, <1>5, <3>1 DEF Terminal
    <3> QED
      BY <1>1, <2>1, <3>1, <3>2 DEF Driven, Ahead, Behind, AtWork, Early, BeforeClaim, Claiming,
         Proposing, Judging, Cleaning
  <2> QED
    BY <1>8, <2>2, <2>3, <2>4
<1> QED
  BY <1>4, <1>6, <1>7, <1>8

LEMMA DrivenReview ==
  ASSUME IInv, Driven, AdmitReview \/ \E o \in Decision : RecordReview(o)
  PROVE  Driven'
<1> USE DEF Driven, Ahead, Behind, AtWork, Early, BeforeClaim, Claiming, Proposing, Judging, Cleaning
<1>1. CASE AdmitReview
  <2>1. /\ pc = "review" /\ UNCHANGED intents
        /\ \/ pc' = "returned"
           \/ /\ pc' = "reviewing" /\ st'["review"] = "Running"
              /\ \A m \in MutationNode \ {"review"} : st'[m] = st[m]
    BY <1>1, AdmitStage, Named DEF AdmitReview
  <2> QED
    BY <2>1, DrivenAtRest, Named DEF Resting
<1>2. ASSUME NEW o \in Decision, RecordReview(o) PROVE Driven'
  <2>1. /\ pc = "reviewing" /\ pc' = "settleReview" /\ intents' = intents
        /\ st'["review"] \in {"Succeeded", "Failed"}
        /\ \A m \in MutationNode \ {"review"} : st'[m] = st[m]
    BY <1>2, RecordNode, Named DEF RecordReview, Goto, Decision
  <2> QED
    BY <2>1, Named
<1> QED
  BY <1>1, <1>2

LEMMA DrivenApply ==
  ASSUME IInv, Driven,
         \/ RecordApplyIntents \/ AdmitApply \/ RecordApply
         \/ \E f \in File, b \in BOOLEAN : ApplyOperation(f, b)
  PROVE  Driven'
<1> USE DEF Driven, Ahead, Behind, AtWork, Early, BeforeClaim, Claiming, Proposing, Judging, Cleaning
<1>1. CASE RecordApplyIntents
  <2>1. pc = "applyIntents" /\ pc' = "applyAdmit" /\ st' = st
    BY <1>1 DEF RecordApplyIntents, Goto
  <2> QED
    BY <2>1
<1>2. CASE AdmitApply
  <2>1. st["release"] \notin Started
    BY <1>2 DEF AdmitApply, Admit, IInv, World, Placed
  <2>2. /\ pc = "applyAdmit" /\ UNCHANGED intents
        /\ \/ pc' = "returned"
           \/ /\ pc' = "applying" /\ st'["apply"] = "Running"
              /\ \A m \in MutationNode \ {"apply"} : st'[m] = st[m]
    BY <1>2, <2>1, AdmitStage, Named DEF AdmitApply
  <2> QED
    BY <2>2, DrivenAtRest, Named DEF Resting
<1>3. CASE RecordApply
  <2>1. /\ pc = "applying" /\ pc' = "settleApply" /\ intents' = intents
        /\ st'["apply"] \in {"Succeeded", "Failed"} /\ st["apply"] = "Running"
        /\ \A m \in MutationNode \ {"apply"} : st'[m] = st[m]
    BY <1>3, RecordNode, Named DEF RecordApply, Goto, Decision
  <2>2. st["review"] = "Succeeded"
    BY <2>1, Prerequisites DEF IInv, Order, Started
  <2> QED
    BY <2>1, <2>2, Named DEF Terminal
<1>4. ASSUME NEW f \in File, NEW b \in BOOLEAN, ApplyOperation(f, b) PROVE Driven'
  BY <1>4, DrivenSame DEF ApplyOperation
<1> QED
  BY <1>1, <1>2, <1>3, <1>4

LEMMA DrivenRelease ==
  ASSUME IInv, Driven,
         \/ RecordReleaseIntents \/ AdmitRelease \/ RecordRelease
         \/ \E f \in File : ReleaseFile(f) \/ \E b \in BOOLEAN : FailReleaseCall(f, b)
  PROVE  Driven'
<1> USE DEF Driven, Ahead, Behind, AtWork, Early, BeforeClaim, Claiming, Proposing, Judging, Cleaning
<1>1. CASE RecordReleaseIntents
  <2>1. pc = "releaseIntents" /\ pc' \in {"releaseAdmit", "returned"} /\ st' = st
    BY <1>1 DEF RecordReleaseIntents, Goto
  <2> QED
    BY <2>1, DrivenAtRest DEF Resting
<1>2. CASE AdmitRelease
  <2>1. st["apply"] \notin Unsure
    BY <1>2 DEF AdmitRelease, Admit, IInv, World, Placed
  <2>2. /\ pc = "releaseAdmit" /\ UNCHANGED intents
        /\ \/ pc' = "returned"
           \/ /\ pc' = "releasing" /\ st'["release"] = "Running"
              /\ \A m \in MutationNode \ {"release"} : st'[m] = st[m]
    BY <1>2, <2>1, AdmitStage, Named DEF AdmitRelease
  <2> QED
    BY <2>2, DrivenAtRest, Named DEF Resting
<1>3. CASE RecordRelease
  BY <1>3, DrivenAtRest DEF RecordRelease, Goto
<1>4. ASSUME NEW f \in File, NEW b \in BOOLEAN, ReleaseFile(f) \/ FailReleaseCall(f, b)
      PROVE  Driven'
  BY <1>4, DrivenSame DEF ReleaseFile, FailReleaseCall
<1> QED
  BY <1>1, <1>2, <1>3, <1>4

LEMMA DrivenEnd ==
  ASSUME IInv, Driven,
         \/ ReturnDirect \/ ExceedWorkerLimit \/ FailPlan
         \/ AdmitFinalize \/ RecordFinalize
  PROVE  Driven'
<1>1. CASE AdmitFinalize
  <2>1. \/ pc' = "returned"
        \/ pc' = "finalizing" /\ st'["finalize"] = "Running"
    BY <1>1, AdmitStage, Named DEF AdmitFinalize
  <2> QED
    BY <2>1, DrivenAtRest DEF Resting, Driven, Ahead, Behind, AtWork, Early, BeforeClaim, Claiming,
       Proposing, Judging, Cleaning
<1>2. CASE ReturnDirect \/ ExceedWorkerLimit \/ FailPlan \/ RecordFinalize
  BY <1>2, DrivenAtRest DEF ReturnDirect, ExceedWorkerLimit, FailPlan, RecordFinalize, Goto, Resting
<1> QED
  BY <1>1, <1>2

LEMMA DrivenRecovery ==
  ASSUME IInv, Driven,
         \/ Recover \/ ReadFacts \/ FailFacts \/ Interrupt
         \/ \E n \in MutationNode, d \in Decision : Reconcile(n, d)
  PROVE  Driven'
<1>1. CASE ReadFacts
  <2>1. pc = "facts" /\ pc' = "releaseIntents" /\ UNCHANGED <<st, intents>>
    BY <1>1 DEF ReadFacts, Goto
  <2> QED
    BY <2>1 DEF Driven, Ahead, Behind, AtWork, Early, BeforeClaim, Claiming, Proposing, Judging,
       Cleaning
<1>2. CASE Recover \/ FailFacts \/ Interrupt
  BY <1>2, DrivenAtRest DEF Recover, FailFacts, Interrupt, Goto, Resting
<1>3. CASE \E n \in MutationNode, d \in Decision : Reconcile(n, d)
  BY <1>3, DrivenAtRest DEF Reconcile, Goto
<1> QED
  BY <1>1, <1>2, <1>3

LEMMA StepDriven == IInv /\ Driven /\ [Next]_vars => Driven'
<1> SUFFICES ASSUME IInv, Driven, [Next]_vars PROVE Driven'
  OBVIOUS
<1>1. CASE UNCHANGED vars
  BY <1>1, DrivenSame DEF vars
<1>2. CASE Next
  BY <1>2, DrivenContract, DrivenClaim, DrivenWork, DrivenSettle, DrivenReview, DrivenApply,
     DrivenRelease, DrivenEnd, DrivenRecovery DEF Next, DriverStep, RecoveryStep, Decision
<1> QED
  BY <1>1, <1>2

LEMMA InitDriven == Init => Driven
<1> SUFFICES ASSUME Init PROVE Driven
  OBVIOUS
<1>1. /\ pc = "contract" /\ \A n \in MutationNode : st[n] = "Pending"
      /\ intents["claim"] = {} /\ intents["apply"] = {}
  BY DEF Init, AllPending, EffectNode
<1> QED
  BY <1>1, Named DEF Driven, Ahead, Behind, AtWork, Early, BeforeClaim, Claiming, Proposing,
     Judging, Cleaning

-----------------------------------------------------------------------------
(* The one call that is refused.  As long as nothing interrupts the driver, no *)
(* node waits for a recovery, and only the release itself has release intents. *)

Waiting == Proposing \cup Judging \cup (Cleaning \ {"releasing"})

Concluding == {"settleRelease", "finalize", "finalizing"}

\* The nodes whose outcome the driver waits for.
AtHand(n) ==
  \/ pc = "validating" /\ n = "contract"
  \/ pc \in Claiming /\ n = "claim"
  \/ pc = "proposing" /\ n \in Worker
  \/ pc = "reviewing" /\ n = "review"
  \/ pc = "applying" /\ n = "apply"
  \/ pc = "releasing" /\ n = "release"
  \/ pc = "finalizing" /\ n = "finalize"

Attended ==
  /\ pc \notin {"gone", "settleRecovery", "facts"}
  /\ \A n \in MutationNode :
       st[n] # "RecoveryRequired" /\ (st[n] = "Running" => AtHand(n))

First ==
  /\ Attended
  /\ pc \in BeforeClaim \cup Claiming \cup (Waiting \ {"releaseAdmit"}) => intents["release"] = {}

Fresh == interrupts = 0 => First

\* A call the runner does not refuse starts its node and nothing else.
LEMMA AdmitGoesOn ==
  ASSUME IInv, Driven, NEW n \in Stage, NEW from, NEW to, Admit(n, from, to),
         from \in DOMAIN Admitted, Admitted[from] = {n}
  PROVE  /\ pc = from /\ pc' = to
         /\ st[n] = "Pending" /\ st'[n] = "Running"
         /\ \A m \in MutationNode \ {n} : st'[m] = st[m]
<1>1. pc = from /\ CanStartBatch(st, {n})
  BY DrivenIsAccepted DEF Admit
<1>2. pc' = to /\ st' = StartReadyBatch(st, {n})
  BY <1>1 DEF Admit
<1>3. st \in [MutationNode -> NodeState] /\ n \in MutationNode
  BY Named DEF IInv, TypeOK
<1>4. \A m \in MutationNode :
        StartReadyBatch(st, {n})[m] = IF m \in {n} THEN "Running" ELSE st[m]
  BY <1>1, <1>3, StartNodes
<1>5. st[n] = "Pending"
  BY <1>1, <1>3, StartNodes
<1>6. st'[n] = "Running" /\ \A m \in MutationNode \ {n} : st'[m] = st[m]
  BY <1>2, <1>3, <1>4
<1> QED
  BY <1>1, <1>2, <1>5, <1>6

\* With its outcome recorded, the only node that ran is over and nobody runs.
LEMMA NobodyRuns ==
  ASSUME IInv, Attended, NEW n \in Stage, NEW o \in Decision, Record(n, o), AtHand(n)
  PROVE  /\ st[n] = "Running" /\ st'[n] = o
         /\ \A m \in MutationNode \ {n} : st'[m] = st[m]
         /\ \A m \in MutationNode : st'[m] \notin Unsure
<1>1. /\ st[n] = "Running" /\ st'[n] = o
      /\ \A m \in MutationNode \ {n} : st'[m] = st[m]
  BY RecordNode, Named
<1>2. \A m \in MutationNode : AtHand(m) => m = n
  BY Named DEF AtHand, Claiming
<1> QED
  BY <1>1, <1>2 DEF Attended, Unsure, Decision

\* Admissions and records: one node begins, or the one that ran is over.
LEMMA FreshRunner ==
  ASSUME IInv, Driven, First,
         \/ AdmitContract \/ AdmitClaim \/ AdmitReview \/ AdmitApply \/ AdmitRelease
         \/ AdmitFinalize \/ RecordClaimed \/ RecordClaimFailed \/ RecordApply
         \/ RecordRelease \/ RecordFinalize
         \/ \E o \in Decision : RecordContract(o) \/ RecordReview(o)
  PROVE  First'
<1> USE DEF First, Attended, AtHand, BeforeClaim, Claiming, Proposing, Judging, Cleaning, Waiting
<1>1. ASSUME NEW n \in Stage, NEW from, NEW to, Admit(n, from, to), UNCHANGED intents,
             \/ n = "contract" /\ from = "contract" /\ to = "validating"
             \/ n = "claim" /\ from = "claimAdmit" /\ to = "claiming"
             \/ n = "review" /\ from = "review" /\ to = "reviewing"
             \/ n = "apply" /\ from = "applyAdmit" /\ to = "applying"
             \/ n = "release" /\ from = "releaseAdmit" /\ to = "releasing"
             \/ n = "finalize" /\ from = "finalize" /\ to = "finalizing"
      PROVE  First'
  <2>1. from \in DOMAIN Admitted /\ Admitted[from] = {n}
    BY <1>1 DEF Admitted
  <2>2. /\ pc = from /\ pc' = to /\ st'[n] = "Running"
        /\ \A m \in MutationNode \ {n} : st'[m] = st[m]
    BY <1>1, <2>1, AdmitGoesOn
  <2> QED
    BY <1>1, <2>2, Named
<1>2. CASE AdmitContract \/ AdmitClaim \/ AdmitReview \/ AdmitApply \/ AdmitRelease \/ AdmitFinalize
  BY <1>1, <1>2, Named DEF AdmitContract, AdmitClaim, AdmitReview, AdmitApply, AdmitRelease,
     AdmitFinalize
<1>3. ASSUME NEW n \in Stage, NEW o \in Decision, Record(n, o), AtHand(n), UNCHANGED intents,
             \/ pc \in {"validating", "releasing", "finalizing"}
                  /\ pc' \in {"claimIntents", "settleBlocked", "settleRelease", "returned"}
             \/ pc \in Claiming /\ pc' \in {"propose", "settleWork", "returned"}
             \/ pc \in {"reviewing", "applying"} /\ pc' \in {"settleReview", "settleApply"},
             pc \in {"releasing", "finalizing"} => pc' \in {"settleRelease", "returned"}
      PROVE  First'
  <2>1. \A m \in MutationNode : st'[m] \notin Unsure
    BY <1>3, NobodyRuns
  <2> QED
    BY <1>3, <2>1 DEF Unsure
<1>4. CASE RecordClaimed \/ RecordClaimFailed
  <2>1. \E o \in Decision : Record("claim", o)
    BY <1>4 DEF RecordClaimed, RecordClaimFailed, Decision
  <2>2. pc \in Claiming /\ pc' \in {"propose", "settleWork", "returned"} /\ UNCHANGED intents
    BY <1>4 DEF RecordClaimed, RecordClaimFailed, Goto
  <2> QED
    BY <1>3, <2>1, <2>2, Named
<1>5. CASE RecordApply \/ RecordRelease \/ RecordFinalize
  <2>1. \/ /\ pc = "applying" /\ pc' = "settleApply" /\ UNCHANGED intents
           /\ \E o \in Decision : Record("apply", o)
        \/ /\ pc = "releasing" /\ pc' = "settleRelease" /\ UNCHANGED intents
           /\ \E o \in Decision : Record("release", o)
        \/ /\ pc = "finalizing" /\ pc' = "returned" /\ UNCHANGED intents
           /\ \E o \in Decision : Record("finalize", o)
    BY <1>5 DEF RecordApply, RecordRelease, RecordFinalize, Goto, Decision
  <2> QED
    BY <1>3, <2>1, Named
<1>6. CASE \E o \in Decision : RecordContract(o) \/ RecordReview(o)
  <2>1. \/ /\ pc = "validating" /\ pc' \in {"claimIntents", "settleBlocked"} /\ UNCHANGED intents
           /\ \E o \in Decision : Record("contract", o)
        \/ /\ pc = "reviewing" /\ pc' = "settleReview" /\ UNCHANGED intents
           /\ \E o \in Decision : Record("review", o)
    BY <1>6 DEF RecordContract, RecordReview, Goto
  <2> QED
    BY <1>3, <2>1, Named
<1> QED
  BY <1>2, <1>4, <1>5, <1>6

\* The other steps of an uninterrupted driver leave what runs running.
LEMMA FreshPlace ==
  ASSUME IInv, Driven, First,
         \/ ReturnDirect \/ ExceedWorkerLimit \/ FailPlan \/ MeetConflict
         \/ RecordClaimIntents \/ RecordApplyIntents \/ RecordReleaseIntents
         \/ SettleStage \/ Recover
         \/ \E f \in File :
              \/ ClaimFile(f) \/ ReleaseFile(f)
              \/ \E b \in BOOLEAN :
                   FailClaimCall(f, b) \/ FailReleaseCall(f, b) \/ ApplyOperation(f, b)
  PROVE  First'
<1> USE DEF First, Attended, AtHand, BeforeClaim, Claiming, Proposing, Judging, Cleaning, Waiting,
        Goto
<1>1. CASE ReturnDirect \/ ExceedWorkerLimit \/ FailPlan
  <2>1. /\ pc \in {"contract", "claimIntents", "applyIntents"} /\ pc' = "returned"
        /\ UNCHANGED <<st, intents>>
    BY <1>1 DEF ReturnDirect, ExceedWorkerLimit, FailPlan
  <2> QED
    BY <2>1
<1>2. CASE MeetConflict \/ \E f \in File, b \in BOOLEAN : FailClaimCall(f, b)
  <2>1. pc = "claiming" /\ pc' \in {"conflict", "claimError"} /\ UNCHANGED <<st, intents>>
    BY <1>2 DEF MeetConflict, FailClaimCall
  <2> QED
    BY <2>1
<1>3. CASE RecordClaimIntents \/ RecordApplyIntents
  <2>1. /\ pc \in {"claimIntents", "applyIntents"} /\ pc' \in {"claimAdmit", "applyAdmit"}
        /\ st' = st /\ intents'["release"] = intents["release"]
    BY <1>3 DEF RecordClaimIntents, RecordApplyIntents, RecordIntents, IInv, TypeOK, EffectNode
  <2> QED
    BY <2>1
<1>4. CASE RecordReleaseIntents
  <2>1. pc = "releaseIntents" /\ pc' \in {"releaseAdmit", "returned"} /\ st' = st
    BY <1>4 DEF RecordReleaseIntents
  <2> QED
    BY <2>1
<1>5. CASE \E f \in File :
             \/ ClaimFile(f) \/ ReleaseFile(f)
             \/ \E b \in BOOLEAN : FailReleaseCall(f, b) \/ ApplyOperation(f, b)
  <2>1. UNCHANGED <<st, intents, pc>>
    BY <1>5 DEF ClaimFile, ReleaseFile, FailReleaseCall, ApplyOperation
  <2> QED
    BY <2>1
<1>6. CASE SettleStage
  <2>1. /\ st' = SettleUnreachable(st) /\ intents' = intents
        /\ \/ pc = "settleBlocked" /\ pc' = "returned"
           \/ pc = "settleWork" /\ pc' \in {"review", "settleReview"}
           \/ pc = "settleReview" /\ pc' \in {"applyIntents", "settleApply"}
           \/ pc = "settleApply" /\ pc' = "releaseIntents"
           \/ pc = "settleRelease" /\ pc' \in {"finalize", "returned"}
    BY <1>6 DEF SettleStage, Settle
  <2>2. \A n \in MutationNode : st'[n] = st[n] \/ st'[n] = "Skipped"
    BY <2>1, SettleNodes DEF IInv, TypeOK
  <2> QED
    BY <2>1, <2>2
<1>7. CASE Recover
  <2>1. /\ pc = "returned" /\ pc' = "recovered" /\ UNCHANGED intents
        /\ st' = RecoverFromCheckpoint(st)
    BY <1>7 DEF Recover
  <2>2. \A n \in MutationNode : st[n] \notin Unsure
    BY <2>1 DEF Unsure
  <2>3. \A n \in MutationNode : st'[n] \in Unsure <=> st[n] \in Unsure
    BY <2>1, OrderRecover DEF IInv, TypeOK, GraphTyped
  <2> QED
    BY <2>1, <2>2, <2>3 DEF Unsure
<1> QED
  BY <1>1, <1>2, <1>3, <1>4, <1>5, <1>6, <1>7

LEMMA FreshWork ==
  ASSUME IInv, First,
         AdmitProposals \/ \E o \in Decision, w \in Worker : RecordProposal(w, o)
  PROVE  First'
<1> USE DEF First, Attended, AtHand, BeforeClaim, Claiming, Proposing, Judging, Cleaning, Waiting
<1>1. CASE AdmitProposals
  <2>1. /\ pc = "propose" /\ pc' = "proposing" /\ UNCHANGED intents
        /\ CanStartBatch(st, NextBatch) /\ st' = StartReadyBatch(st, NextBatch)
    BY <1>1 DEF AdmitProposals, Goto
  <2>2. \A m \in MutationNode : st'[m] = IF m \in NextBatch THEN "Running" ELSE st[m]
    BY <2>1, StartNodes DEF IInv, TypeOK
  <2>3. NextBatch \subseteq Worker
    BY DEF NextBatch, Worker
  <2> QED
    BY <2>1, <2>2, <2>3
<1>2. ASSUME NEW o \in Decision, NEW w \in Worker, RecordProposal(w, o) PROVE First'
  <2>1. /\ pc = "proposing" /\ pc' \in {"propose", "proposing", "settleWork"}
        /\ pc' # "proposing" => \A v \in Worker : st'[v] # "Running"
        /\ UNCHANGED intents
    BY <1>2 DEF RecordProposal
  <2>2. st'[w] = o /\ \A m \in MutationNode \ {w} : st'[m] = st[m]
    BY <1>2, RecordNode, Named DEF RecordProposal
  <2>3. \A m \in MutationNode :
          st'[m] # "RecoveryRequired" /\ (st'[m] = "Running" => m \in Worker)
    BY <2>1, <2>2, Named DEF Decision
  <2> QED
    BY <2>1, <2>3
<1> QED
  BY <1>1, <1>2

\* Only an interruption adds to their number.
LEMMA FewerBefore ==
  ASSUME IInv, [Next]_vars, interrupts' = 0
  PROVE  interrupts = 0 /\ ~ Interrupt
<1>1. interrupts' = interrupts \/ Interrupt
  BY DEF Next, DriverStep, RecoveryStep, vars, AdmitContract, ReturnDirect, ExceedWorkerLimit,
     RecordClaimIntents, AdmitClaim, MeetConflict, RecordClaimed, RecordClaimFailed,
     AdmitProposals, SettleStage, Settle, AdmitReview, FailPlan, RecordApplyIntents, AdmitApply,
     RecordApply, RecordReleaseIntents, AdmitRelease, RecordRelease, AdmitFinalize,
     RecordFinalize, RecordContract, RecordReview, RecordProposal, ClaimFile, ReleaseFile,
     FailClaimCall, FailReleaseCall, ApplyOperation, Recover, SettleRecovery, ReadFacts,
     FailFacts, Reconcile
<1>2. ~ Interrupt
  BY DEF Interrupt, IInv, TypeOK
<1> QED
  BY <1>1, <1>2

LEMMA StepFresh == IInv /\ Driven /\ Fresh /\ [Next]_vars => Fresh'
<1> SUFFICES ASSUME IInv, Driven, Fresh, [Next]_vars, interrupts' = 0 PROVE First'
  BY DEF Fresh
<1>1. First /\ ~ Interrupt
  BY FewerBefore DEF Fresh
<1>2. /\ ~ FailFacts /\ ~ ReadFacts /\ ~ SettleRecovery
      /\ \A n \in MutationNode, d \in Decision : ~ Reconcile(n, d)
  BY <1>1 DEF First, Attended, FailFacts, ReadFacts, SettleRecovery, Settle, Reconcile,
     CanReconcile, Goto
<1>3. CASE UNCHANGED vars
  BY <1>1, <1>3 DEF vars, First, Attended, AtHand
<1>4. CASE Next
  BY <1>1, <1>2, <1>4, FreshRunner, FreshPlace, FreshWork DEF Next, DriverStep, RecoveryStep,
     Decision
<1> QED
  BY <1>3, <1>4

LEMMA InitFresh == Init => Fresh
<1> SUFFICES ASSUME Init PROVE First
  BY DEF Fresh
<1>1. /\ pc = "contract" /\ \A n \in MutationNode : st[n] = "Pending"
      /\ intents["release"] = {}
  BY DEF Init, AllPending, EffectNode
<1> QED
  BY <1>1 DEF First, Attended

\* Whatever fails, and whichever recoveries come between, the runner accepts every
\* admission, every outcome, and the intents of the claims and of the patch; it
\* refuses the release intents only after an interruption left some in the row.  A
\* driver that nothing interrupts never returns early because of its own order of
\* calls.
THEOREM RunnerRefusesOnlyRepeats == Spec => []OnlyRepeatedReleaseRefused
<1>1. IInv /\ Driven /\ Fresh => OnlyRepeatedReleaseRefused
  <2> SUFFICES ASSUME IInv, Driven, Fresh PROVE OnlyRepeatedReleaseRefused
    OBVIOUS
  <2>1. pc = "releaseIntents" /\ intents["release"] # {} => interrupts # 0
    BY DEF Fresh, First, Waiting, Cleaning
  <2>2. interrupts \in Nat
    BY ParameterAssumption DEF IInv, TypeOK
  <2>3. pc = "releaseIntents" => (active # {} /\ intents["release"] # {} => interrupts > 0)
    BY <2>1, <2>2
  <2> QED
    BY <2>3, DrivenIsAccepted DEF OnlyRepeatedReleaseRefused
<1> QED
  BY <1>1, SpecInv, InitDriven, StepDriven, InitFresh, StepFresh, PTL DEF Spec

-----------------------------------------------------------------------------
(* What an undisturbed driver leaves.  It stops in the middle of nothing: the  *)
(* nodes that run are those it is about to record, what it holds is what it    *)
(* will release, and what it has left behind it is over.                       *)

\* Every claim can be released, at the first attempt.
Owed ==
  /\ ~ failed /\ pc # "claimError"
  /\ pc \in {"conflict", "releasing"} => todo \subseteq claims
  /\ pc \in Waiting => active \subseteq claims

Over ==
  /\ pc = "settleBlocked" =>
       /\ claims = {} /\ st["contract"] = "Failed"
       /\ \A n \in MutationNode : st[n] # "Succeeded"
  /\ pc \in (Judging \ {"settleWork"}) \cup Cleaning \cup Concluding =>
       /\ st["contract"] = "Succeeded" /\ st["claim"] \in Settled
       /\ \A w \in Worker : st[w] \in Settled
  /\ pc \in {"releasing"} \cup Concluding => st["review"] \in Settled /\ st["apply"] \in Settled
  /\ pc \in Concluding => st["release"] = "Succeeded"
  /\ pc \in {"returned", "recovered"} => claims = {}
  /\ pc = "returned" =>
       st["claim"] = "Pending" \/ \A n \in MutationNode \ NeverBegun : st[n] \in Settled

Tidy == Owed /\ Over

Calm == Undisturbed => Tidy

LEMMA TidyContract ==
  ASSUME IInv, Driven, First, Tidy,
         \/ AdmitContract \/ ReturnDirect \/ ExceedWorkerLimit \/ RecordClaimIntents
         \/ \E o \in Decision : RecordContract(o)
  PROVE  Tidy'
<1> USE DEF Tidy, First, Attended, Owed, Over, AtHand, BeforeClaim, Claiming, Proposing, Judging,
        Cleaning, Waiting, Concluding
<1>0. pc \in BeforeClaim => claims = {} /\ st["claim"] = "Pending"
  BY DEF IInv, World, Known, Placed, Driven, Ahead, Started
<1>1. CASE AdmitContract
  <2>1. /\ pc = "contract" /\ pc' = "validating"
        /\ \A m \in MutationNode \ {"contract"} : st'[m] = st[m]
        /\ st'["contract"] = "Running"
        /\ UNCHANGED <<intents, claims, todo, active, failed>>
    BY <1>1, AdmitGoesOn, Named DEF AdmitContract, Admitted
  <2> QED
    BY <2>1, Named
<1>2. CASE ReturnDirect \/ ExceedWorkerLimit
  <2>1. /\ pc \in {"contract", "claimIntents"} /\ pc' = "returned"
        /\ UNCHANGED <<st, intents, claims, todo, active, failed>>
    BY <1>2 DEF ReturnDirect, ExceedWorkerLimit, Goto
  <2> QED
    BY <1>0, <2>1
<1>3. CASE RecordClaimIntents
  <2>1. /\ pc = "claimIntents" /\ pc' = "claimAdmit"
        /\ UNCHANGED <<st, claims, todo, active, failed>>
        /\ intents'["release"] = intents["release"]
    BY <1>3 DEF RecordClaimIntents, RecordIntents, Goto, IInv, TypeOK, EffectNode
  <2> QED
    BY <2>1
<1>4. ASSUME NEW o \in Decision, RecordContract(o) PROVE Tidy'
  <2>1. /\ pc = "validating"
        /\ pc' = IF o = "Succeeded" THEN "claimIntents" ELSE "settleBlocked"
        /\ UNCHANGED <<intents, claims, todo, active, failed>>
    BY <1>4 DEF RecordContract, Goto
  <2>2. /\ st'["contract"] = o
        /\ \A m \in MutationNode \ {"contract"} : st'[m] = st[m]
        /\ \A m \in MutationNode : st'[m] \notin Unsure
    BY <1>4, <2>1, NobodyRuns, Named DEF RecordContract
  <2>3. \A m \in MutationNode \ {"contract"} : st'[m] # "Succeeded"
    <3>1. \A m \in {"claim", "review", "apply", "release"} \cup Worker : st[m] = "Pending"
      BY <2>1 DEF Driven, Ahead, Early
    <3>2. st["finalize"] # "Succeeded"
      BY <3>1 DEF IInv, Order, Started
    <3> QED
      BY <2>2, <3>1, <3>2, NodeNames DEF Stage
  <2> QED
    BY <1>0, <2>1, <2>2, <2>3 DEF Unsure, Decision
<1> QED
  BY <1>1, <1>2, <1>3, <1>4

LEMMA TidyClaim ==
  ASSUME IInv, Driven, First, Tidy,
         \/ AdmitClaim \/ MeetConflict \/ RecordClaimed \/ RecordClaimFailed
         \/ \E f \in File : ClaimFile(f)
  PROVE  Tidy'
<1> USE DEF Tidy, First, Attended, Owed, Over, AtHand, BeforeClaim, Claiming, Proposing, Judging,
        Cleaning, Waiting, Concluding
<1>0. pc = "claiming" => claims = active
  BY DEF IInv, World, Known
<1>1. CASE AdmitClaim
  <2>1. /\ pc = "claimAdmit" /\ pc' = "claiming" /\ st'["claim"] = "Running"
        /\ \A m \in MutationNode \ {"claim"} : st'[m] = st[m]
        /\ UNCHANGED <<intents, claims, active, failed>>
    BY <1>1, AdmitGoesOn, Named DEF AdmitClaim, Admitted
  <2> QED
    BY <2>1, Named
<1>2. CASE MeetConflict
  <2>1. /\ pc = "claiming" /\ pc' = "conflict" /\ todo' = active
        /\ UNCHANGED <<st, intents, claims, active, failed>>
    BY <1>2 DEF MeetConflict, Goto
  <2> QED
    BY <1>0, <2>1
<1>3. CASE RecordClaimed
  <2>1. /\ pc = "claiming" /\ pc' = "propose"
        /\ UNCHANGED <<intents, claims, todo, active, failed>>
    BY <1>3 DEF RecordClaimed, Goto
  <2>2. \A m \in MutationNode : st'[m] \notin Unsure
    BY <1>3, <2>1, NobodyRuns, Named DEF RecordClaimed, Decision
  <2> QED
    BY <1>0, <2>1, <2>2 DEF Unsure
<1>4. CASE RecordClaimFailed
  <2>1. /\ pc = "conflict" /\ pc' = "settleWork" /\ active' = {}
        /\ UNCHANGED <<intents, claims, todo, failed>>
    BY <1>4 DEF RecordClaimFailed, Goto
  <2>2. \A m \in MutationNode : st'[m] \notin Unsure
    BY <1>4, <2>1, NobodyRuns, Named DEF RecordClaimFailed, Decision
  <2> QED
    BY <2>1, <2>2 DEF Unsure
<1>5. ASSUME NEW f \in File, ClaimFile(f) PROVE Tidy'
  <2>1. pc = "claiming" /\ UNCHANGED <<st, intents, pc, failed>>
    BY <1>5 DEF ClaimFile
  <2> QED
    BY <2>1
<1> QED
  BY <1>1, <1>2, <1>3, <1>4, <1>5

LEMMA TidyWork ==
  ASSUME IInv, Driven, First, Tidy,
         AdmitProposals \/ \E o \in Decision, w \in Worker : RecordProposal(w, o)
  PROVE  Tidy'
<1> USE DEF Tidy, First, Attended, Owed, Over, AtHand, BeforeClaim, Claiming, Proposing, Judging,
        Cleaning, Waiting, Concluding
<1>1. CASE AdmitProposals
  <2>1. /\ pc = "propose" /\ pc' = "proposing"
        /\ UNCHANGED <<intents, claims, todo, active, failed>>
        /\ CanStartBatch(st, NextBatch) /\ st' = StartReadyBatch(st, NextBatch)
    BY <1>1 DEF AdmitProposals, Goto
  <2>2. \A m \in MutationNode : st'[m] = IF m \in NextBatch THEN "Running" ELSE st[m]
    BY <2>1, StartNodes DEF IInv, TypeOK
  <2>3. NextBatch \subseteq Worker
    BY DEF NextBatch, Worker
  <2> QED
    BY <2>1, <2>2, <2>3
<1>2. ASSUME NEW o \in Decision, NEW w \in Worker, RecordProposal(w, o) PROVE Tidy'
  <2>1. /\ pc = "proposing"
        /\ pc' \in {"propose", "proposing", "settleWork"}
        /\ pc' # "proposing" => \A v \in Worker : st'[v] # "Running"
        /\ UNCHANGED <<intents, claims, todo, active, failed>>
    BY <1>2 DEF RecordProposal
  <2>2. /\ st'[w] = o
        /\ \A m \in MutationNode \ {w} : st'[m] = st[m]
    BY <1>2, RecordNode, Named DEF RecordProposal
  <2>3. \A m \in MutationNode :
          st'[m] # "RecoveryRequired" /\ (st'[m] = "Running" => m \in Worker)
    BY <2>1, <2>2, Named DEF Decision
  <2> QED
    BY <2>1, <2>3
<1> QED
  BY <1>1, <1>2

\* Without the contract, and with nobody at work, the settle ends all that somebody
\* was assigned to: the first node that it left pending would wait for one that
\* cannot succeed.
LEMMA BlockedIsOver ==
  ASSUME NEW g \in [MutationNode -> NodeState], g["contract"] = "Failed",
         \A n \in MutationNode : g[n] \notin Unsure \cup {"Succeeded"}
  PROVE  \A n \in MutationNode \ NeverBegun : SettleUnreachable(g)[n] \in Settled
<1> DEFINE h == SettleUnreachable(g)
           S == {n \in MutationNode \ NeverBegun : h[n] = "Pending"}
<1>1. /\ \A n \in MutationNode : h[n] = g[n] \/ (g[n] = "Pending" /\ h[n] = "Skipped")
      /\ \A n \in MutationNode :
           h[n] = "Pending" => \A m \in HardSources(n) : h[m] \notin Unsuccessful
  BY SettleNodes, SettleWorks
<1> HIDE DEF h
<1>2. \A n \in MutationNode : h[n] \in {"Pending"} \cup Unsuccessful
  BY <1>1 DEF Unsure, NodeState, Unsuccessful
<1>3. S = {}
  <2>1. SUFFICES ASSUME S # {} PROVE FALSE
    OBVIOUS
  <2>2. PICK n \in S : \A e \in MutationEdge : e.to = n => e.from \notin S
    <3>1. S \in SUBSET MutationNode
      OBVIOUS
    <3> QED
      BY <2>1, <3>1, CompiledGraph
  <2>3. n # "contract"
    BY <1>1, Named
  <2>4. PICK m \in HardSources(n) : m \in MutationNode \ NeverBegun /\ m \notin S
    <3>1. PICK k \in HardSources(n) : k \notin NeverBegun
      <4>1. CASE Roster = <<>>
        <5>1. Worker = {} /\ n \in {"claim", "release", "finalize"}
          BY <2>3, <4>1, NodeNames DEF Worker, Stage, NeverBegun
        <5> QED
          BY <4>1, <5>1, Prerequisites DEF NeverBegun
      <4>2. CASE Roster # <<>>
        <5>1. NeverBegun = {} /\ Worker # {}
          BY <4>2, SomeWorker DEF NeverBegun
        <5>2. n \in Worker => HardSources(n) # {}
          BY Sources, Indices
        <5>3. HardSources(n) # {}
          BY <2>3, <5>1, <5>2, Sources, Prerequisites, NodeNames DEF Stage
        <5> QED
          BY <5>1, <5>3
      <4> QED
        BY <4>1, <4>2
    <3>2. k \in MutationNode /\ k \notin S
      BY <2>2, CompiledGraph DEF HardSources
    <3> QED
      BY <3>1, <3>2
  <2>5. h[m] \in Unsuccessful
    BY <1>2, <2>4
  <2> QED
    BY <1>1, <2>4, <2>5
<1> QED
  BY <1>2, <1>3 DEF h, Settled, Terminal, Unsuccessful

LEMMA TidySettle ==
  ASSUME IInv, Driven, First, Tidy, SettleStage
  PROVE  Tidy'
<1>1. /\ st' = SettleUnreachable(st)
      /\ UNCHANGED <<intents, claims, todo, active, failed>>
  BY DEF SettleStage, Settle
<1>2. \A n \in MutationNode : st'[n] = st[n] \/ (st[n] = "Pending" /\ st'[n] = "Skipped")
  BY <1>1, SettleNodes DEF IInv, TypeOK
<1>3. \A n \in MutationNode :
        st'[n] = "Pending" => \A m \in HardSources(n) : st'[m] \notin Unsuccessful
  BY <1>1, SettleWorks DEF IInv, TypeOK
<1>4. \/ pc = "settleBlocked" /\ pc' = "returned"
      \/ pc = "settleWork" /\ pc' \in {"review", "settleReview"}
      \/ pc = "settleReview" /\ pc' \in {"applyIntents", "settleApply"}
      \/ pc = "settleApply" /\ pc' = "releaseIntents"
      \/ pc = "settleRelease"
           /\ pc' = IF "finalize" \in ReadyNodeIds(st') THEN "finalize" ELSE "returned"
  BY <1>1 DEF SettleStage, Settle, IsReady
<1>5. Attended'
  <2>1. \A n \in MutationNode : st[n] \notin Unsure
    BY <1>4 DEF First, Attended, AtHand, Claiming, Unsure
  <2> QED
    BY <1>2, <1>4, <2>1 DEF Attended, Unsure
<1>6. Owed'
  BY <1>1, <1>4 DEF Tidy, Owed, BeforeClaim, Claiming, Proposing, Judging, Cleaning, Waiting
<1>7. \A n \in MutationNode : st[n] \in Settled => st'[n] = st[n]
  BY <1>2 DEF Settled, Terminal
<1> USE DEF Tidy, First, Attended, Over, AtHand, Claiming, Judging, Cleaning, Concluding
<1>8. Over'
  <2>1. CASE pc = "settleBlocked"
    <3>1. st["contract"] = "Failed"
      BY <2>1
    <3>2. \A n \in MutationNode \ NeverBegun : st'[n] \in Settled
      BY <1>1, <2>1, <3>1, BlockedIsOver DEF IInv, TypeOK, Unsure
    <3> QED
      BY <1>1, <1>4, <2>1, <3>2
  <2>2. CASE pc = "settleWork"
    <3>1. /\ st["contract"] = "Succeeded" /\ st["claim"] \in {"Succeeded", "Failed"}
          /\ \A w \in Worker :
               st[w] \in {"Pending", "Succeeded", "Failed"} /\ w \notin ReadyNodeIds(st)
      BY <2>2 DEF Driven, Behind
    <3>2. \A w \in Worker : st'[w] \in {"Succeeded", "Failed", "Skipped"}
      BY <1>1, <3>1, NoWorkerWaits DEF IInv, TypeOK
    <3> QED
      BY <1>2, <1>4, <2>2, <3>1, <3>2, Named DEF Settled, Terminal
  <2>3. CASE pc \in {"settleReview", "settleApply"}
    BY <1>2, <1>4, <1>7, <2>3, Named
  <2>4. CASE pc = "settleRelease"
    <3>1. /\ st'["contract"] = "Succeeded" /\ st'["release"] = "Succeeded"
          /\ \A n \in {"claim", "review", "apply"} \cup Worker : st'[n] \in Settled
      BY <1>2, <1>7, <2>4, Named
    <3>2. CASE pc' = "finalize"
      BY <3>1, <3>2
    <3>3. CASE pc' = "returned"
      <4>1. claims' = {}
        BY <1>1, <2>4 DEF IInv, World, SuccessMatchesWorld
      <4>2. st'["finalize"] # "Pending"
        <5>1. "finalize" \notin ReadyNodeIds(st') /\ "finalize" \in MutationNode
          BY <1>4, <2>4, <3>3, Named
        <5>2. \A m \in HardSources("finalize") :
                st'[m] # "Succeeded" => st'[m] \in Unsuccessful
          BY <1>5, <3>1, Sources, Named DEF Settled, Terminal, Unsuccessful
        <5> QED
          BY <1>3, <5>1, <5>2, Sources DEF ReadyNodeIds
      <4>3. st'["finalize"] \in Settled
        BY <1>1, <1>5, <3>3, <4>2, Named, SettleNodes DEF IInv, TypeOK, NodeState, Settled, Terminal
      <4>4. \A n \in MutationNode : st'[n] \in Settled
        BY <3>1, <4>3, NodeNames DEF Stage, Settled, Terminal
      <4> QED
        BY <3>3, <4>1, <4>4
    <3> QED
      BY <1>4, <2>4, <3>2, <3>3
  <2> QED
    BY <1>4, <2>1, <2>2, <2>3, <2>4
<1> QED
  BY <1>5, <1>6, <1>8

LEMMA TidyReview ==
  ASSUME IInv, Driven, First, Tidy, AdmitReview \/ \E o \in Decision : RecordReview(o)
  PROVE  Tidy'
<1> USE DEF Tidy, First, Attended, Owed, Over, AtHand, BeforeClaim, Claiming, Proposing, Judging,
        Cleaning, Waiting, Concluding
<1>1. CASE AdmitReview
  <2>1. /\ pc = "review" /\ pc' = "reviewing"
        /\ st'["review"] = "Running"
        /\ \A m \in MutationNode \ {"review"} : st'[m] = st[m]
        /\ UNCHANGED <<intents, claims, todo, active, failed>>
    BY <1>1, AdmitGoesOn, Named DEF AdmitReview, Admitted
  <2> QED
    BY <2>1, Named
<1>2. ASSUME NEW o \in Decision, RecordReview(o) PROVE Tidy'
  <2>1. /\ pc = "reviewing" /\ pc' = "settleReview"
        /\ UNCHANGED <<intents, claims, todo, active, failed>>
    BY <1>2 DEF RecordReview, Goto
  <2>2. /\ \A m \in MutationNode \ {"review"} : st'[m] = st[m]
        /\ \A m \in MutationNode : st'[m] \notin Unsure
    BY <1>2, <2>1, NobodyRuns, Named DEF RecordReview
  <2> QED
    BY <2>1, <2>2, Named DEF Unsure
<1> QED
  BY <1>1, <1>2

LEMMA TidyApply ==
  ASSUME IInv, Driven, First, Tidy,
         \/ RecordApplyIntents \/ AdmitApply \/ RecordApply
         \/ \E f \in File, b \in BOOLEAN : ApplyOperation(f, b)
  PROVE  Tidy'
<1> USE DEF Tidy, First, Attended, Owed, Over, AtHand, BeforeClaim, Claiming, Proposing, Judging,
        Cleaning, Waiting, Concluding
<1>1. CASE RecordApplyIntents
  <2>1. /\ pc = "applyIntents" /\ pc' = "applyAdmit"
        /\ UNCHANGED <<st, claims, todo, active, failed>>
        /\ intents'["release"] = intents["release"]
    BY <1>1 DEF RecordApplyIntents, RecordIntents, Goto, IInv, TypeOK, EffectNode
  <2> QED
    BY <2>1
<1>2. CASE AdmitApply
  <2>1. /\ pc = "applyAdmit" /\ pc' = "applying"
        /\ st'["apply"] = "Running"
        /\ \A m \in MutationNode \ {"apply"} : st'[m] = st[m]
        /\ UNCHANGED <<intents, claims, active, failed>>
    BY <1>2, AdmitGoesOn, Named DEF AdmitApply, Admitted
  <2> QED
    BY <2>1, Named
<1>3. CASE RecordApply
  <2>1. /\ pc = "applying" /\ pc' = "settleApply"
        /\ UNCHANGED <<intents, claims, todo, active, failed>>
    BY <1>3 DEF RecordApply, Goto
  <2>2. /\ \A m \in MutationNode \ {"apply"} : st'[m] = st[m]
        /\ \A m \in MutationNode : st'[m] \notin Unsure
    BY <1>3, <2>1, NobodyRuns, Named DEF RecordApply, Decision
  <2> QED
    BY <2>1, <2>2, Named DEF Unsure
<1>4. ASSUME NEW f \in File, NEW b \in BOOLEAN, ApplyOperation(f, b) PROVE Tidy'
  <2>1. pc = "applying" /\ UNCHANGED <<st, intents, claims, pc, active, failed>>
    BY <1>4 DEF ApplyOperation
  <2> QED
    BY <2>1
<1> QED
  BY <1>1, <1>2, <1>3, <1>4

LEMMA TidyRelease ==
  ASSUME IInv, Driven, First, Tidy,
         \/ RecordReleaseIntents \/ AdmitRelease \/ RecordRelease
         \/ \E f \in File : ReleaseFile(f)
  PROVE  Tidy'
<1> USE DEF Tidy, First, Attended, Owed, Over, AtHand, BeforeClaim, Claiming, Proposing, Judging,
        Cleaning, Waiting, Concluding
<1>1. CASE RecordReleaseIntents
  <2>1. /\ pc = "releaseIntents" /\ pc' = "releaseAdmit"
        /\ UNCHANGED <<st, claims, todo, active, failed>>
    BY <1>1 DEF RecordReleaseIntents, RecordIntents, Goto
  <2> QED
    BY <2>1
<1>2. CASE AdmitRelease
  <2>1. /\ pc = "releaseAdmit" /\ pc' = "releasing"
        /\ st'["release"] = "Running"
        /\ \A m \in MutationNode \ {"release"} : st'[m] = st[m]
        /\ todo' = active
        /\ UNCHANGED <<intents, claims, active, failed>>
    BY <1>2, AdmitGoesOn, Named DEF AdmitRelease, Admitted
  <2>2. \A n \in {"review", "apply"} : st[n] \in Settled
    BY <2>1, Named DEF Driven, Behind, Settled
  <2> QED
    BY <2>1, <2>2, Named
<1>3. CASE RecordRelease
  <2>1. /\ pc = "releasing" /\ pc' = "settleRelease" /\ ~ failed
        /\ UNCHANGED <<intents, claims, todo, active, failed>>
    BY <1>3 DEF RecordRelease, Goto
  <2>2. Record("release", "Succeeded")
    BY <1>3, <2>1 DEF RecordRelease
  <2>3. /\ st'["release"] = "Succeeded"
        /\ \A m \in MutationNode \ {"release"} : st'[m] = st[m]
        /\ \A m \in MutationNode : st'[m] \notin Unsure
    BY <2>1, <2>2, NobodyRuns, Named DEF Decision
  <2> QED
    BY <2>1, <2>3, Named DEF Unsure
<1>4. ASSUME NEW f \in File, ReleaseFile(f) PROVE Tidy'
  <2>1. /\ pc \in {"conflict", "claimError", "releasing"}
        /\ f \in todo /\ todo' = todo \ {f} /\ claims' = claims \ {f}
        /\ failed' = (failed \/ f \notin claims)
        /\ UNCHANGED <<st, intents, pc, active>>
    BY <1>4 DEF ReleaseFile, Releasing
  <2>2. ~ failed'
    BY <2>1
  <2> QED
    BY <2>1, <2>2
<1> QED
  BY <1>1, <1>2, <1>3, <1>4

LEMMA TidyEnd ==
  ASSUME IInv, Driven, First, Tidy, AdmitFinalize \/ RecordFinalize \/ Recover
  PROVE  Tidy'
<1> USE DEF Tidy, First, Attended, Owed, Over, AtHand, BeforeClaim, Claiming, Proposing, Judging,
        Cleaning, Waiting, Concluding
<1>1. CASE AdmitFinalize
  <2>1. /\ pc = "finalize" /\ pc' = "finalizing"
        /\ st'["finalize"] = "Running"
        /\ \A m \in MutationNode \ {"finalize"} : st'[m] = st[m]
        /\ UNCHANGED <<intents, claims, todo, active, failed>>
    BY <1>1, AdmitGoesOn, Named DEF AdmitFinalize, Admitted
  <2> QED
    BY <2>1, Named
<1>2. CASE RecordFinalize
  <2>1. /\ pc = "finalizing" /\ pc' = "returned"
        /\ UNCHANGED <<intents, claims, todo, active, failed>>
    BY <1>2 DEF RecordFinalize, Goto
  <2>2. /\ st'["finalize"] = "Succeeded"
        /\ \A m \in MutationNode \ {"finalize"} : st'[m] = st[m]
        /\ \A m \in MutationNode : st'[m] \notin Unsure
    BY <1>2, <2>1, NobodyRuns, Named DEF RecordFinalize, Decision
  <2>3. \A n \in MutationNode : st'[n] \in Settled
    <3>1. \A n \in {"contract", "claim", "review", "apply", "release"} \cup Worker :
            st[n] \in Settled /\ n \in MutationNode \ {"finalize"}
      BY <2>1, Named DEF Settled, Terminal
    <3>2. \A n \in MutationNode \ {"finalize"} : st'[n] \in Settled
      BY <2>2, <3>1, NodeNames DEF Stage
    <3> QED
      BY <2>2, <3>2 DEF Settled, Terminal
  <2>4. claims = {}
    BY <2>1 DEF IInv, World, SuccessMatchesWorld
  <2> QED
    BY <2>1, <2>2, <2>3, <2>4 DEF Unsure
<1>3. CASE Recover
  <2>1. /\ pc = "returned" /\ pc' = "recovered" /\ ~ failed'
        /\ st' = RecoverFromCheckpoint(st)
        /\ UNCHANGED <<intents, claims>>
    BY <1>3 DEF Recover
  <2>2. \A n \in MutationNode : st[n] \notin Unsure
    BY <2>1 DEF Unsure
  <2>3. \A n \in MutationNode : st'[n] \notin Unsure
    <3> DEFINE g == MarkInterrupted(st)
    <3>1. g \in [MutationNode -> NodeState] /\ \A n \in MutationNode : g[n] \notin Unsure
      BY <2>2, RecoverNodes DEF IInv, TypeOK, Unsure
    <3>2. st' = SettleUnreachable(g)
      BY <2>1 DEF RecoverFromCheckpoint
    <3> QED
      BY <3>1, <3>2, SettleNodes DEF Unsure
  <2> QED
    BY <2>1, <2>3 DEF Unsure
<1> QED
  BY <1>1, <1>2, <1>3

\* The rest of the steps need a disturbance: a crash, a failed request, a patch
\* that cannot be planned, or a node left for a recovery.
LEMMA StepCalm ==
  ASSUME IInv, Driven, Fresh, Calm, [Next]_vars
  PROVE  Calm'
<1>1. SUFFICES ASSUME Undisturbed' PROVE Tidy'
  BY DEF Calm
<1>2. Undisturbed /\ ~ Interrupt
  BY <1>1, FewerBefore DEF Undisturbed
<1>3. First /\ Tidy
  BY <1>2 DEF Calm, Fresh, Undisturbed
<1>4. /\ ~ FailPlan /\ ~ FailFacts /\ ~ ReadFacts /\ ~ SettleRecovery
      /\ \A f \in File, b \in BOOLEAN : ~ FailClaimCall(f, b) /\ ~ FailReleaseCall(f, b)
      /\ \A n \in MutationNode, d \in Decision : ~ Reconcile(n, d)
  BY <1>2, <1>3 DEF Undisturbed, FailPlan, FailFacts, ReadFacts, SettleRecovery, Settle,
     FailClaimCall, FailReleaseCall, Reconcile, CanReconcile, Goto, First, Attended
<1>5. CASE UNCHANGED vars
  BY <1>3, <1>5 DEF vars, Tidy, Owed, Over
<1>6. CASE Next
  BY <1>2, <1>3, <1>4, <1>6, TidyContract, TidyClaim, TidyWork, TidySettle, TidyReview, TidyApply,
     TidyRelease, TidyEnd DEF Next, DriverStep, RecoveryStep, Decision
<1> QED
  BY <1>5, <1>6

LEMMA InitCalm == Init => Calm
<1> SUFFICES ASSUME Init PROVE Tidy
  BY DEF Calm
<1>1. /\ pc = "contract" /\ \A n \in MutationNode : st[n] = "Pending"
      /\ intents["release"] = {} /\ ~ failed
  BY DEF Init, AllPending, EffectNode
<1> QED
  BY <1>1 DEF Tidy, Owed, Over, BeforeClaim, Claiming, Proposing, Judging,
     Cleaning, Waiting, Concluding

\* The claims that a returned driver leaves behind are always the work of a crash, a
\* failed request or a patch that could not be planned: a conflict, a failing
\* worker, a refused review and a partial patch are all cleaned up, and the graph of
\* the task is over, but for the review and the patch of a task that was given to
\* nobody.
THEOREM DriverEndsItsWork == Spec => []EndsWhatItBegins
<1>1. Calm => EndsWhatItBegins
  BY DEF Calm, Tidy, Over, EndsWhatItBegins
<1> QED
  BY <1>1, SpecInv, InitDriven, StepDriven, InitFresh, StepFresh, InitCalm, StepCalm, PTL DEF Spec
=============================================================================
