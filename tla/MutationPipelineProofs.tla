----------------------- MODULE MutationPipelineProofs -----------------------
(***************************************************************************)
(* What a mutation task keeps, for every roster, collaboration, set of     *)
(* faults and number of interruptions.  None of the safety properties is   *)
(* inductive: each depends on the place of the driver, and what holds at a *)
(* place depends on the order in which the nodes of the graph may start.   *)
(***************************************************************************)
EXTENDS MutationPipeline, TLAPS

Unsure == {"Running", "RecoveryRequired"}

\* What the edges, and the places from which nodes are started, make of the graph.
Order ==
  /\ \A w \in Worker : st[w] \in Started => st["claim"] = "Succeeded"
  /\ st["claim"] \in Started => st["contract"] = "Succeeded"
  /\ st["review"] \in Started => \A w \in Worker : st[w] = "Succeeded"
  /\ st["apply"] \in Started => st["review"] = "Succeeded"
  /\ st["release"] \in Started => st["apply"] \notin Unsure
  /\ st["finalize"] \in Started => st["apply"] = "Succeeded" /\ st["release"] = "Succeeded"
  /\ st["release"] = "Skipped" => st["contract"] \in Unsuccessful
  /\ \A n \in MutationNode : st[n] # "Cancelled"

BeforeClaim == {"contract", "validating", "claimIntents", "claimAdmit"}

Claiming == {"claiming", "conflict", "claimError"}

Proposing == {"propose", "proposing"}

Judging == {"settleWork", "review", "reviewing", "settleReview",
            "applyIntents", "applyAdmit", "applying"}

Cleaning == {"settleApply", "releaseIntents", "releaseAdmit", "releasing"}

Recovering == {"settleRecovery", "facts"}

\* What the place of the driver says of the graph.
Placed ==
  /\ pc \in BeforeClaim => st["claim"] \notin Started
  /\ pc \in Claiming => st["claim"] = "Running"
  /\ pc \in Proposing => st["claim"] = "Succeeded"
  /\ pc \in Judging \cup Cleaning \cup Recovering \cup {"recovered"} =>
       \A w \in Worker : st[w] # "Running"
  /\ pc \in Cleaning \cup Recovering => st["apply"] \notin Unsure
  /\ pc \in BeforeClaim \cup Claiming \cup Proposing \cup Judging => st["release"] \notin Started

\* The intents are written before the effects, and those of a release cover it.
Foretold ==
  /\ EffectsForetold
  /\ pc \in {"claimAdmit", "claiming"} => intents["claim"] = File
  /\ pc \in {"applyAdmit", "applying"} \/ st["apply"] \in Unsure => intents["apply"] = File
  /\ pc \in BeforeClaim \cup {"claiming"} => intents["release"] = {}
  /\ intents["release"] # {} => claims \subseteq intents["release"]

\* What the driver knows of the claims.
Known ==
  /\ st["claim"] \notin Started => claims = {}
  /\ pc \in BeforeClaim => active = {}
  /\ pc = "claiming" => claims = active /\ active \cup todo = File
  /\ pc \in Proposing \cup Judging /\ st["claim"] = "Succeeded" => claims = File
  /\ pc \in Proposing \cup Judging \cup (Cleaning \ {"releasing"}) =>
       claims \subseteq active \/ (failed /\ active = {})
  /\ pc \in {"conflict", "releasing"} => failed \/ claims \subseteq todo

\* A graph without workers never gets beyond its contract.
Staffed ==
  Roster = <<>> =>
    /\ pc \in {"contract", "validating", "settleBlocked", "settleRecovery"} \cup Resting
    /\ st["contract"] # "Succeeded"
    /\ \A n \in MutationNode \ {"contract"} : st[n] \notin Started

World == Placed /\ Foretold /\ Known /\ SuccessMatchesWorld /\ ClaimsCoverUnknownEffects

IInv == TypeOK /\ Order /\ Staffed /\ World

-----------------------------------------------------------------------------
(* The compiled graph. *)

LEMMA NodeNames ==
  /\ MutationNode = Stage \cup Worker
  /\ Worker \cap Stage = {}
  /\ \A n \in Stage : n \in MutationNode /\ n \notin Worker
  BY RosterAssumption DEF MutationNode

LEMMA SomeWorker == Roster # <<>> => Worker # {}
<1> SUFFICES ASSUME Roster # <<>> PROVE Worker # {}
  OBVIOUS
<1>1. Len(Roster) \in Nat /\ Len(Roster) # 0 /\ DOMAIN Roster = 1 .. Len(Roster)
  BY RosterAssumption
<1>2. 1 \in DOMAIN Roster
  BY <1>1
<1> QED
  BY <1>2 DEF Worker

\* The edges the proofs rest on.  A release depends on the contract alone.
LEMMA Prerequisites ==
  /\ "contract" \in HardSources("claim")
  /\ Worker \subseteq HardSources("review")
  /\ "review" \in HardSources("apply")
  /\ "apply" \in HardSources("finalize") /\ "release" \in HardSources("finalize")
  /\ HardSources("release") = {"contract"}
<1>1. ASSUME NEW a, NEW b, NEW k, k # "Finally", Link(a, b, k) \in MutationEdge
      PROVE  a \in HardSources(b)
  <2>1. Link(a, b, k).from = a /\ Link(a, b, k).to = b /\ Link(a, b, k).kind = k
    BY DEF Link
  <2> QED
    BY <1>1, <2>1 DEF HardSources
<1>2. /\ Link("contract", "claim", "Requires") \in MutationEdge
      /\ \A w \in Worker : Link(w, "review", "Validates") \in MutationEdge
      /\ Link("review", "apply", "Requires") \in MutationEdge
      /\ Link("apply", "finalize", "Requires") \in MutationEdge
      /\ Link("release", "finalize", "Requires") \in MutationEdge
      /\ Link("contract", "release", "Requires") \in MutationEdge
  BY DEF MutationEdge
<1>3. ASSUME NEW m \in HardSources("release")
      PROVE  m = "contract"
  <2>1. PICK e \in MutationEdge : e.to = "release" /\ e.kind # "Finally" /\ m = e.from
    BY DEF HardSources
  <2>2. \/ e = Link("contract", "claim", "Requires")
        \/ \E i \in DOMAIN Roster : e = Link(WorkSource(i), Roster[i], "Consumes")
        \/ \E w \in Worker : e = Link(w, "review", "Validates")
        \/ e = Link("review", "apply", "Requires")
        \/ e = Link("contract", "release", "Requires")
        \/ e = Link("review", "release", "Finally")
        \/ e = Link("apply", "release", "Finally")
        \/ e = Link("apply", "finalize", "Requires")
        \/ e = Link("release", "finalize", "Requires")
    BY DEF MutationEdge
  <2>3. ASSUME NEW i \in DOMAIN Roster, e = Link(WorkSource(i), Roster[i], "Consumes")
        PROVE  FALSE
    <3>1. e.to = Roster[i] /\ Roster[i] \in Worker
      BY <2>3 DEF Link, Worker
    <3> QED
      BY <2>1, <3>1, NodeNames DEF Stage
  <2> QED
    BY <2>1, <2>2, <2>3 DEF Link
<1> QED
  BY <1>1, <1>2, <1>3

LEMMA SettleNodes ==
  ASSUME NEW g \in [MutationNode -> NodeState]
  PROVE  /\ SettleUnreachable(g) \in [MutationNode -> NodeState]
         /\ \A n \in MutationNode :
              \/ SettleUnreachable(g)[n] = g[n]
              \/ g[n] = "Pending" /\ SettleUnreachable(g)[n] = "Skipped"
  BY DEF SettleUnreachable, Unreachable, NodeState

\* A release is skipped only when the contract cannot succeed: otherwise the
\* other unreachable nodes would already be a closed set.
LEMMA ReleaseSkippedForContract ==
  ASSUME NEW g \in [MutationNode -> NodeState],
         g["release"] # "Skipped", SettleUnreachable(g)["release"] = "Skipped"
  PROVE  SettleUnreachable(g)["contract"] \in Unsuccessful
<1> DEFINE P == {k \in MutationNode : g[k] = "Pending"}
           S == Unreachable(g) \ {"release"}
<1>1. /\ "release" \in Unreachable(g) /\ g["release"] = "Pending"
      /\ "release" \in MutationNode /\ "contract" \in MutationNode
  BY NodeNames DEF SettleUnreachable, Unreachable, Stage
<1>2. SUFFICES ASSUME SettleUnreachable(g)["contract"] \notin Unsuccessful
               PROVE  FALSE
  OBVIOUS
<1>3. g["contract"] \notin Unsuccessful /\ "contract" \notin Unreachable(g)
  BY <1>1, <1>2 DEF SettleUnreachable, Unsuccessful
<1>4. S \in SUBSET P
  BY DEF Unreachable
<1>5. ASSUME NEW n \in MutationNode, g[n] = "Pending",
             \E m \in HardSources(n) : g[m] \in Unsuccessful \/ m \in S
      PROVE  n \in S
  <2>1. n # "release"
    BY <1>3, <1>5, Prerequisites
  <2>2. ASSUME NEW T \in SUBSET P, SkipClosed(g, T)
        PROVE  n \in T
    <3>1. S \subseteq T
      BY <2>2 DEF Unreachable
    <3> QED
      BY <1>5, <2>2, <3>1 DEF SkipClosed
  <2>3. n \in Unreachable(g)
    BY <1>5, <2>2 DEF Unreachable
  <2> QED
    BY <2>1, <2>3
<1>6. SkipClosed(g, S)
  BY <1>5 DEF SkipClosed
<1> QED
  BY <1>1, <1>4, <1>6 DEF Unreachable

LEMMA RecoverNodes ==
  ASSUME NEW g \in [MutationNode -> NodeState]
  PROVE  /\ MarkInterrupted(g) \in [MutationNode -> NodeState]
         /\ \A n \in MutationNode :
              MarkInterrupted(g)[n] = IF g[n] = "Running" THEN "RecoveryRequired" ELSE g[n]
  BY DEF MarkInterrupted, NodeState

LEMMA SetNodes ==
  ASSUME NEW g \in [MutationNode -> NodeState], NEW n \in MutationNode, NEW s \in NodeState
  PROVE  /\ SetState(g, n, s) \in [MutationNode -> NodeState]
         /\ SetState(g, n, s)[n] = s
         /\ \A m \in MutationNode \ {n} : SetState(g, n, s)[m] = g[m]
  BY DEF SetState

LEMMA StartNodes ==
  ASSUME NEW g \in [MutationNode -> NodeState], NEW B, CanStartBatch(g, B)
  PROVE  /\ StartReadyBatch(g, B) \in [MutationNode -> NodeState]
         /\ B \subseteq MutationNode
         /\ \A m \in MutationNode :
              StartReadyBatch(g, B)[m] = IF m \in B THEN "Running" ELSE g[m]
         /\ \A n \in B : g[n] = "Pending" /\ \A m \in HardSources(n) : g[m] = "Succeeded"
  BY DEF StartReadyBatch, CanStartBatch, ReadyNodeIds, NodeState

-----------------------------------------------------------------------------
(* The order of the nodes. *)

GraphTyped == st \in [MutationNode -> NodeState]

\* A graph update that starts no node keeps the order.
LEMMA QuietOrder ==
  ASSUME GraphTyped, GraphTyped', Order,
         \A n \in MutationNode :
           /\ st'[n] \in Started => st[n] \in Started
           /\ st[n] = "Succeeded" => st'[n] = "Succeeded"
           /\ st[n] \in Unsuccessful => st'[n] = st[n]
           /\ st'[n] # "Cancelled",
         st'["apply"] \in Unsure => st["apply"] \in Unsure,
         st'["release"] = "Skipped" =>
           st["release"] = "Skipped" \/ st'["contract"] \in Unsuccessful
  PROVE  Order'
<1>1. /\ Worker \subseteq MutationNode
      /\ {"contract", "claim", "review", "apply", "release", "finalize"} \subseteq MutationNode
  BY NodeNames DEF Stage
<1>2. \A w \in Worker : st'[w] \in Started => st'["claim"] = "Succeeded"
  BY <1>1 DEF Order
<1>3. st'["review"] \in Started => \A w \in Worker : st'[w] = "Succeeded"
  BY <1>1 DEF Order
<1>4. /\ st'["claim"] \in Started => st'["contract"] = "Succeeded"
      /\ st'["apply"] \in Started => st'["review"] = "Succeeded"
      /\ st'["release"] \in Started => st'["apply"] \notin Unsure
      /\ st'["finalize"] \in Started => st'["apply"] = "Succeeded" /\ st'["release"] = "Succeeded"
  BY <1>1 DEF Order
<1>5. st'["release"] = "Skipped" => st'["contract"] \in Unsuccessful
  BY <1>1 DEF Order
<1> QED
  BY <1>2, <1>3, <1>4, <1>5 DEF Order

LEMMA OrderSettle ==
  ASSUME GraphTyped, Order, st' = SettleUnreachable(st)
  PROVE  GraphTyped' /\ Order'
<1>1. /\ GraphTyped'
      /\ \A n \in MutationNode : st'[n] = st[n] \/ (st[n] = "Pending" /\ st'[n] = "Skipped")
  BY SettleNodes DEF GraphTyped
<1>2. st'["release"] = "Skipped" =>
        st["release"] = "Skipped" \/ st'["contract"] \in Unsuccessful
  BY ReleaseSkippedForContract DEF GraphTyped
<1>3. "apply" \in MutationNode
  BY NodeNames DEF Stage
<1>4. \A n \in MutationNode : st[n] # "Cancelled"
  BY DEF Order
<1>5. \A n \in MutationNode :
           /\ st'[n] \in Started => st[n] \in Started
           /\ st[n] = "Succeeded" => st'[n] = "Succeeded"
           /\ st[n] \in Unsuccessful => st'[n] = st[n]
           /\ st'[n] # "Cancelled"
           /\ st'[n] \in Unsure => st[n] \in Unsure
  BY <1>1, <1>4 DEF Started, Unsuccessful, Unsure
<1> QED
  BY <1>1, <1>2, <1>3, <1>5, QuietOrder

LEMMA OrderRecover ==
  ASSUME GraphTyped, Order, st' = RecoverFromCheckpoint(st)
  PROVE  /\ GraphTyped' /\ Order'
         /\ \A n \in MutationNode :
              /\ st'[n] # "Running"
              /\ st'[n] \in Started <=> st[n] \in Started
              /\ st'[n] = "Succeeded" <=> st[n] = "Succeeded"
              /\ st'[n] = "Failed" <=> st[n] = "Failed"
              /\ st'[n] \in Unsure <=> st[n] \in Unsure
<1> DEFINE g == MarkInterrupted(st)
<1>1. /\ g \in [MutationNode -> NodeState]
      /\ \A n \in MutationNode : g[n] = IF st[n] = "Running" THEN "RecoveryRequired" ELSE st[n]
  BY RecoverNodes DEF GraphTyped
<1>2. st' = SettleUnreachable(g)
  BY DEF RecoverFromCheckpoint
<1> HIDE DEF g
<1>3. /\ GraphTyped'
      /\ \A n \in MutationNode : st'[n] = g[n] \/ (g[n] = "Pending" /\ st'[n] = "Skipped")
  BY <1>1, <1>2, SettleNodes DEF GraphTyped
<1>4. "apply" \in MutationNode /\ "release" \in MutationNode
  BY NodeNames DEF Stage
<1>5. st'["release"] = "Skipped" =>
        st["release"] = "Skipped" \/ st'["contract"] \in Unsuccessful
  BY <1>1, <1>2, <1>4, ReleaseSkippedForContract
<1>6. \A n \in MutationNode : st[n] # "Cancelled"
  BY DEF Order
<1>7. \A n \in MutationNode :
           /\ st'[n] # "Running"
           /\ st'[n] \in Started <=> st[n] \in Started
           /\ st'[n] = "Succeeded" <=> st[n] = "Succeeded"
           /\ st'[n] = "Failed" <=> st[n] = "Failed"
           /\ st[n] \in Unsuccessful => st'[n] = st[n]
           /\ st'[n] # "Cancelled"
           /\ st'[n] \in Unsure <=> st[n] \in Unsure
  BY <1>1, <1>3, <1>6 DEF Started, Unsuccessful, Unsure
<1> QED
  BY <1>3, <1>4, <1>5, <1>7, QuietOrder

\* record_outcome and reconcile_node end a node that started.
LEMMA OrderEnd ==
  ASSUME GraphTyped, Order, NEW n \in MutationNode, st[n] \in Unsure,
         NEW o \in Decision, st' = SetState(st, n, o)
  PROVE  /\ GraphTyped' /\ Order' /\ st'[n] = o
         /\ \A m \in MutationNode \ {n} : st'[m] = st[m]
<1>1. /\ GraphTyped' /\ st'[n] = o
      /\ \A m \in MutationNode \ {n} : st'[m] = st[m]
  <2>1. o \in NodeState
    BY DEF Decision, NodeState
  <2> QED
    BY <2>1, SetNodes DEF GraphTyped
<1>2. "apply" \in MutationNode /\ "release" \in MutationNode
  BY NodeNames DEF Stage
<1>3. \A m \in MutationNode : st[m] # "Cancelled"
  BY DEF Order
<1>4. \A m \in MutationNode :
           /\ st'[m] \in Started => st[m] \in Started
           /\ st[m] = "Succeeded" => st'[m] = "Succeeded"
           /\ st[m] \in Unsuccessful => st'[m] = st[m]
           /\ st'[m] # "Cancelled"
           /\ st'[m] \in Unsure => st[m] \in Unsure
           /\ st'[m] = "Skipped" => st[m] = "Skipped"
  BY <1>1, <1>3 DEF Started, Unsuccessful, Unsure, Decision
<1> QED
  BY <1>1, <1>2, <1>4, QuietOrder

\* What the edges do not say of a start, the place of the driver has to.
LEMMA OrderStart ==
  ASSUME GraphTyped, Order, NEW B, CanStartBatch(st, B), st' = StartReadyBatch(st, B),
         B \cap Worker # {} => st["claim"] = "Succeeded",
         "apply" \in B => st["release"] \notin Started /\ "release" \notin B,
         "release" \in B => st["apply"] \notin Unsure
  PROVE  /\ GraphTyped' /\ Order'
         /\ B \subseteq MutationNode
         /\ \A n \in B : st[n] = "Pending" /\ st'[n] = "Running"
         /\ \A m \in MutationNode \ B : st'[m] = st[m]
<1>1. /\ GraphTyped' /\ B \subseteq MutationNode
      /\ \A m \in MutationNode : st'[m] = IF m \in B THEN "Running" ELSE st[m]
      /\ \A n \in B : st[n] = "Pending" /\ \A m \in HardSources(n) : st[m] = "Succeeded"
  BY StartNodes DEF GraphTyped
<1>2. /\ Worker \subseteq MutationNode
      /\ {"contract", "claim", "review", "apply", "release", "finalize"} \subseteq MutationNode
  BY NodeNames DEF Stage
<1>3. \A n \in MutationNode : st[n] = "Succeeded" => st'[n] = "Succeeded"
  BY <1>1
<1>4. \A w \in Worker : st'[w] \in Started => st'["claim"] = "Succeeded"
  BY <1>1, <1>2, <1>3 DEF Order
<1>5. st'["review"] \in Started => \A w \in Worker : st'[w] = "Succeeded"
  BY <1>1, <1>2, <1>3, Prerequisites DEF Order
<1>6. /\ st'["claim"] \in Started => st'["contract"] = "Succeeded"
      /\ st'["apply"] \in Started => st'["review"] = "Succeeded"
      /\ st'["finalize"] \in Started => st'["apply"] = "Succeeded" /\ st'["release"] = "Succeeded"
  BY <1>1, <1>2, <1>3, Prerequisites DEF Order
<1>7. st'["release"] \in Started => st'["apply"] \notin Unsure
  BY <1>1, <1>2 DEF Order, Started, Unsure
<1>8. st'["release"] = "Skipped" => st'["contract"] \in Unsuccessful
  BY <1>1, <1>2 DEF Order, Unsuccessful
<1>9. \A n \in MutationNode : st'[n] # "Cancelled"
  BY <1>1 DEF Order
<1> QED
  BY <1>1, <1>4, <1>5, <1>6, <1>7, <1>8, <1>9 DEF Order

-----------------------------------------------------------------------------
(* Types. *)

LEMMA InitInv == Init => IInv
<1> SUFFICES ASSUME Init PROVE IInv
  OBVIOUS
<1>1. \A n \in MutationNode : st[n] = "Pending"
  BY DEF Init, AllPending
<1>2. st \in [MutationNode -> NodeState]
  BY DEF Init, AllPending, NodeState
<1>3. TypeOK
  <2>1. failed \in BOOLEAN
    BY Zenon DEF Init
  <2> QED
    BY <1>2, <2>1, ParameterAssumption DEF Init, TypeOK, Place, EffectNode
<1>4. /\ Worker \subseteq MutationNode
      /\ {"contract", "claim", "review", "apply", "release", "finalize"} \subseteq MutationNode
  BY NodeNames DEF Stage
<1>5. Order
  BY <1>1, <1>4 DEF Order, Started
<1>6. Staffed
  BY <1>1, <1>4 DEF Init, Staffed, Started
<1>7. World
  BY <1>1, <1>4 DEF Init, World, Placed, Foretold, Known, SuccessMatchesWorld,
     ClaimsCoverUnknownEffects, EffectsForetold, EffectNode, Started, Unsure, BeforeClaim,
     Claiming, Proposing, Judging, Cleaning, Recovering
<1> QED
  BY <1>3, <1>5, <1>6, <1>7 DEF IInv

\* Nothing but a graph update changes the graph, and that keeps its type.
LEMMA TypeKept ==
  ASSUME TypeOK, GraphTyped', Next
  PROVE  TypeOK'
<1> USE DEF TypeOK, Place, Resting, Goto, File, EffectNode
<1>1. st' \in [MutationNode -> NodeState]
  BY DEF GraphTyped
<1>2. failed' \in BOOLEAN
  <2>1. CASE \E f \in File : ReleaseFile(f)
    BY <2>1, Zenon DEF ReleaseFile
  <2>2. CASE failed' = failed \/ failed' = TRUE \/ failed' = FALSE
    BY <2>2, Zenon
  <2>3. ~(\E f \in File : ReleaseFile(f)) => failed' = failed \/ failed' = TRUE \/ failed' = FALSE
    BY Zenon DEF Next, DriverStep, RecoveryStep, AdmitContract, ReturnDirect, ExceedWorkerLimit,
       RecordClaimIntents, AdmitClaim, MeetConflict, RecordClaimed, RecordClaimFailed,
       AdmitProposals, SettleStage, Settle, AdmitReview, FailPlan, RecordApplyIntents, AdmitApply,
       RecordApply, RecordReleaseIntents, AdmitRelease, RecordRelease, AdmitFinalize,
       RecordFinalize, RecordContract, RecordReview, RecordProposal, ClaimFile, FailClaimCall,
       FailReleaseCall, ApplyOperation, Recover, SettleRecovery, ReadFacts, FailFacts, Reconcile,
       Interrupt
  <2> QED
    BY <2>1, <2>2, <2>3
<1>3. CASE AdmitContract \/ ReturnDirect \/ ExceedWorkerLimit
  BY <1>1, <1>2, <1>3 DEF AdmitContract, ReturnDirect, ExceedWorkerLimit, Admit
<1>4. CASE RecordClaimIntents
  BY <1>1, <1>2, <1>4 DEF RecordClaimIntents, RecordIntents
<1>5. CASE AdmitClaim \/ AdmitApply
  BY <1>1, <1>2, <1>5 DEF AdmitClaim, AdmitApply, Admit
<1>6. CASE MeetConflict \/ RecordClaimed \/ RecordClaimFailed
  BY <1>1, <1>2, <1>6 DEF MeetConflict, RecordClaimed, RecordClaimFailed
<1>7. CASE AdmitProposals \/ SettleStage \/ SettleRecovery
  BY <1>1, <1>2, <1>7 DEF AdmitProposals, SettleStage, SettleRecovery, Settle
<1>8. CASE AdmitReview \/ AdmitFinalize \/ FailPlan
  BY <1>1, <1>2, <1>8 DEF AdmitReview, AdmitFinalize, FailPlan, Admit
<1>9. CASE RecordApplyIntents \/ RecordReleaseIntents
  BY <1>1, <1>2, <1>9 DEF RecordApplyIntents, RecordReleaseIntents, RecordIntents
<1>10. CASE RecordApply \/ RecordRelease \/ RecordFinalize
  BY <1>1, <1>2, <1>10 DEF RecordApply, RecordRelease, RecordFinalize
<1>11. CASE AdmitRelease
  BY <1>1, <1>2, <1>11 DEF AdmitRelease, Admit
<1>12. ASSUME NEW o \in {"Succeeded", "Failed"}, RecordContract(o) \/ RecordReview(o)
       PROVE  TypeOK'
  BY <1>1, <1>2, <1>12 DEF RecordContract, RecordReview
<1>13. ASSUME NEW o \in {"Succeeded", "Failed"}, NEW w \in Worker, RecordProposal(w, o)
       PROVE  TypeOK'
  BY <1>1, <1>2, <1>13 DEF RecordProposal
<1>14. ASSUME NEW f \in File, ClaimFile(f) \/ ReleaseFile(f)
       PROVE  TypeOK'
  BY <1>1, <1>2, <1>14 DEF ClaimFile, ReleaseFile
<1>15. ASSUME NEW f \in File, NEW b \in BOOLEAN,
              FailClaimCall(f, b) \/ FailReleaseCall(f, b) \/ ApplyOperation(f, b)
       PROVE  TypeOK'
  BY <1>1, <1>2, <1>15 DEF FailClaimCall, FailReleaseCall, ApplyOperation
<1>16. CASE Recover \/ ReadFacts \/ FailFacts
  BY <1>1, <1>2, <1>16 DEF Recover, ReadFacts, FailFacts
<1>17. ASSUME NEW n \in MutationNode, NEW d \in Decision, Reconcile(n, d)
       PROVE  TypeOK'
  BY <1>1, <1>2, <1>17 DEF Reconcile
<1>18. CASE Interrupt
  BY <1>1, <1>2, <1>18, ParameterAssumption DEF Interrupt
<1> QED
  BY <1>3, <1>4, <1>5, <1>6, <1>7, <1>8, <1>9, <1>10, <1>11, <1>12, <1>13, <1>14, <1>15, <1>16,
     <1>17, <1>18 DEF Next, DriverStep, RecoveryStep

-----------------------------------------------------------------------------
(* The driver's steps.  Each lemma first says what becomes of the graph.     *)

Kept == GraphTyped' /\ Order' /\ World'

LEMMA Named ==
  /\ Worker \subseteq MutationNode
  /\ Stage \subseteq MutationNode
  /\ Stage = {"contract", "claim", "review", "apply", "release", "finalize"}
  /\ \A n \in Stage : n \notin Worker
  BY NodeNames DEF Stage

\* A step that leaves the graph, the intents and the claims alone.
LEMMA SameGraph ==
  ASSUME IInv, UNCHANGED st
  PROVE  GraphTyped' /\ Order'
  BY DEF IInv, TypeOK, GraphTyped, Order

\* admit_node for a stage: it starts, or the driver returns.
LEMMA AdmitStage ==
  ASSUME IInv, NEW n \in Stage, NEW from, NEW to, Admit(n, from, to),
         n = "apply" => st["release"] \notin Started,
         n = "release" => st["apply"] \notin Unsure
  PROVE  /\ GraphTyped' /\ Order' /\ pc = from
         /\ \/ pc' = "returned" /\ UNCHANGED st
            \/ /\ pc' = to
               /\ st[n] = "Pending" /\ st'[n] = "Running"
               /\ \A m \in MutationNode \ {n} : st'[m] = st[m]
<1>1. CASE CanStartBatch(st, {n})
  <2>1. st' = StartReadyBatch(st, {n}) /\ pc' = to /\ pc = from
    BY <1>1 DEF Admit
  <2>2. {n} \cap Worker = {}
    BY Named
  <2>3. GraphTyped /\ Order
    BY DEF IInv, TypeOK, GraphTyped
  <2> QED
    BY <1>1, <2>1, <2>2, <2>3, OrderStart
<1>2. CASE ~CanStartBatch(st, {n})
  BY <1>2, SameGraph DEF Admit
<1> QED
  BY <1>1, <1>2

\* record_outcome for a node that ran.
LEMMA RecordNode ==
  ASSUME IInv, NEW n \in MutationNode, NEW o \in Decision, Record(n, o)
  PROVE  /\ GraphTyped' /\ Order'
         /\ st[n] = "Running" /\ st'[n] = o
         /\ \A m \in MutationNode \ {n} : st'[m] = st[m]
<1>1. st[n] \in Unsure /\ st' = SetState(st, n, o)
  BY DEF Record, Unsure
<1>2. GraphTyped /\ Order
  BY DEF IInv, TypeOK, GraphTyped
<1> QED
  BY <1>1, <1>2, OrderEnd DEF Record

LEMMA SettleGraph ==
  ASSUME IInv, st' = SettleUnreachable(st)
  PROVE  /\ GraphTyped' /\ Order'
         /\ \A m \in MutationNode : \/ st'[m] = st[m]
                                    \/ st[m] = "Pending" /\ st'[m] = "Skipped"
  BY OrderSettle, SettleNodes DEF IInv, TypeOK, GraphTyped

LEMMA ContractKept ==
  ASSUME IInv,
         \/ AdmitContract \/ ReturnDirect \/ ExceedWorkerLimit \/ RecordClaimIntents
         \/ \E o \in Decision : RecordContract(o)
  PROVE  Kept
<1> USE DEF World, Placed, Foretold, Known, SuccessMatchesWorld, ClaimsCoverUnknownEffects,
        EffectsForetold, Started, Unsure, BeforeClaim, Claiming, Proposing, Judging, Cleaning,
        Recovering, File, Goto
<1>1. CASE AdmitContract
  <2>1. /\ GraphTyped' /\ Order'
        /\ \/ pc' = "returned" /\ UNCHANGED st
           \/ /\ pc' = "validating"
              /\ \A m \in MutationNode \ {"contract"} : st'[m] = st[m]
    BY <1>1, AdmitStage, Named DEF AdmitContract
  <2> QED
    BY <1>1, <2>1, Named DEF AdmitContract, Admit, Kept, IInv, Order
<1>2. CASE ReturnDirect \/ ExceedWorkerLimit
  BY <1>2, SameGraph, Named DEF ReturnDirect, ExceedWorkerLimit, Kept, IInv
<1>3. CASE RecordClaimIntents
  <2>1. intents'["claim"] = Worker /\ intents'["apply"] = intents["apply"]
        /\ intents'["release"] = intents["release"]
    BY <1>3 DEF RecordClaimIntents, RecordIntents, IInv, TypeOK, EffectNode
  <2>2. claims = {}
    BY <1>3 DEF RecordClaimIntents, IInv
  <2> QED
    BY <1>3, <2>1, <2>2, SameGraph, Named DEF RecordClaimIntents, Kept, IInv
<1>4. ASSUME NEW o \in Decision, RecordContract(o) PROVE Kept
  <2>1. /\ GraphTyped' /\ Order'
        /\ \A m \in MutationNode \ {"contract"} : st'[m] = st[m]
    BY <1>4, RecordNode, Named DEF RecordContract
  <2> QED
    BY <1>4, <2>1, Named DEF RecordContract, Kept, IInv
<1> QED
  BY <1>1, <1>2, <1>3, <1>4

LEMMA ClaimKept ==
  ASSUME IInv,
         \/ AdmitClaim \/ MeetConflict \/ RecordClaimed \/ RecordClaimFailed
         \/ \E f \in File : ClaimFile(f) \/ \E b \in BOOLEAN : FailClaimCall(f, b)
  PROVE  Kept
<1> USE DEF World, Placed, Foretold, Known, SuccessMatchesWorld, ClaimsCoverUnknownEffects,
        EffectsForetold, Started, Unsure, BeforeClaim, Claiming, Proposing, Judging, Cleaning,
        Recovering, File, Goto
<1>1. CASE AdmitClaim
  <2>1. /\ GraphTyped' /\ Order' /\ pc = "claimAdmit"
        /\ \/ pc' = "returned" /\ UNCHANGED st
           \/ /\ pc' = "claiming" /\ st'["claim"] = "Running"
              /\ \A m \in MutationNode \ {"claim"} : st'[m] = st[m]
    BY <1>1, AdmitStage, Named DEF AdmitClaim
  <2>2. claims = {} /\ active = {} /\ todo' = Worker
        /\ UNCHANGED <<intents, claims, active, written>>
    BY <1>1, <2>1 DEF AdmitClaim, IInv
  <2> QED
    BY <2>1, <2>2, Named DEF Kept, IInv
<1>2. CASE MeetConflict
  BY <1>2, SameGraph, Named DEF MeetConflict, Kept, IInv
<1>3. CASE RecordClaimed
  <2>1. /\ GraphTyped' /\ Order' /\ st["claim"] = "Running" /\ st'["claim"] = "Succeeded"
        /\ \A m \in MutationNode \ {"claim"} : st'[m] = st[m]
    BY <1>3, RecordNode, Named DEF RecordClaimed, Decision
  <2>2. claims = active /\ claims = Worker
    BY <1>3 DEF RecordClaimed, IInv
  <2> QED
    BY <1>3, <2>1, <2>2, Named DEF RecordClaimed, Kept, IInv
<1>4. CASE RecordClaimFailed
  <2>1. /\ GraphTyped' /\ Order' /\ st["claim"] = "Running" /\ st'["claim"] = "Failed"
        /\ \A m \in MutationNode \ {"claim"} : st'[m] = st[m]
    BY <1>4, RecordNode, Named DEF RecordClaimFailed, Decision
  <2>2. \A w \in Worker : st[w] \notin Started
    BY <2>1 DEF IInv, Order
  <2> QED
    BY <1>4, <2>1, <2>2, Named DEF RecordClaimFailed, Kept, IInv
<1>5. ASSUME NEW f \in File, ClaimFile(f) PROVE Kept
  <2>1. st["release"] \notin Started /\ st["claim"] = "Running"
    BY <1>5 DEF ClaimFile, IInv
  <2> QED
    BY <1>5, <2>1, SameGraph, Named DEF ClaimFile, Kept, IInv, TypeOK
<1>6. ASSUME NEW f \in File, NEW b \in BOOLEAN, FailClaimCall(f, b) PROVE Kept
  <2>1. st["release"] \notin Started /\ st["claim"] = "Running"
    BY <1>6 DEF FailClaimCall, IInv
  <2> QED
    BY <1>6, <2>1, SameGraph, Named DEF FailClaimCall, Kept, IInv, TypeOK
<1> QED
  BY <1>1, <1>2, <1>3, <1>4, <1>5, <1>6

LEMMA WorkKept ==
  ASSUME IInv,
         \/ AdmitProposals
         \/ \E o \in Decision, w \in Worker : RecordProposal(w, o)
  PROVE  Kept
<1> USE DEF World, Placed, Foretold, Known, SuccessMatchesWorld, ClaimsCoverUnknownEffects,
        EffectsForetold, Started, Unsure, BeforeClaim, Claiming, Proposing, Judging, Cleaning,
        Recovering, File, Goto
<1>1. CASE AdmitProposals
  <2>1. NextBatch \subseteq Worker
    BY DEF NextBatch, Worker
  <2>2. st["claim"] = "Succeeded" /\ claims = Worker /\ st["release"] \notin Started
    BY <1>1 DEF AdmitProposals, IInv
  <2>3. "apply" \notin NextBatch /\ "release" \notin NextBatch
    BY <2>1, Named
  <2>4. /\ CanStartBatch(st, NextBatch) /\ st' = StartReadyBatch(st, NextBatch)
        /\ pc = "propose" /\ pc' = "proposing"
        /\ UNCHANGED <<intents, claims, written, todo, active, failed>>
    BY <1>1 DEF AdmitProposals
  <2>5. /\ GraphTyped' /\ Order'
        /\ \A m \in MutationNode \ NextBatch : st'[m] = st[m]
    BY <2>2, <2>3, <2>4, OrderStart DEF IInv, TypeOK, GraphTyped
  <2>6. \A m \in Stage : st'[m] = st[m]
    BY <2>1, <2>5, Named
  <2> QED
    BY <2>2, <2>4, <2>5, <2>6, Named DEF Kept, IInv
<1>2. ASSUME NEW o \in Decision, NEW w \in Worker, RecordProposal(w, o) PROVE Kept
  <2>1. /\ GraphTyped' /\ Order' /\ st[w] = "Running" /\ st'[w] = o
        /\ \A m \in MutationNode \ {w} : st'[m] = st[m]
    BY <1>2, RecordNode, Named DEF RecordProposal
  <2>2. \A m \in Stage : st'[m] = st[m]
    BY <2>1, Named
  <2>3. pc = "proposing" /\ UNCHANGED <<intents, claims, written, todo, active, failed>>
    BY <1>2 DEF RecordProposal
  <2>4. \/ pc' \in {"proposing", "propose"}
        \/ pc' = "settleWork" /\ \A v \in Worker : st'[v] # "Running"
    BY <1>2 DEF RecordProposal
  <2>5. st["claim"] = "Succeeded" /\ claims = Worker
    BY <2>3 DEF IInv
  <2> QED
    BY <2>1, <2>2, <2>3, <2>4, <2>5, Named DEF Kept, IInv
<1> QED
  BY <1>1, <1>2

LEMMA SettleKept ==
  ASSUME IInv, SettleStage \/ SettleRecovery
  PROVE  Kept
<1> USE DEF World, Placed, Foretold, Known, SuccessMatchesWorld, ClaimsCoverUnknownEffects,
        EffectsForetold, Started, Unsure, BeforeClaim, Claiming, Proposing, Judging, Cleaning,
        Recovering, File, Goto
<1>1. /\ st' = SettleUnreachable(st)
      /\ UNCHANGED <<intents, claims, written, todo, active, failed>>
  BY DEF SettleStage, SettleRecovery, Settle
<1>2. /\ GraphTyped' /\ Order'
      /\ \A m \in MutationNode : \/ st'[m] = st[m]
                                 \/ st[m] = "Pending" /\ st'[m] = "Skipped"
  BY <1>1, SettleGraph
<1>3. /\ \A w \in Worker : st'[w] = "Running" => st[w] = "Running"
      /\ st'["claim"] \in Started <=> st["claim"] \in Started
      /\ st'["claim"] = "Succeeded" <=> st["claim"] = "Succeeded"
      /\ st'["apply"] \in Unsure <=> st["apply"] \in Unsure
      /\ st'["apply"] = "Succeeded" <=> st["apply"] = "Succeeded"
      /\ st'["release"] \in Started <=> st["release"] \in Started
      /\ st'["release"] = "Succeeded" <=> st["release"] = "Succeeded"
  BY <1>2, Named
<1>4. \/ pc = "settleBlocked" /\ pc' = "returned"
      \/ pc = "settleWork" /\ pc' \in {"review", "settleReview"}
      \/ pc = "settleReview" /\ pc' = "applyIntents"
      \/ pc = "settleReview" /\ pc' = "settleApply" /\ st["review"] # "Succeeded"
      \/ pc = "settleApply" /\ pc' = "releaseIntents"
      \/ pc = "settleRelease" /\ pc' \in {"finalize", "returned"}
      \/ pc = "settleRecovery" /\ pc' \in {"facts", "finalize", "returned"}
  BY DEF SettleStage, SettleRecovery, Settle
<1>5. pc = "settleReview" /\ st["review"] # "Succeeded" => st["apply"] \notin Unsure
  BY DEF IInv, Order
<1> QED
  BY <1>1, <1>2, <1>3, <1>4, <1>5, Named DEF Kept, IInv

LEMMA ReviewKept ==
  ASSUME IInv, AdmitReview \/ FailPlan \/ (\E o \in Decision : RecordReview(o))
  PROVE  Kept
<1> USE DEF World, Placed, Foretold, Known, SuccessMatchesWorld, ClaimsCoverUnknownEffects,
        EffectsForetold, Started, Unsure, BeforeClaim, Claiming, Proposing, Judging, Cleaning,
        Recovering, File, Goto
<1>1. CASE AdmitReview
  <2>1. /\ GraphTyped' /\ Order' /\ pc = "review"
        /\ \/ pc' = "returned" /\ UNCHANGED st
           \/ /\ pc' = "reviewing"
              /\ \A m \in MutationNode \ {"review"} : st'[m] = st[m]
    BY <1>1, AdmitStage, Named DEF AdmitReview
  <2>2. UNCHANGED <<intents, claims, written, todo, active, failed>>
    BY <1>1 DEF AdmitReview
  <2> QED
    BY <2>1, <2>2, Named DEF Kept, IInv
<1>2. CASE FailPlan
  BY <1>2, SameGraph, Named DEF FailPlan, Kept, IInv
<1>3. ASSUME NEW o \in Decision, RecordReview(o) PROVE Kept
  <2>1. /\ GraphTyped' /\ Order'
        /\ \A m \in MutationNode \ {"review"} : st'[m] = st[m]
    BY <1>3, RecordNode, Named DEF RecordReview
  <2> QED
    BY <1>3, <2>1, Named DEF RecordReview, Kept, IInv
<1> QED
  BY <1>1, <1>2, <1>3

LEMMA ApplyKept ==
  ASSUME IInv,
         \/ RecordApplyIntents \/ AdmitApply \/ RecordApply
         \/ \E f \in File, b \in BOOLEAN : ApplyOperation(f, b)
  PROVE  Kept
<1> USE DEF World, Placed, Foretold, Known, SuccessMatchesWorld, ClaimsCoverUnknownEffects,
        EffectsForetold, Started, Unsure, BeforeClaim, Claiming, Proposing, Judging, Cleaning,
        Recovering, File, Goto
<1>1. CASE RecordApplyIntents
  <2>1. intents'["apply"] = Worker /\ intents'["claim"] = intents["claim"]
        /\ intents'["release"] = intents["release"]
    BY <1>1 DEF RecordApplyIntents, RecordIntents, IInv, TypeOK, EffectNode
  <2>2. written \in SUBSET Worker
    BY DEF IInv, TypeOK
  <2> QED
    BY <1>1, <2>1, <2>2, SameGraph, Named DEF RecordApplyIntents, Kept, IInv
<1>2. CASE AdmitApply
  <2>1. /\ GraphTyped' /\ Order' /\ pc = "applyAdmit"
        /\ \/ pc' = "returned" /\ UNCHANGED st
           \/ /\ pc' = "applying" /\ st'["apply"] = "Running"
              /\ \A m \in MutationNode \ {"apply"} : st'[m] = st[m]
    BY <1>2, AdmitStage, Named DEF AdmitApply, IInv, Admit
  <2>2. UNCHANGED <<intents, claims, written, active, failed>>
    BY <1>2 DEF AdmitApply
  <2>3. st'["apply"] = "Running" => st'["claim"] = "Succeeded"
    BY <2>1, NodeNames, SomeWorker DEF Order, IInv, Staffed, Resting
  <2>4. pc' = "applying" => claims = Worker
    BY <2>1, <2>3, Named DEF IInv
  <2> QED
    BY <2>1, <2>2, <2>4, Named DEF Kept, IInv
<1>3. CASE RecordApply
  <2>1. IF written = Worker THEN Record("apply", "Succeeded") ELSE Record("apply", "Failed")
    BY <1>3 DEF RecordApply
  <2>2. /\ GraphTyped' /\ Order'
        /\ st'["apply"] = IF written = Worker THEN "Succeeded" ELSE "Failed"
        /\ \A m \in MutationNode \ {"apply"} : st'[m] = st[m]
    BY <2>1, RecordNode, Named DEF Decision
  <2>3. /\ pc = "applying" /\ pc' = "settleApply"
        /\ UNCHANGED <<intents, claims, written, todo, active, failed>>
    BY <1>3 DEF RecordApply
  <2> QED
    BY <2>2, <2>3, Named DEF Kept, IInv
<1>4. ASSUME NEW f \in File, NEW b \in BOOLEAN, ApplyOperation(f, b) PROVE Kept
  <2>1. written \in SUBSET Worker /\ written \subseteq written' /\ written' \in SUBSET Worker
    BY <1>4 DEF ApplyOperation, IInv, TypeOK
  <2>2. pc = "applying" /\ UNCHANGED <<st, intents, claims, pc, active, failed>>
    BY <1>4 DEF ApplyOperation
  <2>3. GraphTyped' /\ Order'
    BY <2>2, SameGraph
  <2>4. intents["apply"] = Worker
    BY <2>2 DEF IInv
  <2> QED
    BY <2>1, <2>2, <2>3, <2>4, Named DEF Kept, IInv
<1> QED
  BY <1>1, <1>2, <1>3, <1>4

\* Files are given up after a conflict, after a failed request and by the release
\* node, and never while a worker runs or the outcome of the patch is open.
LEMMA NothingAtStake ==
  ASSUME IInv, Releasing
  PROVE  /\ \A w \in Worker : st[w] # "Running"
         /\ st["apply"] \notin Unsure
<1>1. CASE pc = "releasing"
  BY <1>1 DEF IInv, World, Placed, Cleaning
<1>2. CASE pc \in {"conflict", "claimError"}
  <2>1. st["claim"] = "Running"
    BY <1>2 DEF IInv, World, Placed, Claiming
  <2>2. \A w \in Worker : st[w] \notin Started
    BY <2>1 DEF IInv, Order
  <2> QED
    BY <1>2, <2>2, SomeWorker DEF IInv, Order, Staffed, Resting, Started, Unsure
<1> QED
  BY <1>1, <1>2 DEF Releasing

LEMMA ReleaseKept ==
  ASSUME IInv,
         \/ RecordReleaseIntents \/ AdmitRelease \/ RecordRelease
         \/ \E f \in File : ReleaseFile(f) \/ \E b \in BOOLEAN : FailReleaseCall(f, b)
  PROVE  Kept
<1> USE DEF World, Placed, Foretold, Known, SuccessMatchesWorld, ClaimsCoverUnknownEffects,
        EffectsForetold, Started, Unsure, BeforeClaim, Claiming, Proposing, Judging, Cleaning,
        Recovering, File, Goto
<1>1. CASE RecordReleaseIntents
  <2>1. /\ pc = "releaseIntents" /\ pc' \in {"releaseAdmit", "returned"}
        /\ UNCHANGED <<st, claims, written, todo, active, failed>>
    BY <1>1 DEF RecordReleaseIntents, RecordIntents
  <2>2. GraphTyped' /\ Order'
    BY <2>1, SameGraph
  <2>3. \/ intents' = intents
        \/ /\ active # {} /\ intents'["release"] = active
           /\ intents'["claim"] = intents["claim"] /\ intents'["apply"] = intents["apply"]
    BY <1>1 DEF RecordReleaseIntents, RecordIntents, IInv, TypeOK, EffectNode
  <2>4. active # {} => claims \subseteq active
    BY <2>1 DEF IInv
  <2> QED
    BY <2>1, <2>2, <2>3, <2>4, Named DEF Kept, IInv
<1>2. CASE AdmitRelease
  <2>1. /\ GraphTyped' /\ Order' /\ pc = "releaseAdmit"
        /\ \/ pc' = "returned" /\ UNCHANGED st
           \/ /\ pc' = "releasing" /\ st'["release"] = "Running"
              /\ \A m \in MutationNode \ {"release"} : st'[m] = st[m]
    BY <1>2, AdmitStage, Named DEF AdmitRelease, IInv, Admit
  <2>2. todo' = active /\ UNCHANGED <<intents, claims, written, active, failed>>
    BY <1>2 DEF AdmitRelease
  <2> QED
    BY <2>1, <2>2, Named DEF Kept, IInv
<1>3. CASE RecordRelease
  <2>1. IF failed THEN Record("release", "Failed") ELSE Record("release", "Succeeded")
    BY <1>3 DEF RecordRelease
  <2>2. /\ GraphTyped' /\ Order'
        /\ st'["release"] = "Succeeded" => ~failed
        /\ \A m \in MutationNode \ {"release"} : st'[m] = st[m]
    BY <2>1, RecordNode, Named DEF Decision
  <2>3. /\ pc = "releasing" /\ pc' = "settleRelease" /\ todo = {}
        /\ UNCHANGED <<intents, claims, written, todo, active, failed>>
    BY <1>3 DEF RecordRelease
  <2> QED
    BY <2>2, <2>3, Named DEF Kept, IInv
<1>4. ASSUME NEW f \in File,
             ReleaseFile(f) \/ \E b \in BOOLEAN : FailReleaseCall(f, b)
      PROVE  Kept
  <2>1. /\ Releasing /\ UNCHANGED <<st, intents, written, pc, active>>
        /\ claims' \subseteq claims /\ todo' = todo \ {f}
    BY <1>4 DEF ReleaseFile, FailReleaseCall
  <2>2. failed' \/ (f \notin claims' /\ (failed => failed'))
    BY <1>4, Zenon DEF ReleaseFile, FailReleaseCall
  <2>3. GraphTyped' /\ Order'
    BY <2>1, SameGraph
  <2>4. pc \in {"conflict", "claimError", "releasing"}
    BY <2>1 DEF Releasing
  <2>5. failed' \/ claims' \subseteq todo' \/ pc = "claimError"
    BY <2>1, <2>2, <2>4 DEF IInv
  <2> QED
    BY <2>1, <2>3, <2>4, <2>5, NothingAtStake, Named DEF Kept, IInv
<1> QED
  BY <1>1, <1>2, <1>3, <1>4

LEMMA FinalizeKept ==
  ASSUME IInv, AdmitFinalize \/ RecordFinalize
  PROVE  Kept
<1> USE DEF World, Placed, Foretold, Known, SuccessMatchesWorld, ClaimsCoverUnknownEffects,
        EffectsForetold, Started, Unsure, BeforeClaim, Claiming, Proposing, Judging, Cleaning,
        Recovering, File, Goto
<1>1. CASE AdmitFinalize
  <2>1. /\ GraphTyped' /\ Order' /\ pc' \in {"returned", "finalizing"}
        /\ \A m \in MutationNode \ {"finalize"} : st'[m] = st[m]
    BY <1>1, AdmitStage, Named DEF AdmitFinalize
  <2>2. UNCHANGED <<intents, claims, written, todo, active, failed>>
    BY <1>1 DEF AdmitFinalize
  <2> QED
    BY <2>1, <2>2, Named DEF Kept, IInv
<1>2. CASE RecordFinalize
  <2>1. /\ GraphTyped' /\ Order'
        /\ \A m \in MutationNode \ {"finalize"} : st'[m] = st[m]
    BY <1>2, RecordNode, Named DEF RecordFinalize, Decision
  <2> QED
    BY <1>2, <2>1, Named DEF RecordFinalize, Kept, IInv
<1> QED
  BY <1>1, <1>2

\* While the outcome of the patch is open, no other node requires recovery: a
\* recovery that decides any node decides that one first.
LEMMA OpenPatchFirst ==
  ASSUME IInv, st["apply"] \in Unsure, NEW n \in MutationNode, st[n] \in Unsure
  PROVE  n = "apply"
<1>1. st["review"] = "Succeeded" /\ \A w \in Worker : st[w] = "Succeeded"
  BY DEF IInv, Order, Started, Unsure
<1>2. st["claim"] = "Succeeded" /\ st["contract"] = "Succeeded"
  <2>1. Worker # {}
    BY SomeWorker, Named DEF IInv, Staffed, Started, Unsure
  <2> QED
    BY <1>1, <2>1 DEF IInv, Order, Started
<1>3. st["release"] \notin Unsure /\ st["finalize"] \notin Unsure
  BY DEF IInv, Order, Started, Unsure
<1> QED
  BY <1>1, <1>2, <1>3, Named, NodeNames DEF Unsure

\* A fact that confirms a node is a fact about the world.
LEMMA FactsAreTrue ==
  ASSUME IInv, NEW n \in MutationNode, st[n] \in Unsure, Assess(n) = "Succeeded"
  PROVE  /\ n = "apply" => written = File
         /\ n = "release" => claims = {}
<1>1. ASSUME NEW agree, NEW all, Verdict(agree, all) = "Succeeded"
      PROVE  all # {} /\ agree = all
  BY <1>1 DEF Verdict
<1>2. CASE n = "apply"
  <2>1. written \cap intents["apply"] = intents["apply"]
    BY <1>1, <1>2 DEF Assess
  <2> QED
    BY <1>2, <2>1 DEF IInv, TypeOK, World, Foretold
<1>3. CASE n = "release"
  <2>1. Assess(n) = Verdict(intents["release"] \ claims, intents["release"])
    BY <1>3 DEF Assess
  <2>2. intents["release"] # {} /\ intents["release"] \ claims = intents["release"]
    BY <1>1, <2>1
  <2> QED
    BY <1>3, <2>2 DEF IInv, World, Foretold
<1> QED
  BY <1>2, <1>3

LEMMA RecoveryKept ==
  ASSUME IInv,
         \/ Recover \/ ReadFacts \/ FailFacts \/ Interrupt
         \/ \E n \in MutationNode, d \in Decision : Reconcile(n, d)
  PROVE  Kept
<1> USE DEF World, Placed, Foretold, Known, SuccessMatchesWorld, ClaimsCoverUnknownEffects,
        EffectsForetold, Started, Unsure, BeforeClaim, Claiming, Proposing, Judging, Cleaning,
        Recovering, File, Goto
<1>1. CASE Recover
  <2>1. st' = RecoverFromCheckpoint(st) /\ pc' = "recovered"
        /\ UNCHANGED <<intents, claims, written>>
    BY <1>1 DEF Recover
  <2>2. /\ GraphTyped' /\ Order'
        /\ \A n \in MutationNode :
              /\ st'[n] # "Running"
              /\ st'[n] \in Started <=> st[n] \in Started
              /\ st'[n] = "Succeeded" <=> st[n] = "Succeeded"
              /\ st'[n] \in Unsure <=> st[n] \in Unsure
    BY <2>1, OrderRecover DEF IInv, TypeOK, GraphTyped
  <2> QED
    BY <2>1, <2>2, Named DEF Kept, IInv
<1>2. CASE ReadFacts
  <2>1. /\ pc = "facts" /\ pc' = "releaseIntents" /\ active' = claims \cap intents["claim"]
        /\ UNCHANGED <<st, intents, claims, written, todo, failed>>
    BY <1>2 DEF ReadFacts
  <2>2. GraphTyped' /\ Order'
    BY <2>1, SameGraph
  <2>3. claims \subseteq active'
    BY <2>1 DEF IInv
  <2> QED
    BY <2>1, <2>2, <2>3, Named DEF Kept, IInv
<1>3. CASE FailFacts
  BY <1>3, SameGraph, Named DEF FailFacts, Kept, IInv
<1>4. CASE Interrupt
  BY <1>4, SameGraph, Named DEF Interrupt, Kept, IInv
<1>5. ASSUME NEW n \in MutationNode, NEW d \in Decision, Reconcile(n, d) PROVE Kept
  <2>1. /\ pc = "recovered" /\ pc' = "settleRecovery" /\ st[n] \in Unsure
        /\ d = Assess(n) \/ d = "Failed"
        /\ st' = SetState(st, n, d)
        /\ UNCHANGED <<intents, claims, written, todo, active, failed>>
    BY <1>5 DEF Reconcile, CanReconcile
  <2>2. /\ GraphTyped' /\ Order' /\ st'[n] = d
        /\ \A m \in MutationNode \ {n} : st'[m] = st[m]
    BY <2>1, OrderEnd DEF IInv, TypeOK, GraphTyped
  <2>3. d \in {"Succeeded", "Failed"}
    BY DEF Decision
  <2>4. st'["apply"] \notin Unsure
    BY <2>1, <2>2, <2>3, OpenPatchFirst, Named
  <2>5. /\ st'["apply"] = "Succeeded" => written = Worker
        /\ st'["release"] = "Succeeded" => claims = {}
    BY <2>1, <2>2, <2>3, FactsAreTrue, Named DEF IInv
  <2>6. /\ \A w \in Worker : st'[w] # "Running"
        /\ st'["claim"] \in Started <=> st["claim"] \in Started
    BY <2>1, <2>2, <2>3, Named DEF IInv
  <2> QED
    BY <2>1, <2>2, <2>4, <2>5, <2>6, Named DEF Kept, IInv
<1> QED
  BY <1>1, <1>2, <1>3, <1>4, <1>5

-----------------------------------------------------------------------------

\* Without an assignment there is no work to begin: a recovery may only give the
\* contract up.
LEMMA StaffedKept == IInv /\ [Next]_vars => Staffed'
<1> SUFFICES ASSUME IInv, [Next]_vars, Roster = <<>>
             PROVE  /\ pc' \in {"contract", "validating", "settleBlocked", "settleRecovery"}
                               \cup Resting
                    /\ st'["contract"] # "Succeeded"
                    /\ \A n \in MutationNode \ {"contract"} : st'[n] \notin Started
  BY DEF Staffed
<1>1. /\ pc \in {"contract", "validating", "settleBlocked", "settleRecovery"} \cup Resting
      /\ st["contract"] # "Succeeded"
      /\ \A n \in MutationNode \ {"contract"} : st[n] \notin Started
      /\ st \in [MutationNode -> NodeState]
  BY DEF IInv, Staffed, TypeOK
<1>2. /\ Worker = {} /\ File = {}
      /\ {"contract", "release", "finalize", "apply"} \subseteq MutationNode
  BY Named DEF Worker, File
<1> USE DEF Resting, Goto
<1>3. CASE UNCHANGED vars
  BY <1>1, <1>3 DEF vars
<1>4. CASE AdmitContract
  BY <1>1, <1>2, <1>4, AdmitStage, Named DEF AdmitContract
<1>5. CASE RecordContract("Failed")
  <2>1. /\ pc' = "settleBlocked" /\ st'["contract"] = "Failed"
        /\ \A m \in MutationNode \ {"contract"} : st'[m] = st[m]
    BY <1>2, <1>5, RecordNode DEF RecordContract, Decision
  <2> QED
    BY <1>1, <2>1
<1>6. CASE ReturnDirect \/ Interrupt
  BY <1>1, <1>6 DEF ReturnDirect, Interrupt
<1>7. CASE SettleStage \/ SettleRecovery
  <2>1. st' = SettleUnreachable(st)
    BY <1>7 DEF SettleStage, SettleRecovery, Settle
  <2>2. /\ \A m \in MutationNode : st'[m] = st[m] \/ (st[m] = "Pending" /\ st'[m] = "Skipped")
        /\ st'["contract"] # "Succeeded" /\ st'["apply"] # "Succeeded"
    BY <1>1, <1>2, <2>1, SettleNodes DEF Started
  <2>3. ~ IsReady("release") /\ ~ IsReady("finalize")
    BY <2>1, <2>2, Prerequisites DEF IsReady, ReadyNodeIds
  <2>4. pc' = "returned"
    BY <1>1, <1>7, <2>3 DEF SettleStage, SettleRecovery, Settle
  <2> QED
    BY <1>1, <2>2, <2>4 DEF Started
<1>8. CASE Recover
  <2>1. st' = RecoverFromCheckpoint(st) /\ pc' = "recovered" /\ GraphTyped /\ Order
    BY <1>8 DEF Recover, IInv, TypeOK, GraphTyped
  <2>2. \A n \in MutationNode :
          /\ st'[n] \in Started <=> st[n] \in Started
          /\ st'[n] = "Succeeded" <=> st[n] = "Succeeded"
    BY <2>1, OrderRecover
  <2> QED
    BY <1>1, <1>2, <2>1, <2>2
<1>9. ASSUME NEW n \in MutationNode, NEW d \in Decision, Reconcile(n, d)
      PROVE  /\ pc' = "settleRecovery" /\ st'["contract"] # "Succeeded"
             /\ \A m \in MutationNode \ {"contract"} : st'[m] \notin Started
  <2>1. n = "contract" /\ pc' = "settleRecovery"
    BY <1>1, <1>9 DEF Reconcile, CanReconcile, Started
  <2>2. d = "Failed"
    BY <1>9, <2>1 DEF Reconcile, Assess, Decision
  <2>3. st'["contract"] = "Failed" /\ \A m \in MutationNode \ {"contract"} : st'[m] = st[m]
    BY <1>1, <1>2, <1>9, <2>1, <2>2, SetNodes DEF Reconcile, NodeState
  <2> QED
    BY <1>1, <2>1, <2>3
<1>10. CASE Next
  <2>1. \/ AdmitContract \/ RecordContract("Failed") \/ ReturnDirect \/ Interrupt
        \/ SettleStage \/ SettleRecovery \/ Recover
        \/ \E n \in MutationNode, d \in Decision : Reconcile(n, d)
    BY <1>1, <1>2, <1>10 DEF Next, DriverStep, RecoveryStep, ExceedWorkerLimit,
       RecordClaimIntents, AdmitClaim, MeetConflict, RecordClaimed, RecordClaimFailed,
       AdmitProposals, AdmitReview, FailPlan, RecordApplyIntents, AdmitApply, RecordApply,
       RecordReleaseIntents, AdmitRelease, RecordRelease, AdmitFinalize, RecordFinalize,
       RecordContract, RecordReview, ReadFacts, FailFacts, Admit
  <2> QED
    BY <1>4, <1>5, <1>6, <1>7, <1>8, <1>9, <2>1
<1> QED
  BY <1>3, <1>10

LEMMA StepInv == IInv /\ [Next]_vars => IInv'
<1> SUFFICES ASSUME IInv, [Next]_vars PROVE IInv'
  OBVIOUS
<1>1. CASE UNCHANGED vars
  BY <1>1, StaffedKept DEF vars, IInv, TypeOK, Order, World, Placed, Foretold, EffectsForetold,
     Known, SuccessMatchesWorld, ClaimsCoverUnknownEffects
<1>2. CASE Next
  <2>1. Kept
    BY <1>2, ContractKept, ClaimKept, WorkKept, SettleKept, ReviewKept, ApplyKept, ReleaseKept,
       FinalizeKept, RecoveryKept DEF Next, DriverStep, RecoveryStep, Decision
  <2>2. TypeOK'
    BY <1>2, <2>1, TypeKept DEF IInv, Kept
  <2> QED
    BY <2>1, <2>2, StaffedKept DEF Kept, IInv
<1> QED
  BY <1>1, <1>2

LEMMA SpecInv == Spec => []IInv
  BY InitInv, StepInv, PTL DEF Spec

\* The graph, the intents and the driver's locals keep their types, for every
\* roster: no handler names a file or a node outside the task.
THEOREM PipelineTypes == Spec => []TypeOK
  BY SpecInv, PTL DEF IInv

\* The intents of an effect are in the row before the effect, at whatever point a
\* crash hits the driver.
THEOREM IntentsComeFirst == Spec => []EffectsForetold
<1>1. IInv => EffectsForetold
  BY DEF IInv, World, Foretold
<1> QED
  BY <1>1, SpecInv, PTL

\* Apply and release are Succeeded only if the patch is written and the claims are
\* gone, whether the driver recorded it or a recovery inferred it.
THEOREM SuccessIsTrue == Spec => []SuccessMatchesWorld
<1>1. IInv => SuccessMatchesWorld
  BY DEF IInv, World
<1> QED
  BY <1>1, SpecInv, PTL

\* Nobody gives up a file while a worker runs or the outcome of the patch is open,
\* although an interrupted apply satisfies the Finally edge of the release.
THEOREM ClaimsOutliveEffects == Spec => []ClaimsCoverUnknownEffects
<1>1. IInv => ClaimsCoverUnknownEffects
  BY DEF IInv, World
<1> QED
  BY <1>1, SpecInv, PTL

\* A result is published only with every file written and every claim released.
THEOREM PublishedIsDone == Spec => []PublishedMeansDone
<1>1. IInv => PublishedMeansDone
  BY DEF IInv, Order, World, SuccessMatchesWorld, PublishedMeansDone, Started
<1> QED
  BY <1>1, SpecInv, PTL

\* A task that ended holds no claim, unless its release node failed.
THEOREM EndedTasksHoldNothing == Spec => []CleanEndFreesClaims
<1>1. IInv => CleanEndFreesClaims
  <2> SUFFICES ASSUME IInv, CleanTerminal(st), st["release"] # "Failed"
               PROVE  claims = {}
    BY DEF CleanEndFreesClaims
  <2>1. st["release"] \in {"Succeeded", "Skipped"}
    BY Named DEF CleanTerminal, Settled, Terminal, IInv, Order
  <2>2. CASE st["release"] = "Succeeded"
    BY <2>2 DEF IInv, World, SuccessMatchesWorld
  <2>3. CASE st["release"] = "Skipped"
    <3>1. st["contract"] # "Succeeded"
      BY <2>3 DEF IInv, Order, Unsuccessful
    <3> QED
      BY <3>1 DEF IInv, Order, World, Known
  <2> QED
    BY <2>1, <2>2, <2>3
<1> QED
  BY <1>1, SpecInv, PTL
=============================================================================
