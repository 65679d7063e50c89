----------------------- MODULE ExecutionGraphTheorems -----------------------
(***************************************************************************)
(* Facts about the operators of ExecutionGraph that hold for every graph.  *)
(***************************************************************************)
EXTENDS ExecutionGraph, TLAPS

\* Every graph update returns a graph state.
LEMMA SettleType ==
  ASSUME NEW st \in GraphState
  PROVE  SettleUnreachable(st) \in GraphState
  BY DEF SettleUnreachable, GraphState, NodeState

\* settle_unreachable only turns pending nodes into skipped ones.
LEMMA SettleOnlySkips ==
  ASSUME NEW st \in GraphState, NEW n \in Node
  PROVE  \/ SettleUnreachable(st)[n] = st[n]
         \/ st[n] = "Pending" /\ SettleUnreachable(st)[n] = "Skipped"
  BY DEF SettleUnreachable, Unreachable

-----------------------------------------------------------------------------

\* set_state changes one node.
LEMMA SetStateNodes ==
  ASSUME NEW st \in GraphState, NEW n \in Node, NEW s \in NodeState
  PROVE  /\ SetState(st, n, s) \in GraphState
         /\ SetState(st, n, s)[n] = s
         /\ \A m \in Node \ {n} : SetState(st, n, s)[m] = st[m]
  BY DEF SetState, GraphState

\* add_edge keeps the sources of a node inside the graph.
LEMMA SourcesAreNodes ==
  ASSUME NEW n \in Node
  PROVE  HardSources(n) \subseteq Node /\ FinallySources(n) \subseteq Node
  BY EdgeAssumption DEF HardSources, FinallySources

\* A node settle_unreachable skips has a prerequisite that did not succeed:
\* without it the other unreachable nodes would already be a closed set.
LEMMA SettleSkipsForCause ==
  ASSUME NEW st \in GraphState, NEW n \in Node,
         st[n] # "Skipped", SettleUnreachable(st)[n] = "Skipped"
  PROVE  \E m \in HardSources(n) : SettleUnreachable(st)[m] \in Unsuccessful
<1> DEFINE P == {k \in Node : st[k] = "Pending"}
           S == Unreachable(st) \ {n}
<1>1. n \in Unreachable(st) /\ st[n] = "Pending"
  BY DEF SettleUnreachable, Unreachable
<1>2. SUFFICES ASSUME \A m \in HardSources(n) : SettleUnreachable(st)[m] \notin Unsuccessful
               PROVE  FALSE
  OBVIOUS
<1>3. \A m \in HardSources(n) : st[m] \notin Unsuccessful /\ m \notin Unreachable(st)
  BY <1>2, SourcesAreNodes DEF SettleUnreachable, Unsuccessful
<1>4. SkipClosed(st, S)
  <2>1. SUFFICES ASSUME NEW k \in Node, st[k] = "Pending", NEW m \in HardSources(k),
                        st[m] \in Unsuccessful \/ m \in S
                 PROVE  k \in S
    BY DEF SkipClosed
  <2>2. k # n
    BY <1>3, <2>1
  <2>3. ASSUME NEW T \in SUBSET P, SkipClosed(st, T) PROVE k \in T
    <3>1. st[m] \in Unsuccessful \/ m \in T
      BY <2>1, <2>3 DEF Unreachable
    <3>2. QED
      BY <2>1, <2>3, <3>1 DEF SkipClosed
  <2>4. QED
    BY <2>1, <2>2, <2>3 DEF Unreachable
<1>5. S \in SUBSET P
  BY DEF Unreachable
<1>6. QED
  BY <1>1, <1>4, <1>5 DEF Unreachable

\* settle_unreachable skips every node that waits for a success that cannot come:
\* it leaves no node pending behind a prerequisite that did not succeed.
LEMMA SettleLeavesNoneBlocked ==
  ASSUME NEW st \in GraphState, NEW n \in Node, SettleUnreachable(st)[n] = "Pending",
         NEW m \in HardSources(n)
  PROVE  SettleUnreachable(st)[m] \notin Unsuccessful
<1>1. st[n] = "Pending" /\ n \notin Unreachable(st)
  BY DEF SettleUnreachable
<1>2. PICK T \in SUBSET {k \in Node : st[k] = "Pending"} : SkipClosed(st, T) /\ n \notin T
  BY <1>1 DEF Unreachable
<1>3. st[m] \notin Unsuccessful /\ m \notin T
  BY <1>1, <1>2 DEF SkipClosed
<1>4. m \notin Unreachable(st)
  BY <1>2, <1>3 DEF Unreachable
<1> QED
  BY <1>3, <1>4, SourcesAreNodes DEF SettleUnreachable

-----------------------------------------------------------------------------
(* Steps between checkpoints. *)

\* What a legal step keeps: a started node stays started, an end stays an end,
\* and success and the lack of it are final.
LEMMA LegalStepKeeps ==
  ASSUME NEW from \in NodeState, NEW to \in NodeState, LegalNodeStep(from, to)
  PROVE  /\ from \notin {"Pending", "Skipped"} => to \notin {"Pending", "Skipped"}
         /\ from \in Started => to \in Started \cup {"Cancelled"}
         /\ from \in Terminal => to \in Terminal
         /\ from = "Succeeded" => to = "Succeeded"
         /\ from \in Unsuccessful => to = from
  BY DEF LegalNodeStep, ValidSnapshotTransition, Terminal, Started, Unsuccessful

\* More handled nodes allow no fewer steps.
LEMMA GraphStepGrows ==
  ASSUME NEW from, NEW to, NEW less, NEW more, less \subseteq more,
         GraphStep(from, to, less)
  PROVE  GraphStep(from, to, more)
  BY DEF GraphStep, JustifiedSuccess

\* The order of the dependencies, and the cause of every skip, survive every
\* step.
THEOREM GraphStepKeepsOrder ==
  ASSUME NEW from \in GraphState, NEW to \in GraphState, NEW handled,
         GraphStep(from, to, handled),
         StartedAfterPrerequisites(from), SkippedForCause(from)
  PROVE  StartedAfterPrerequisites(to) /\ SkippedForCause(to)
<1>1. \A n \in Node : /\ from[n] \in NodeState /\ to[n] \in NodeState
                      /\ LegalNodeStep(from[n], to[n])
  BY DEF GraphState, GraphStep
<1>2. ASSUME NEW n \in Node, to[n] \in Started
      PROVE  /\ \A m \in HardSources(n) : to[m] = "Succeeded"
             /\ \A m \in FinallySources(n) : to[m] \in Terminal
  <2>1. /\ \A m \in HardSources(n) : from[m] = "Succeeded"
        /\ \A m \in FinallySources(n) : from[m] \in Terminal \/ to[m] \in Terminal
    BY <1>2 DEF StartedAfterPrerequisites, GraphStep, JustifiedStart
  <2>2. QED
    BY <1>1, <2>1, SourcesAreNodes, LegalStepKeeps
<1>3. ASSUME NEW n \in Node, to[n] = "Skipped"
      PROVE  \E m \in HardSources(n) : to[m] \in Unsuccessful
  <2>1. CASE from[n] = "Skipped"
    BY <1>1, <2>1, SourcesAreNodes, LegalStepKeeps DEF SkippedForCause
  <2>2. CASE from[n] # "Skipped"
    BY <1>3, <2>2 DEF GraphStep, JustifiedSkip
  <2>3. QED
    BY <2>1, <2>2
<1>4. QED
  BY <1>2, <1>3 DEF StartedAfterPrerequisites, SkippedForCause

\* What a driver may do to its graph between two saves: cancel pending nodes,
\* and skip the ones that lost a prerequisite.
Edited(from, to) ==
  \A n \in Node :
    \/ to[n] = from[n]
    \/ from[n] = "Pending" /\ to[n] = "Cancelled"
    \/ /\ from[n] = "Pending" /\ to[n] = "Skipped"
       /\ \E m \in HardSources(n) : to[m] \in Unsuccessful

\* cancel_node on pending nodes and settle_unreachable are edits.
LEMMA CancelIsEdit ==
  ASSUME NEW st \in GraphState, NEW S \in SUBSET {n \in Node : st[n] = "Pending"}
  PROVE  CancelPending(st, S) \in GraphState /\ Edited(st, CancelPending(st, S))
<1> DEFINE cut == [n \in Node |-> IF n \in S THEN "Cancelled" ELSE st[n]]
<1>1. cut \in GraphState
  BY DEF GraphState, NodeState
<1>2. \A n \in Node : cut[n] = IF n \in S THEN "Cancelled" ELSE st[n]
  OBVIOUS
<1>3. CancelPending(st, S) = SettleUnreachable(cut)
  BY DEF CancelPending
<1> HIDE DEF cut
<1>4. SettleUnreachable(cut) \in GraphState
  BY <1>1, SettleType
<1>5. ASSUME NEW n \in Node
      PROVE  \/ SettleUnreachable(cut)[n] = st[n]
             \/ st[n] = "Pending" /\ SettleUnreachable(cut)[n] = "Cancelled"
             \/ /\ st[n] = "Pending" /\ SettleUnreachable(cut)[n] = "Skipped"
                /\ \E m \in HardSources(n) : SettleUnreachable(cut)[m] \in Unsuccessful
  BY <1>1, <1>2, SettleOnlySkips, SettleSkipsForCause
<1>6. QED
  BY <1>3, <1>4, <1>5 DEF Edited

\* Two edits are one.
LEMMA EditsCompose ==
  ASSUME NEW a \in GraphState, NEW b \in GraphState, NEW c \in GraphState,
         Edited(a, b), Edited(b, c)
  PROVE  Edited(a, c)
<1>1. \A m \in Node : b[m] \in Unsuccessful => c[m] \in Unsuccessful
  BY DEF Edited, Unsuccessful
<1>2. QED
  BY <1>1, SourcesAreNodes DEF Edited

\* A step from an edited graph is a step from the graph before the edits: what
\* was edited in memory reaches the row with the next save.
LEMMA EditThenStep ==
  ASSUME NEW a \in GraphState, NEW b \in GraphState, NEW c \in GraphState, NEW handled,
         Edited(a, b), GraphStep(b, c, handled)
  PROVE  GraphStep(a, c, handled)
<1>1. \A m \in Node : b[m] \in Unsuccessful => c[m] = b[m]
  BY LegalStepKeeps DEF GraphStep, GraphState
<1>2. SUFFICES ASSUME NEW n \in Node
               PROVE  /\ LegalNodeStep(a[n], c[n])
                      /\ JustifiedStart(n, a, c)
                      /\ JustifiedSkip(n, a, c)
                      /\ JustifiedSuccess(n, a, c, handled)
  BY DEF GraphStep
<1>3. LegalNodeStep(b[n], c[n]) /\ JustifiedStart(n, b, c) /\ JustifiedSkip(n, b, c)
      /\ JustifiedSuccess(n, b, c, handled)
  BY DEF GraphStep
<1>4. b[n] # a[n] => a[n] = "Pending" /\ b[n] \in {"Cancelled", "Skipped"} /\ c[n] = b[n]
  BY <1>1 DEF Edited, Unsuccessful
<1>5. LegalNodeStep(a[n], c[n])
  BY <1>3, <1>4 DEF LegalNodeStep, ValidSnapshotTransition
<1>6. JustifiedStart(n, a, c)
  <2>1. \A m \in HardSources(n) : b[m] = "Succeeded" => a[m] = "Succeeded"
    BY SourcesAreNodes DEF Edited
  <2>2. QED
    BY <1>3, <1>4, <2>1 DEF JustifiedStart, Started
<1>7. JustifiedSkip(n, a, c)
  <2>1. b[n] # a[n] /\ c[n] = "Skipped" => \E m \in HardSources(n) : b[m] \in Unsuccessful
    BY <1>4 DEF Edited
  <2>2. QED
    BY <1>1, <1>3, <2>1, SourcesAreNodes DEF JustifiedSkip
<1>8. JustifiedSuccess(n, a, c, handled)
  BY <1>3, <1>4 DEF JustifiedSuccess
<1>9. QED
  BY <1>5, <1>6, <1>7, <1>8

\* An edit alone is a step.
LEMMA EditIsStep ==
  ASSUME NEW from \in GraphState, NEW to \in GraphState, NEW handled, Edited(from, to)
  PROVE  GraphStep(from, to, handled)
  BY DEF Edited, GraphStep, LegalNodeStep, ValidSnapshotTransition, JustifiedStart,
     JustifiedSkip, JustifiedSuccess, Started

\* start_ready_batch is a step.
LEMMA StartIsStep ==
  ASSUME NEW st \in GraphState, NEW B \in SUBSET Node, NEW handled, CanStartBatch(st, B)
  PROVE  /\ StartReadyBatch(st, B) \in GraphState
         /\ GraphStep(st, StartReadyBatch(st, B), handled)
         /\ \A n \in B : st[n] = "Pending" /\ StartReadyBatch(st, B)[n] = "Running"
<1> DEFINE to == StartReadyBatch(st, B)
<1>1. /\ to \in GraphState
      /\ \A n \in Node : to[n] = IF n \in B THEN "Running" ELSE st[n]
  BY DEF StartReadyBatch, GraphState, NodeState
<1>2. B \subseteq ReadyNodeIds(st)
  BY DEF CanStartBatch
<1> HIDE DEF to
<1>3. ASSUME NEW n \in Node
      PROVE  LegalNodeStep(st[n], to[n]) /\ JustifiedStart(n, st, to)
             /\ JustifiedSkip(n, st, to) /\ JustifiedSuccess(n, st, to, handled)
  <2>1. n \in B => st[n] = "Pending"
    BY <1>2 DEF ReadyNodeIds
  <2>2. JustifiedStart(n, st, to)
    <3>1. SUFFICES ASSUME n \in B
                   PROVE  /\ \A m \in HardSources(n) : st[m] = "Succeeded"
                          /\ \A m \in FinallySources(n) : to[m] \in Terminal
      BY <1>1 DEF JustifiedStart
    <3>2. \A m \in FinallySources(n) : st[m] \in Terminal /\ m \in Node
      BY <1>2, <3>1, SourcesAreNodes DEF ReadyNodeIds
    <3>3. \A m \in FinallySources(n) : m \notin B
      BY <1>2, <3>2 DEF ReadyNodeIds, Terminal
    <3>4. QED
      BY <1>1, <1>2, <3>1, <3>2, <3>3 DEF ReadyNodeIds
  <2>3. QED
    BY <1>1, <2>1, <2>2
    DEF LegalNodeStep, ValidSnapshotTransition, JustifiedSkip, JustifiedSuccess
<1>4. QED
  BY <1>1, <1>2, <1>3 DEF GraphStep, ReadyNodeIds, to

\* record_outcome and reconcile_node end one started node, with success only
\* after its effect: a step.
LEMMA EndIsStep ==
  ASSUME NEW st \in GraphState, NEW n \in Node, NEW o \in OutcomeState, NEW handled,
         \/ st[n] = "Running"
         \/ st[n] = "RecoveryRequired" /\ o \in Decision,
         o = "Succeeded" => n \in handled
  PROVE  SetState(st, n, o) \in GraphState /\ GraphStep(st, SetState(st, n, o), handled)
<1>1. o \in NodeState
  BY DEF OutcomeState, NodeState
<1>2. /\ SetState(st, n, o) \in GraphState
      /\ SetState(st, n, o)[n] = o
      /\ \A m \in Node \ {n} : SetState(st, n, o)[m] = st[m]
  BY <1>1, SetStateNodes
<1>3. QED
  BY <1>2 DEF GraphStep, LegalNodeStep, ValidSnapshotTransition, JustifiedStart,
     JustifiedSkip, JustifiedSuccess, Started, OutcomeState, Decision

\* A ready node that is started, failed and settled in one checkpoint is a step.
LEMMA BlockIsStep ==
  ASSUME NEW st \in GraphState, NEW n \in ReadyNodeIds(st), NEW handled
  PROVE  /\ SettleUnreachable(SetState(st, n, "Failed")) \in GraphState
         /\ GraphStep(st, SettleUnreachable(SetState(st, n, "Failed")), handled)
<1> DEFINE mid == SetState(st, n, "Failed")
           to == SettleUnreachable(mid)
<1>1. n \in Node /\ st[n] = "Pending"
  BY DEF ReadyNodeIds
<1>2. /\ mid \in GraphState /\ mid[n] = "Failed"
      /\ \A m \in Node \ {n} : mid[m] = st[m]
  BY <1>1, SetStateNodes DEF NodeState
<1> HIDE DEF mid
<1>3. to \in GraphState
  BY <1>2, SettleType
<1>4. \A m \in Node : \/ to[m] = mid[m]
                      \/ /\ mid[m] = "Pending" /\ to[m] = "Skipped"
                         /\ \E k \in HardSources(m) : to[k] \in Unsuccessful
  BY <1>2, SettleOnlySkips, SettleSkipsForCause
<1> HIDE DEF to
<1>5. to[n] = "Failed"
  BY <1>1, <1>2, <1>4
<1>6. ASSUME NEW m \in Node
      PROVE  LegalNodeStep(st[m], to[m]) /\ JustifiedSkip(m, st, to)
             /\ JustifiedSuccess(m, st, to, handled)
  BY <1>1, <1>2, <1>4
  DEF LegalNodeStep, ValidSnapshotTransition, JustifiedSkip, JustifiedSuccess
<1>7. ASSUME NEW m \in Node PROVE JustifiedStart(m, st, to)
  <2>1. CASE m = n
    <3>1. \A k \in FinallySources(n) : k \in Node /\ st[k] \in Terminal
      BY SourcesAreNodes, <1>1 DEF ReadyNodeIds
    <3>2. \A k \in FinallySources(n) : to[k] \in Terminal
      BY <1>2, <1>4, <3>1 DEF Terminal
    <3>3. QED
      BY <2>1, <3>2 DEF JustifiedStart, ReadyNodeIds
  <2>2. CASE m # n
    BY <1>2, <1>4, <2>2 DEF JustifiedStart, Started
  <2>3. QED
    BY <2>1, <2>2
<1>8. QED
  BY <1>3, <1>6, <1>7 DEF GraphStep, to, mid

\* recover_from_checkpoint is a step.
LEMMA RecoverIsStep ==
  ASSUME NEW st \in GraphState, NEW handled
  PROVE  /\ RecoverFromCheckpoint(st) \in GraphState
         /\ GraphStep(st, RecoverFromCheckpoint(st), handled)
<1> DEFINE mid == MarkInterrupted(st)
           to == SettleUnreachable(mid)
<1>1. /\ mid \in GraphState
      /\ \A n \in Node : mid[n] = IF st[n] = "Running" THEN "RecoveryRequired" ELSE st[n]
  BY DEF MarkInterrupted, GraphState, NodeState
<1> HIDE DEF mid
<1>2. to \in GraphState
  BY <1>1, SettleType
<1>3. \A m \in Node : \/ to[m] = mid[m]
                      \/ /\ mid[m] = "Pending" /\ to[m] = "Skipped"
                         /\ \E k \in HardSources(m) : to[k] \in Unsuccessful
  BY <1>1, SettleOnlySkips, SettleSkipsForCause
<1> HIDE DEF to
<1>4. GraphStep(st, to, handled)
  BY <1>1, <1>3 DEF GraphStep, LegalNodeStep, ValidSnapshotTransition, JustifiedStart,
     JustifiedSkip, JustifiedSuccess, Started
<1>5. QED
  BY <1>2, <1>4 DEF RecoverFromCheckpoint, to, mid

\* Of all the changes, only reconcile_node settles an interrupted node.
LEMMA InterruptedStays ==
  ASSUME NEW st \in GraphState, NEW n \in Node, st[n] = "RecoveryRequired"
  PROVE  /\ RecoverFromCheckpoint(st)[n] = "RecoveryRequired"
         /\ \A B \in SUBSET Node :
              CanStartBatch(st, B) => StartReadyBatch(st, B)[n] = "RecoveryRequired"
         /\ \A m \in ReadyNodeIds(st) :
              SettleUnreachable(SetState(st, m, "Failed"))[n] = "RecoveryRequired"
<1>1. RecoverFromCheckpoint(st)[n] = "RecoveryRequired"
  <2> DEFINE mid == MarkInterrupted(st)
  <2>1. mid \in GraphState /\ mid[n] = "RecoveryRequired"
    BY DEF MarkInterrupted, GraphState, NodeState
  <2> HIDE DEF mid
  <2>2. SettleUnreachable(mid)[n] = "RecoveryRequired"
    BY <2>1, SettleOnlySkips
  <2>3. QED
    BY <2>2 DEF RecoverFromCheckpoint, mid
<1>2. ASSUME NEW B \in SUBSET Node, CanStartBatch(st, B)
      PROVE  StartReadyBatch(st, B)[n] = "RecoveryRequired"
  <2>1. n \notin B
    BY <1>2 DEF CanStartBatch, ReadyNodeIds
  <2>2. QED
    BY <2>1 DEF StartReadyBatch
<1>3. ASSUME NEW m \in ReadyNodeIds(st)
      PROVE  SettleUnreachable(SetState(st, m, "Failed"))[n] = "RecoveryRequired"
  <2> DEFINE mid == SetState(st, m, "Failed")
  <2>1. m \in Node /\ m # n
    BY <1>3 DEF ReadyNodeIds
  <2>2. "Failed" \in NodeState
    BY DEF NodeState
  <2>3. mid \in GraphState /\ mid[n] = "RecoveryRequired"
    BY <1>3, <2>1, <2>2, SetStateNodes
  <2> HIDE DEF mid
  <2>4. SettleUnreachable(mid)[n] = "RecoveryRequired"
    BY <2>3, SettleOnlySkips
  <2>5. QED
    BY <2>4 DEF mid
<1>4. QED
  BY <1>1, <1>2, <1>3
=============================================================================
