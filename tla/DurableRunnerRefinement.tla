---------------------- MODULE DurableRunnerRefinement ----------------------
(***************************************************************************)
(* The durable runner implements NodeLifecycle: forget the clients, the    *)
(* saves and the versions, and every step is a legal step of one graph, a  *)
(* first call of a handler, an effect of a called handler, or no step.     *)
(***************************************************************************)
EXTENDS DurableRunnerProofs

\* The abstract module reads the graph with the same operators.
LEMMA SameGraphStep ==
  ASSUME NEW from, NEW to, NEW evidence, GraphStep(from, to, evidence)
  PROVE  Lifecycle!GraphStep(from, to, evidence)
<1>1. \A n \in Node : /\ HardSources(n) = Lifecycle!HardSources(n)
                      /\ FinallySources(n) = Lifecycle!FinallySources(n)
  BY DEF HardSources, FinallySources, Lifecycle!HardSources, Lifecycle!FinallySources
<1>2. Terminal = Lifecycle!Terminal /\ Unsuccessful = Lifecycle!Unsuccessful
      /\ Started = Lifecycle!Started
  BY DEF Terminal, Lifecycle!Terminal, Unsuccessful, Lifecycle!Unsuccessful,
     Started, Lifecycle!Started
<1>3. \A n \in Node : LegalNodeStep(from[n], to[n]) =>
                        Lifecycle!LegalNodeStep(from[n], to[n])
  BY DEF LegalNodeStep, Lifecycle!LegalNodeStep, ValidSnapshotTransition,
     Lifecycle!ValidSnapshotTransition
<1>4. ASSUME NEW n \in Node
      PROVE  /\ JustifiedStart(n, from, to) => Lifecycle!JustifiedStart(n, from, to)
             /\ JustifiedSkip(n, from, to) => Lifecycle!JustifiedSkip(n, from, to)
             /\ JustifiedSuccess(n, from, to, evidence) =>
                  Lifecycle!JustifiedSuccess(n, from, to, evidence)
  BY <1>1, <1>2 DEF JustifiedStart, Lifecycle!JustifiedStart, JustifiedSkip,
     Lifecycle!JustifiedSkip, JustifiedSuccess, Lifecycle!JustifiedSuccess
<1>5. QED
  BY <1>3, <1>4 DEF GraphStep, Lifecycle!GraphStep

\* The initial states map to initial states.
LEMMA InitMaps == Init => Lifecycle!Init
  BY DEF Init, Absent, AllPending, Lifecycle!Init, Lifecycle!AllPending

\* Every step maps to a step or to no step.
LEMMA StepMaps == IInv /\ [Next]_vars => [Lifecycle!Next]_(Lifecycle!vars)
<1>1. SUFFICES ASSUME IInv, [Next]_vars
               PROVE  [Lifecycle!Next]_(Lifecycle!vars)
  OBVIOUS
<1> USE DEF Lifecycle!vars
<1>2. CASE UNCHANGED vars
  BY <1>2 DEF vars
<1>3. ASSUME NEW c \in Client, RunnerCall(c) PROVE UNCHANGED Lifecycle!vars
  BY <1>3 DEF RunnerCall, Initialize, Recover, CommitIntents, Admit, CommitSettled,
     EditInMemory, CommitBlocked, ReconcileNode
<1>4. ASSUME NEW c \in Client, HandlerStep(c) PROVE [Lifecycle!Next]_(Lifecycle!vars)
  <2>1. ASSUME NEW n \in Node, CallHandler(c, n) PROVE Lifecycle!Next
    <3>1. calls[n] = 0 /\ store.st[n] \notin {"Pending", "Skipped"}
      BY <1>1, <2>1 DEF IInv, JobsOnce, CallHandler
    <3>2. calls' = [calls EXCEPT ![n] = 1] /\ UNCHANGED <<store, handled>>
      BY <2>1, <3>1 DEF CallHandler
    <3>3. Lifecycle!Call(n)
      BY <3>1, <3>2 DEF Lifecycle!Call
    <3>4. QED
      BY <3>3 DEF Lifecycle!Next
  <2>2. ASSUME NEW n \in Node, TakeEffect(c, n) PROVE Lifecycle!Next
    <3>1. calls[n] = 1
      BY <1>1, <2>2 DEF IInv, JobsTruthful, TakeEffect
    <3>2. Lifecycle!TakeEffect(n)
      BY <2>2, <3>1 DEF TakeEffect, Lifecycle!TakeEffect
    <3>3. QED
      BY <3>2 DEF Lifecycle!Next
  <2>3. ASSUME NEW n \in Node,
               \/ \E o \in OutcomeState \cup {"Deferred"} : Finish(c, n, o)
               \/ RecordOutcome(c, n)
               \/ RecordDeferred(c, n)
        PROVE  UNCHANGED Lifecycle!vars
    BY <2>3 DEF Finish, RecordOutcome, RecordDeferred
  <2>4. QED
    BY <1>4, <2>1, <2>2, <2>3 DEF HandlerStep
<1>5. ASSUME NEW c \in Client, Abort(c) PROVE UNCHANGED Lifecycle!vars
  BY <1>5 DEF Abort
<1>6. ASSUME NEW s \in saves, SaveCommits(s) PROVE [Lifecycle!Next]_(Lifecycle!vars)
  <2>1. store'.st = s.st /\ store'.reconciled = s.reconciled /\ UNCHANGED <<calls, handled>>
    BY <1>6 DEF SaveCommits
  <2>2. /\ s.st \in GraphState /\ store.st \in GraphState
        /\ GraphStep(store.st, s.st, handled \cup s.reconciled)
        /\ SettledByDecision(store.st, s.st, store.reconciled, s.reconciled)
        /\ store.reconciled \in SUBSET Node /\ s.reconciled \in SUBSET Node
    BY <1>1, <1>6, CommitIsStep, TypeFields DEF IInv
  <2>3. CASE s.st = store.st
    <3>1. s.reconciled = store.reconciled
      BY <2>2, <2>3 DEF SettledByDecision, Decision
    <3>2. QED
      BY <2>1, <2>3, <3>1
  <2>4. CASE s.st # store.st
    <3>1. /\ Lifecycle!GraphStep(store.st, store'.st, handled \cup store'.reconciled)
          /\ Lifecycle!SettledByDecision(store.st, store'.st, store.reconciled,
                                         store'.reconciled)
      BY <2>1, <2>2, SameGraphStep
      DEF SettledByDecision, Lifecycle!SettledByDecision, Decision, Lifecycle!Decision
    <3>2. store'.st \in Lifecycle!GraphState
      BY <2>1, <2>2 DEF GraphState, NodeState, Lifecycle!GraphState, Lifecycle!NodeState
    <3>3. QED
      BY <2>1, <2>2, <2>4, <3>1, <3>2 DEF Lifecycle!Next, Lifecycle!Advance
  <2>5. QED
    BY <2>3, <2>4
<1>7. ASSUME NEW s \in saves, SaveFails(s) PROVE UNCHANGED Lifecycle!vars
  BY <1>7 DEF SaveFails
<1>8. CASE Crash
  BY <1>8 DEF Crash
<1>9. QED
  BY <1>1, <1>2, <1>3, <1>4, <1>5, <1>6, <1>7, <1>8 DEF Next

\* The runner implements the abstract lifecycle.
THEOREM RunnerImplementsLifecycle == Spec => ImplementsLifecycle
  BY InitMaps, StepMaps, Invariance, PTL DEF Spec, ImplementsLifecycle, Lifecycle!Spec
=============================================================================
