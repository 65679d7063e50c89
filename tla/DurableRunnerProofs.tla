------------------------ MODULE DurableRunnerProofs ------------------------
(***************************************************************************)
(* The durable runner, for every graph, every set of clients and every     *)
(* bound.                                                                  *)
(*                                                                         *)
(* The argument rests on the version number.  A save whose expected        *)
(* version is still the row's version was computed from the graph that is  *)
(* in the row now, so it describes a legal step of that graph (SavesLegal) *)
(* and the nodes it admits are still pending there.  Every other save is   *)
(* refused.  Hence each node is started once in the row, and only the      *)
(* client whose save started it ever holds its handler (JobsOnce).         *)
(***************************************************************************)
EXTENDS DurableRunner, ExecutionGraphTheorems

\* No client and no save is ahead of the row.
VersionsBehind ==
  /\ \A c \in Client : mem[c].version <= store.version
  /\ \A s \in saves : s.expected <= store.version

\* An absent row stands for the freshly compiled graph.
AbsentIsPending ==
  store.version = 0 => store.st = AllPending /\ store.reconciled = {}

\* A client without a graph has no handlers.
IdleHasNothing == \A c \in Client : pc[c] = "idle" => job[c] = NoJobs

\* A client waits for at most one save, based on the version it holds.
SavesOwned ==
  /\ \A s \in saves : s.owner # Dropped =>
       pc[s.owner] = "saving" /\ s.expected = mem[s.owner].version
  /\ \A s, t \in saves : s.owner = t.owner /\ s.owner # Dropped => s = t

\* What a step may do to the reconciliations a graph carries: they stay, new
\* ones settle interrupted nodes, and interrupted nodes wait for them.
SettledByDecision(from, to, old, new) ==
  /\ old \subseteq new
  /\ \A n \in new \ old : from[n] = "RecoveryRequired" /\ to[n] \in Decision
  /\ \A n \in Node :
       from[n] = "RecoveryRequired" /\ to[n] # "RecoveryRequired" => n \in new

\* A save that can still commit is a legal step from the graph in the row.
SavesLegal ==
  \A s \in saves : s.expected = store.version =>
    /\ GraphStep(store.st, s.st, handled \cup s.reconciled)
    /\ SettledByDecision(store.st, s.st, store.reconciled, s.reconciled)
    /\ \A n \in s.batch : store.st[n] = "Pending" /\ s.st[n] = "Running"

\* At most one client still has to call the handler of a node, nobody has yet,
\* and the row shows the node as started.
JobsOnce ==
  /\ \A c \in Client, n \in Node : job[c][n] = "todo" =>
       calls[n] = 0 /\ store.st[n] \notin {"Pending", "Skipped"}
  /\ \A c, d \in Client, n \in Node :
       job[c][n] = "todo" /\ job[d][n] = "todo" => c = d

\* What a handler in progress or finished implies about the world.
JobsTruthful ==
  \A c \in Client, n \in Node :
    /\ job[c][n] = "called" => calls[n] = 1
    /\ job[c][n] = "Succeeded" => n \in handled

\* A reconciled node has ended.
ReconciledEnded == \A n \in store.reconciled : store.st[n] \in Decision

\* MemEdited with the reason for every skip: what a current client has not
\* saved is an edit of the row.
MemEdited ==
  \A c \in Client :
    pc[c] # "idle" /\ mem[c].version = store.version =>
      Edited(store.st, mem[c].st) /\ mem[c].reconciled = store.reconciled

IInv ==
  /\ TypeOK
  /\ VersionsBehind
  /\ AbsentIsPending
  /\ IdleHasNothing
  /\ SavesOwned
  /\ SavesLegal
  /\ JobsOnce
  /\ JobsTruthful
  /\ MemEdited
  /\ CalledAfterAdmission
  /\ CalledAtMostOnce
  /\ ReconciledEnded
  /\ DependencyOrder

-----------------------------------------------------------------------------

\* TypeOK, read field by field.
LEMMA TypeFields ==
  ASSUME TypeOK
  PROVE  /\ store.version \in Nat /\ store.st \in GraphState
         /\ store.reconciled \in SUBSET Node
         /\ \A c \in Client : /\ mem[c].version \in Nat /\ mem[c].st \in GraphState
                              /\ mem[c].reconciled \in SUBSET Node
         /\ \A s \in saves : /\ s.owner \in Client \cup {Dropped}
                             /\ s.expected \in Nat
                             /\ s.st \in GraphState
                             /\ s.reconciled \in SUBSET Node
                             /\ s.batch \in SUBSET Node
  BY DEF TypeOK, Row, Save

\* The invariant holds initially.
LEMMA InitIInv == Init => IInv
<1>1. SUFFICES ASSUME Init PROVE IInv
  OBVIOUS
<1>2. AllPending \in GraphState
  BY DEF AllPending, GraphState, NodeState
<1>3. TypeOK
  BY <1>1, <1>2 DEF Init, TypeOK, Absent, Row, NoJobs, JobState
<1>4. DependencyOrder
  BY <1>1 DEF Init, DependencyOrder, StartedAfterPrerequisites, SkippedForCause,
     Started, Absent, AllPending
<1>5. VersionsBehind /\ AbsentIsPending /\ IdleHasNothing /\ MemEdited
  BY <1>1 DEF Init, VersionsBehind, AbsentIsPending, IdleHasNothing, MemEdited, Absent
<1>6. SavesOwned /\ SavesLegal
  BY <1>1 DEF Init, SavesOwned, SavesLegal
<1>7. JobsOnce /\ JobsTruthful
  BY <1>1 DEF Init, JobsOnce, JobsTruthful, NoJobs
<1>8. CalledAfterAdmission /\ CalledAtMostOnce /\ ReconciledEnded
  BY <1>1 DEF Init, CalledAfterAdmission, CalledAtMostOnce, ReconciledEnded,
     Absent, AllPending
<1>9. QED
  BY <1>3, <1>4, <1>5, <1>6, <1>7, <1>8 DEF IInv

-----------------------------------------------------------------------------
(* Issuing a save: every runner call. *)

\* A runner call that issues a legal save from a current or outdated graph
\* keeps the invariant.
LEMMA IssueKeeps ==
  ASSUME IInv, NEW c \in Client, NEW row \in Row, NEW next \in GraphState,
         NEW decided \in SUBSET Node, NEW batch \in SUBSET Node,
         IssueDeciding(c, row, next, decided, batch),
         pc[c] # "saving",
         UNCHANGED <<store, calls, handled>>,
         job' \in [Client -> [Node -> JobState]],
         \A d \in Client, n \in Node : job'[d][n] = job[d][n] \/ job'[d][n] = "none",
         row.version <= store.version,
         row.version = store.version =>
           Edited(store.st, row.st) /\ row.reconciled = store.reconciled,
         GraphStep(row.st, next, handled \cup decided),
         SettledByDecision(row.st, next, row.reconciled, row.reconciled \cup decided),
         \A n \in batch : row.st[n] = "Pending" /\ next[n] = "Running"
  PROVE  IInv'
<1> DEFINE new == [owner |-> c, expected |-> row.version, st |-> next,
                   reconciled |-> row.reconciled \cup decided, batch |-> batch]
<1>1. /\ saves' = saves \cup {new}
      /\ pc' = [pc EXCEPT ![c] = "saving"]
      /\ mem' = [mem EXCEPT ![c] = row]
  BY DEF IssueDeciding
<1>2. new \in Save
  BY DEF Save, Row
<1>3. TypeOK
  BY DEF IInv
<1>4. TypeOK'
  BY <1>1, <1>2, <1>3 DEF TypeOK
<1>5. \A d \in Client : pc[d] = "idle" => job'[d] = NoJobs
  BY <1>3 DEF IInv, IdleHasNothing, NoJobs, TypeOK
<1>6. VersionsBehind'
  BY <1>1, <1>3 DEF IInv, VersionsBehind, TypeOK
<1>7. IdleHasNothing'
  BY <1>1, <1>3, <1>5 DEF IInv, IdleHasNothing, TypeOK
<1>8. SavesOwned'
  <2>1. \A s \in saves : s.owner # c
    BY DroppedAssumption DEF IInv, SavesOwned
  <2>2. \A s \in saves : s.owner # Dropped => s.owner \in Client
    BY <1>3, TypeFields
  <2>3. pc'[c] = "saving" /\ mem'[c].version = row.version
    BY <1>1, <1>3 DEF TypeOK
  <2>4. \A d \in Client \ {c} : pc'[d] = pc[d] /\ mem'[d] = mem[d]
    BY <1>1, <1>3 DEF TypeOK
  <2>5. \A s \in saves : s.owner # Dropped =>
          pc'[s.owner] = "saving" /\ s.expected = mem'[s.owner].version
    BY <2>1, <2>2, <2>4 DEF IInv, SavesOwned
  <2>6. new.owner = c /\ new.expected = row.version
    OBVIOUS
  <2> HIDE DEF new
  <2>7. \A s, u \in saves' : s.owner = u.owner /\ s.owner # Dropped => s = u
    BY <1>1, <2>1, <2>6 DEF IInv, SavesOwned
  <2>8. QED
    BY <1>1, <2>3, <2>5, <2>6, <2>7 DEF SavesOwned
<1>9. SavesLegal'
  <2>1. SUFFICES ASSUME NEW s \in saves', s.expected = store.version
                 PROVE  /\ GraphStep(store.st, s.st, handled \cup s.reconciled)
                        /\ SettledByDecision(store.st, s.st, store.reconciled, s.reconciled)
                        /\ \A n \in s.batch : store.st[n] = "Pending" /\ s.st[n] = "Running"
    BY DEF SavesLegal
  <2>2. CASE s \in saves
    BY <2>1, <2>2 DEF IInv, SavesLegal
  <2>3. CASE s = new
    <3>1. /\ Edited(store.st, row.st) /\ row.reconciled = store.reconciled
          /\ store.st \in GraphState /\ row.st \in GraphState
      BY <1>3, <2>1, <2>3, TypeFields DEF Row
    <3>2. GraphStep(store.st, next, handled \cup s.reconciled)
      <4>1. handled \cup decided \subseteq handled \cup s.reconciled
        BY <2>3
      <4>2. GraphStep(row.st, next, handled \cup s.reconciled)
        BY <4>1, GraphStepGrows
      <4>3. QED
        BY <3>1, <4>2, EditThenStep
    <3>3. SettledByDecision(store.st, next, store.reconciled, s.reconciled)
      <4>1. \A n \in Node :
              store.st[n] = "RecoveryRequired" <=> row.st[n] = "RecoveryRequired"
        BY <3>1 DEF Edited
      <4>2. s.reconciled = row.reconciled \cup decided /\ row.reconciled \in SUBSET Node
        BY <2>3 DEF Row
      <4>3. QED
        BY <3>1, <4>1, <4>2 DEF SettledByDecision
    <3>4. \A n \in batch : store.st[n] = "Pending"
      BY <3>1 DEF Edited
    <3>5. QED
      BY <2>3, <3>2, <3>3, <3>4
  <2>4. QED
    BY <1>1, <2>1, <2>2, <2>3
<1>10. JobsOnce' /\ JobsTruthful'
  BY DEF IInv, JobsOnce, JobsTruthful
<1>11. MemEdited'
  BY <1>1, <1>3 DEF IInv, MemEdited, TypeOK
<1>12. QED
  BY <1>4, <1>6, <1>7, <1>8, <1>9, <1>10, <1>11
  DEF IInv, AbsentIsPending, CalledAfterAdmission, CalledAtMostOnce,
      ReconciledEnded, DependencyOrder

\* A change that settles no interrupted node needs no reconciliation.
StaysInterrupted(from, to) ==
  \A n \in Node : from[n] = "RecoveryRequired" => to[n] = "RecoveryRequired"

\* IssueKeeps for every call but reconcile_node.
LEMMA IssuePlainKeeps ==
  ASSUME IInv, NEW c \in Client, NEW row \in Row, NEW next \in GraphState,
         NEW batch \in SUBSET Node,
         Issue(c, row, next, batch),
         pc[c] # "saving",
         UNCHANGED <<store, calls, handled>>,
         job' \in [Client -> [Node -> JobState]],
         \A d \in Client, n \in Node : job'[d][n] = job[d][n] \/ job'[d][n] = "none",
         row.version <= store.version,
         row.version = store.version =>
           Edited(store.st, row.st) /\ row.reconciled = store.reconciled,
         GraphStep(row.st, next, handled),
         StaysInterrupted(row.st, next),
         \A n \in batch : row.st[n] = "Pending" /\ next[n] = "Running"
  PROVE  IInv'
<1>1. IssueDeciding(c, row, next, {}, batch) /\ {} \in SUBSET Node
  BY DEF Issue
<1>2. GraphStep(row.st, next, handled \cup {})
  BY GraphStepGrows
<1>3. SettledByDecision(row.st, next, row.reconciled, row.reconciled \cup {})
  BY DEF SettledByDecision, StaysInterrupted
<1>4. QED
  BY <1>1, <1>2, <1>3, IssueKeeps

\* A call that saves a change of the client's own graph keeps the invariant.
LEMMA IssueOwnKeeps ==
  ASSUME IInv, NEW c \in Client, NEW next \in GraphState, NEW batch \in SUBSET Node,
         Issue(c, mem[c], next, batch), pc[c] = "open",
         UNCHANGED <<store, job, calls, handled>>,
         GraphStep(mem[c].st, next, handled),
         StaysInterrupted(mem[c].st, next),
         \A n \in batch : mem[c].st[n] = "Pending" /\ next[n] = "Running"
  PROVE  IInv'
<1>1. mem[c] \in Row /\ mem[c].version <= store.version /\ pc[c] # "saving"
  BY DEF IInv, TypeOK, VersionsBehind
<1>2. mem[c].version = store.version =>
        Edited(store.st, mem[c].st) /\ mem[c].reconciled = store.reconciled
  BY DEF IInv, MemEdited
<1>3. job' = job /\ job \in [Client -> [Node -> JobState]]
  BY DEF IInv, TypeOK
<1>4. QED
  BY <1>1, <1>2, <1>3, IssuePlainKeeps

\* initialize starts from the absent row.
LEMMA InitializeKeeps ==
  ASSUME IInv, NEW c \in Client, Initialize(c)
  PROVE  IInv'
<1>1. Absent \in Row /\ AllPending \in GraphState /\ Absent.st = AllPending
  BY DEF Absent, Row, AllPending, GraphState, NodeState
<1>2. /\ Issue(c, Absent, AllPending, {})
      /\ pc[c] # "saving" /\ job' = job
      /\ UNCHANGED <<store, calls, handled>>
  BY DEF Initialize
<1>3. job \in [Client -> [Node -> JobState]]
  BY DEF IInv, TypeOK
<1>4. Absent.version <= store.version
  BY TypeFields DEF IInv, Absent
<1>5. Absent.version = store.version =>
        Edited(store.st, Absent.st) /\ Absent.reconciled = store.reconciled
  BY <1>1 DEF IInv, AbsentIsPending, Absent, Edited
<1>6. GraphStep(Absent.st, AllPending, handled)
  BY <1>1, EditIsStep DEF Edited
<1>7. StaysInterrupted(Absent.st, AllPending)
  BY <1>1 DEF StaysInterrupted
<1>8. QED
  BY <1>1, <1>2, <1>3, <1>4, <1>5, <1>6, <1>7, IssuePlainKeeps

\* recover starts from the row itself.
LEMMA RecoverKeeps ==
  ASSUME IInv, NEW c \in Client, Recover(c)
  PROVE  IInv'
<1>1. /\ TypeOK /\ store \in Row /\ store.st \in GraphState /\ store.version \in Nat
      /\ Edited(store.st, store.st)
  BY TypeFields DEF IInv, TypeOK, Edited
<1>2. CASE RecoverFromCheckpoint(store.st) = store.st
  <2>1. /\ pc' = [pc EXCEPT ![c] = "open"]
        /\ mem' = [mem EXCEPT ![c] = store]
        /\ UNCHANGED <<saves, store, job, calls, handled>>
        /\ pc[c] = "idle"
    BY <1>2 DEF Recover
  <2>2. TypeOK'
    BY <1>1, <2>1 DEF TypeOK
  <2>3. VersionsBehind' /\ MemEdited' /\ IdleHasNothing'
    BY <1>1, <2>1 DEF IInv, TypeOK, VersionsBehind, MemEdited, IdleHasNothing, Row
  <2>4. SavesOwned'
    <3>1. \A s \in saves : s.owner # c
      BY <2>1, DroppedAssumption DEF IInv, SavesOwned
    <3>2. QED
      BY <1>1, <2>1, <3>1, TypeFields DEF IInv, SavesOwned, TypeOK
  <2>5. QED
    BY <2>1, <2>2, <2>3, <2>4
    DEF IInv, AbsentIsPending, SavesLegal, JobsOnce, JobsTruthful,
        CalledAfterAdmission, CalledAtMostOnce, ReconciledEnded, DependencyOrder
<1>3. CASE RecoverFromCheckpoint(store.st) # store.st
  <2>1. /\ Issue(c, store, RecoverFromCheckpoint(store.st), {})
        /\ pc[c] # "saving" /\ job' = job
        /\ UNCHANGED <<store, calls, handled>>
    BY <1>3 DEF Recover
  <2>2. /\ RecoverFromCheckpoint(store.st) \in GraphState
        /\ GraphStep(store.st, RecoverFromCheckpoint(store.st), handled)
    BY <1>1, RecoverIsStep
  <2>3. StaysInterrupted(store.st, RecoverFromCheckpoint(store.st))
    BY <1>1, InterruptedStays DEF StaysInterrupted
  <2>4. job \in [Client -> [Node -> JobState]] /\ store.version <= store.version
    BY <1>1 DEF TypeOK
  <2>5. QED
    BY <1>1, <2>1, <2>2, <2>3, <2>4, IssuePlainKeeps
<1>4. QED
  BY <1>2, <1>3

\* The read-only driver's unsaved edits keep its graph an edit of the row.
LEMMA EditInMemoryKeeps ==
  ASSUME IInv, NEW c \in Client, NEW S \in SUBSET Node, EditInMemory(c, S)
  PROVE  IInv'
<1> DEFINE new == CancelPending(mem[c].st, S)
<1>1. /\ TypeOK /\ pc[c] = "open" /\ S \in SUBSET Pending(c)
      /\ mem' = [mem EXCEPT ![c].st = new]
      /\ UNCHANGED <<store, saves, pc, job, calls, handled>>
  BY DEF EditInMemory, Ready, IInv
<1>2. /\ store.st \in GraphState /\ mem[c] \in Row
      /\ mem[c].version \in Nat /\ mem[c].st \in GraphState
  BY <1>1, TypeFields DEF TypeOK
<1>3. new \in GraphState /\ Edited(mem[c].st, new)
  BY <1>1, <1>2, CancelIsEdit DEF Pending
<1> HIDE DEF new
<1>4. /\ mem' \in [Client -> Row]
      /\ mem'[c].version = mem[c].version /\ mem'[c].st = new
      /\ mem'[c].reconciled = mem[c].reconciled
      /\ \A d \in Client : mem'[d].version = mem[d].version
      /\ \A d \in Client \ {c} : mem'[d] = mem[d]
  BY <1>1, <1>2, <1>3 DEF TypeOK, Row
<1>5. TypeOK'
  BY <1>1, <1>4 DEF TypeOK
<1>6. MemEdited'
  <2>1. mem[c].version = store.version =>
          Edited(store.st, new) /\ mem[c].reconciled = store.reconciled
    BY <1>1, <1>2, <1>3, EditsCompose DEF IInv, MemEdited
  <2>2. QED
    BY <1>1, <1>4, <2>1 DEF IInv, MemEdited
<1>7. VersionsBehind'
  BY <1>1, <1>4 DEF IInv, VersionsBehind
<1>8. SavesOwned'
  <2>1. \A s \in saves : s.owner # Dropped => s.owner \in Client
    BY <1>1, TypeFields
  <2>2. QED
    BY <1>1, <1>4, <2>1 DEF IInv, SavesOwned
<1>9. QED
  BY <1>1, <1>5, <1>6, <1>7, <1>8
  DEF IInv, AbsentIsPending, IdleHasNothing, SavesLegal, JobsOnce, JobsTruthful,
      CalledAfterAdmission, CalledAtMostOnce, ReconciledEnded, DependencyOrder

\* Every runner call keeps the invariant.
LEMMA RunnerCallKeeps ==
  ASSUME IInv, NEW c \in Client, RunnerCall(c)
  PROVE  IInv'
<1>1. mem[c].st \in GraphState
  BY TypeFields DEF IInv
<1>2. CASE Initialize(c)
  BY <1>2, InitializeKeeps
<1>3. CASE Recover(c)
  BY <1>3, RecoverKeeps
<1>4. CASE CommitIntents(c)
  <2>1. GraphStep(mem[c].st, mem[c].st, handled) /\ StaysInterrupted(mem[c].st, mem[c].st)
    BY <1>1, EditIsStep DEF Edited, StaysInterrupted
  <2>2. QED
    BY <1>1, <1>4, <2>1, IssueOwnKeeps DEF CommitIntents, Ready
<1>5. ASSUME NEW S \in SUBSET Node, Admit(c, S) PROVE IInv'
  <2> DEFINE next == StartReadyBatch(mem[c].st, S)
  <2>1. /\ CanStartBatch(mem[c].st, S) /\ Issue(c, mem[c], next, S)
        /\ pc[c] = "open" /\ UNCHANGED <<store, job, calls, handled>>
    BY <1>5 DEF Admit, Ready
  <2>2. /\ next \in GraphState /\ GraphStep(mem[c].st, next, handled)
        /\ \A n \in S : mem[c].st[n] = "Pending" /\ next[n] = "Running"
    BY <1>1, <2>1, StartIsStep
  <2>3. StaysInterrupted(mem[c].st, next)
    BY <1>1, <2>1, InterruptedStays DEF StaysInterrupted
  <2> HIDE DEF next
  <2>4. QED
    BY <2>1, <2>2, <2>3, IssueOwnKeeps
<1>6. ASSUME NEW S \in SUBSET Node, CommitSettled(c, S) PROVE IInv'
  <2> DEFINE next == CancelPending(mem[c].st, S)
  <2>1. /\ S \in SUBSET Pending(c) /\ Issue(c, mem[c], next, {})
        /\ pc[c] = "open" /\ UNCHANGED <<store, job, calls, handled>>
    BY <1>6 DEF CommitSettled, Ready
  <2>2. next \in GraphState /\ Edited(mem[c].st, next)
    BY <1>1, <2>1, CancelIsEdit DEF Pending
  <2> HIDE DEF next
  <2>3. GraphStep(mem[c].st, next, handled) /\ StaysInterrupted(mem[c].st, next)
    BY <1>1, <2>2, EditIsStep DEF Edited, StaysInterrupted
  <2>4. QED
    BY <2>1, <2>2, <2>3, IssueOwnKeeps
<1>7. ASSUME NEW S \in SUBSET Node, EditInMemory(c, S) PROVE IInv'
  BY <1>7, EditInMemoryKeeps
<1>8. ASSUME NEW n \in Node, CommitBlocked(c, n) PROVE IInv'
  <2> DEFINE next == SettleUnreachable(SetState(mem[c].st, n, "Failed"))
  <2>1. /\ n \in ReadyNodeIds(mem[c].st) /\ Issue(c, mem[c], next, {})
        /\ pc[c] = "open" /\ UNCHANGED <<store, job, calls, handled>>
    BY <1>8 DEF CommitBlocked, Ready
  <2>2. next \in GraphState /\ GraphStep(mem[c].st, next, handled)
    BY <1>1, <2>1, BlockIsStep
  <2>3. StaysInterrupted(mem[c].st, next)
    BY <1>1, <2>1, InterruptedStays DEF StaysInterrupted
  <2> HIDE DEF next
  <2>4. QED
    BY <2>1, <2>2, <2>3, IssueOwnKeeps
<1>9. ASSUME NEW n \in Node, NEW d \in Decision, ReconcileNode(c, n, d)
      PROVE  IInv'
  <2> DEFINE next == SetState(mem[c].st, n, d)
  <2>1. /\ mem[c].st[n] = "RecoveryRequired" /\ pc[c] = "open"
        /\ IssueDeciding(c, mem[c], next, {n}, {})
        /\ UNCHANGED <<store, job, calls, handled>>
    BY <1>9 DEF ReconcileNode, Ready, CanReconcile
  <2>2. d \in OutcomeState /\ d \in NodeState
    BY DEF Decision, OutcomeState, NodeState
  <2>3. next \in GraphState /\ GraphStep(mem[c].st, next, handled \cup {n})
    BY <1>1, <2>1, <2>2, EndIsStep
  <2>4. SettledByDecision(mem[c].st, next, mem[c].reconciled, mem[c].reconciled \cup {n})
    BY <1>1, <2>1, <2>2, SetStateNodes DEF SettledByDecision
  <2>5. /\ mem[c] \in Row /\ mem[c].version <= store.version
        /\ job' = job /\ job \in [Client -> [Node -> JobState]]
    BY <2>1 DEF IInv, TypeOK, VersionsBehind
  <2>6. mem[c].version = store.version =>
          Edited(store.st, mem[c].st) /\ mem[c].reconciled = store.reconciled
    BY <2>1 DEF IInv, MemEdited
  <2> HIDE DEF next
  <2>7. /\ UNCHANGED <<store, calls, handled>> /\ pc[c] # "saving"
        /\ {n} \in SUBSET Node /\ {} \in SUBSET Node
        /\ \A m \in {} : mem[c].st[m] = "Pending" /\ next[m] = "Running"
    BY <2>1
  <2>8. \A e \in Client, m \in Node : job'[e][m] = job[e][m] \/ job'[e][m] = "none"
    BY <2>5
  <2>9. job' \in [Client -> [Node -> JobState]]
    BY <2>5
  <2>10. IssueDeciding(c, mem[c], next, {n}, {})
    BY <2>1
  <2>11. QED
    BY <2>3, <2>4, <2>5, <2>6, <2>7, <2>8, <2>9, <2>10, IssueKeeps
<1>10. QED
  BY <1>2, <1>3, <1>4, <1>5, <1>6, <1>7, <1>8, <1>9 DEF RunnerCall

-----------------------------------------------------------------------------
(* Handlers. *)

\* Calling the handler uses up the only claim to it.
LEMMA CallHandlerKeeps ==
  ASSUME IInv, NEW c \in Client, NEW n \in Node, CallHandler(c, n)
  PROVE  IInv'
<1>1. /\ TypeOK
      /\ job' = [job EXCEPT ![c][n] = "called"]
      /\ calls' = [calls EXCEPT ![n] = @ + 1]
      /\ UNCHANGED <<store, saves, pc, mem, handled>>
      /\ pc[c] = "open" /\ job[c][n] = "todo"
  BY DEF CallHandler, IInv
<1>2. calls[n] = 0 /\ store.st[n] \notin {"Pending", "Skipped"}
  BY <1>1 DEF IInv, JobsOnce
<1>3. /\ calls' \in [Node -> Nat] /\ calls'[n] = 1
      /\ \A m \in Node \ {n} : calls'[m] = calls[m]
  BY <1>1, <1>2 DEF TypeOK
<1>4. /\ job' \in [Client -> [Node -> JobState]] /\ job'[c][n] = "called"
      /\ \A d \in Client, m \in Node : d # c \/ m # n => job'[d][m] = job[d][m]
  <2>1. "called" \in JobState
    BY DEF JobState
  <2>2. QED
    BY <1>1, <2>1 DEF TypeOK
<1>5. TypeOK'
  BY <1>1, <1>3, <1>4 DEF TypeOK
<1>6. JobsOnce'
  BY <1>1, <1>3, <1>4 DEF IInv, JobsOnce
<1>7. JobsTruthful'
  BY <1>1, <1>2, <1>3, <1>4 DEF IInv, JobsTruthful
<1>8. CalledAfterAdmission' /\ CalledAtMostOnce'
  BY <1>1, <1>2, <1>3 DEF IInv, CalledAfterAdmission, CalledAtMostOnce
<1>9. IdleHasNothing'
  BY <1>1 DEF IInv, IdleHasNothing, TypeOK
<1>10. VersionsBehind' /\ AbsentIsPending' /\ SavesOwned' /\ MemEdited'
       /\ ReconciledEnded' /\ DependencyOrder'
  BY <1>1 DEF IInv, VersionsBehind, AbsentIsPending, SavesOwned, MemEdited,
     ReconciledEnded, DependencyOrder
<1>11. SavesLegal'
  BY <1>1 DEF IInv, SavesLegal
<1>12. QED
  BY <1>5, <1>6, <1>7, <1>8, <1>9, <1>10, <1>11 DEF IInv

\* Handled nodes only grow, so no save loses its justification.
LEMMA TakeEffectKeeps ==
  ASSUME IInv, NEW c \in Client, NEW n \in Node, TakeEffect(c, n)
  PROVE  IInv'
<1>1. handled' = handled \cup {n} /\ UNCHANGED <<store, saves, pc, mem, job, calls>>
  BY DEF TakeEffect
<1>2. TypeOK'
  BY <1>1 DEF IInv, TypeOK
<1>3. SavesLegal'
  <2>1. \A s \in saves : GraphStep(store.st, s.st, handled \cup s.reconciled) =>
                          GraphStep(store.st, s.st, handled' \cup s.reconciled)
    BY <1>1, GraphStepGrows
  <2>2. QED
    BY <1>1, <2>1 DEF IInv, SavesLegal
<1>4. JobsTruthful' /\ ReconciledEnded'
  BY <1>1 DEF IInv, JobsTruthful, ReconciledEnded
<1>5. QED
  BY <1>1, <1>2, <1>3, <1>4
  DEF IInv, VersionsBehind, AbsentIsPending, IdleHasNothing, SavesOwned, JobsOnce,
      MemEdited, CalledAfterAdmission, CalledAtMostOnce, DependencyOrder

\* A handler's result changes nothing but its job.
LEMMA FinishKeeps ==
  ASSUME IInv, NEW c \in Client, NEW n \in Node,
         NEW o \in OutcomeState \cup {"Deferred"}, Finish(c, n, o)
  PROVE  IInv'
<1>1. /\ TypeOK
      /\ job' = [job EXCEPT ![c][n] = o]
      /\ o = "Succeeded" => n \in handled
      /\ pc[c] = "open"
      /\ UNCHANGED <<store, saves, pc, mem, calls, handled>>
  BY DEF Finish, IInv
<1>2. o \in JobState /\ o \notin {"todo", "called"}
  BY DEF JobState, OutcomeState
<1>3. /\ job' \in [Client -> [Node -> JobState]] /\ job'[c][n] = o
      /\ \A d \in Client, m \in Node : d # c \/ m # n => job'[d][m] = job[d][m]
  BY <1>1, <1>2 DEF TypeOK
<1>4. TypeOK'
  BY <1>1, <1>3 DEF TypeOK
<1>5. JobsOnce' /\ JobsTruthful'
  BY <1>1, <1>2, <1>3 DEF IInv, JobsOnce, JobsTruthful
<1>6. IdleHasNothing'
  BY <1>1 DEF IInv, IdleHasNothing, TypeOK
<1>7. SavesLegal'
  BY <1>1 DEF IInv, SavesLegal
<1>8. QED
  BY <1>1, <1>4, <1>5, <1>6, <1>7
  DEF IInv, VersionsBehind, AbsentIsPending, SavesOwned, MemEdited,
      CalledAfterAdmission, CalledAtMostOnce, ReconciledEnded, DependencyOrder

\* Recording an outcome is a runner call that also clears the job.
LEMMA RecordOutcomeKeeps ==
  ASSUME IInv, NEW c \in Client, NEW n \in Node, RecordOutcome(c, n)
  PROVE  IInv'
<1> DEFINE next == SetState(mem[c].st, n, job[c][n])
<1>1. /\ TypeOK /\ mem[c] \in Row /\ mem[c].st \in GraphState
      /\ mem[c].version <= store.version
  BY TypeFields DEF IInv, VersionsBehind, TypeOK
<1>2. /\ pc[c] = "open" /\ job[c][n] \in OutcomeState /\ mem[c].st[n] = "Running"
      /\ Issue(c, mem[c], next, {})
      /\ job' = [job EXCEPT ![c][n] = "none"]
      /\ UNCHANGED <<store, calls, handled>>
  BY DEF RecordOutcome
<1>3. job[c][n] = "Succeeded" => n \in handled
  BY DEF IInv, JobsTruthful
<1>4. GraphStep(mem[c].st, next, handled) /\ next \in GraphState
  BY <1>1, <1>2, <1>3, EndIsStep
<1>5. StaysInterrupted(mem[c].st, next)
  <2>1. job[c][n] \in NodeState
    BY <1>2 DEF OutcomeState, NodeState
  <2>2. QED
    BY <1>1, <1>2, <2>1, SetStateNodes DEF StaysInterrupted
<1>6. mem[c].version = store.version =>
        Edited(store.st, mem[c].st) /\ mem[c].reconciled = store.reconciled
  BY <1>2 DEF IInv, MemEdited
<1> HIDE DEF next
<1>7. /\ job' \in [Client -> [Node -> JobState]]
      /\ \A d \in Client, m \in Node : job'[d][m] = job[d][m] \/ job'[d][m] = "none"
  <2>1. "none" \in JobState
    BY DEF JobState
  <2>2. QED
    BY <1>1, <1>2, <2>1 DEF TypeOK
<1>8. pc[c] # "saving" /\ Issue(c, mem[c], next, {})
  BY <1>2
<1>9. UNCHANGED <<store, calls, handled>>
  BY <1>2
<1>10. QED
  BY <1>1, <1>4, <1>5, <1>6, <1>7, <1>8, <1>9, IssuePlainKeeps

-----------------------------------------------------------------------------
(* The end of a save, and of a client. *)

\* A client that leaves gives up its claims.
LEMMA LeaveJobs ==
  ASSUME TypeOK, NEW c \in Client, Leave(c)
  PROVE  /\ pc' \in [Client -> {"idle", "open", "saving"}] /\ pc'[c] = "idle"
         /\ mem' \in [Client -> Row] /\ mem'[c] = Absent
         /\ job' \in [Client -> [Node -> JobState]] /\ job'[c] = NoJobs
         /\ \A d \in Client \ {c} :
              pc'[d] = pc[d] /\ mem'[d] = mem[d] /\ job'[d] = job[d]
<1>1. Absent \in Row
  BY DEF Absent, Row, AllPending, GraphState, NodeState
<1>2. NoJobs \in [Node -> JobState]
  BY DEF NoJobs, JobState
<1>3. QED
  BY <1>1, <1>2 DEF Leave, TypeOK

\* Leaving, with its save refused, abandoned or absent, keeps the invariant.
LEMMA LeaveKeeps ==
  ASSUME IInv, NEW c \in Client, Leave(c),
         UNCHANGED <<store, calls, handled>>,
         saves' \in SUBSET Save,
         \A t \in saves' : \/ t \in saves /\ t.owner # c
                           \/ /\ t.owner = Dropped
                              /\ \E s \in saves : /\ t.expected = s.expected
                                                  /\ t.st = s.st /\ t.batch = s.batch
                                                  /\ t.reconciled = s.reconciled
  PROVE  IInv'
<1>1. TypeOK
  BY DEF IInv
<1>2. /\ pc' \in [Client -> {"idle", "open", "saving"}] /\ pc'[c] = "idle"
      /\ mem' \in [Client -> Row] /\ mem'[c] = Absent
      /\ job' \in [Client -> [Node -> JobState]] /\ job'[c] = NoJobs
      /\ \A d \in Client \ {c} :
           pc'[d] = pc[d] /\ mem'[d] = mem[d] /\ job'[d] = job[d]
  BY <1>1, LeaveJobs
<1>3. TypeOK'
  BY <1>1, <1>2 DEF TypeOK
<1>4. VersionsBehind'
  <2>1. /\ store.version \in Nat /\ Absent.version = 0
        /\ \A s \in saves : s.expected <= store.version
        /\ \A d \in Client : mem[d].version <= store.version
    BY <1>1, TypeFields DEF IInv, VersionsBehind, Absent
  <2>2. \A d \in Client : mem'[d].version <= store.version
    BY <1>2, <2>1
  <2>3. \A t \in saves' : t.expected <= store.version
    BY <2>1
  <2>4. QED
    BY <2>2, <2>3 DEF VersionsBehind
<1>5. MemEdited' /\ IdleHasNothing'
  BY <1>2 DEF IInv, MemEdited, IdleHasNothing
<1>6. SavesOwned'
  BY <1>1, <1>2, TypeFields DEF IInv, SavesOwned
<1>7. SavesLegal'
  <2>1. SUFFICES ASSUME NEW t \in saves', t.expected = store.version
                 PROVE  /\ GraphStep(store.st, t.st, handled \cup t.reconciled)
                        /\ SettledByDecision(store.st, t.st, store.reconciled, t.reconciled)
                        /\ \A n \in t.batch : store.st[n] = "Pending" /\ t.st[n] = "Running"
    BY DEF SavesLegal
  <2>2. PICK s \in saves : /\ t.expected = s.expected /\ t.st = s.st
                           /\ t.batch = s.batch /\ t.reconciled = s.reconciled
    OBVIOUS
  <2>3. QED
    BY <2>1, <2>2 DEF IInv, SavesLegal
<1>8. \A d \in Client, n \in Node : job'[d][n] = job[d][n] \/ job'[d][n] = "none"
  BY <1>2 DEF NoJobs
<1>9. JobsOnce' /\ JobsTruthful'
  BY <1>8 DEF IInv, JobsOnce, JobsTruthful
<1>10. QED
  BY <1>3, <1>4, <1>5, <1>6, <1>7, <1>9
  DEF IInv, AbsentIsPending, CalledAfterAdmission, CalledAtMostOnce,
      ReconciledEnded, DependencyOrder

\* A refused save leaves no trace but the client's error.
LEMMA SaveFailsKeeps ==
  ASSUME IInv, NEW s \in saves, SaveFails(s)
  PROVE  IInv'
<1>1. saves' = saves \ {s} /\ UNCHANGED <<store, calls, handled>> /\ TypeOK
  BY DEF SaveFails, IInv
<1>2. saves' \in SUBSET Save
  BY <1>1 DEF TypeOK
<1>3. CASE s.owner = Dropped
  <2>1. UNCHANGED <<pc, mem, job>>
    BY <1>3 DEF SaveFails
  <2>2. TypeOK' /\ VersionsBehind'
    BY <1>1, <1>2, <2>1 DEF IInv, TypeOK, VersionsBehind
  <2>3. SavesOwned'
    BY <1>1, <2>1 DEF IInv, SavesOwned
  <2>4. SavesLegal'
    BY <1>1 DEF IInv, SavesLegal
  <2>5. QED
    BY <1>1, <2>1, <2>2, <2>3, <2>4
    DEF IInv, AbsentIsPending, IdleHasNothing, JobsOnce, JobsTruthful, MemEdited,
        CalledAfterAdmission, CalledAtMostOnce, ReconciledEnded, DependencyOrder
<1>4. CASE s.owner # Dropped
  <2>1. s.owner \in Client /\ Leave(s.owner)
    BY <1>1, <1>4, TypeFields DEF SaveFails
  <2>2. \A t \in saves' : t \in saves /\ t.owner # s.owner
    BY <1>1, <1>4 DEF IInv, SavesOwned
  <2>3. QED
    BY <1>1, <1>2, <2>1, <2>2, LeaveKeeps
<1>5. QED
  BY <1>3, <1>4

\* An aborted client leaves its save behind, unowned.
LEMMA AbortKeeps ==
  ASSUME IInv, NEW c \in Client, Abort(c)
  PROVE  IInv'
<1> DEFINE orphan(s) == IF s.owner = c THEN [s EXCEPT !.owner = Dropped] ELSE s
<1>1. /\ Leave(c) /\ UNCHANGED <<store, calls, handled>> /\ TypeOK
      /\ saves' = {orphan(s) : s \in saves}
  BY DEF Abort, IInv
<1>2. \A s \in saves : /\ orphan(s) \in Save
                       /\ orphan(s).expected = s.expected
                       /\ orphan(s).st = s.st /\ orphan(s).batch = s.batch
                       /\ orphan(s).reconciled = s.reconciled
                       /\ \/ orphan(s) = s /\ s.owner # c
                          \/ orphan(s).owner = Dropped
  BY <1>1 DEF TypeOK, Save
<1> HIDE DEF orphan
<1>3. saves' \in SUBSET Save
  BY <1>1, <1>2
<1>4. \A t \in saves' : \/ t \in saves /\ t.owner # c
                        \/ /\ t.owner = Dropped
                           /\ \E s \in saves : /\ t.expected = s.expected
                                               /\ t.st = s.st /\ t.batch = s.batch
                                               /\ t.reconciled = s.reconciled
  BY <1>1, <1>2
<1>5. QED
  BY <1>1, <1>3, <1>4, LeaveKeeps

\* A deferred node ends its client's run.
LEMMA RecordDeferredKeeps ==
  ASSUME IInv, NEW c \in Client, NEW n \in Node, RecordDeferred(c, n)
  PROVE  IInv'
<1>1. /\ Leave(c) /\ UNCHANGED <<store, saves, calls, handled>> /\ TypeOK
      /\ pc[c] = "open"
  BY DEF RecordDeferred, IInv
<1>2. \A s \in saves : s.owner # c
  BY <1>1, DroppedAssumption DEF IInv, SavesOwned
<1>3. saves' \in SUBSET Save
  BY <1>1 DEF TypeOK
<1>4. QED
  BY <1>1, <1>2, <1>3, LeaveKeeps

\* A crash loses everything but the row.
LEMMA CrashKeeps ==
  ASSUME IInv, Crash
  PROVE  IInv'
<1>1. /\ saves' = {} /\ pc' = [c \in Client |-> "idle"]
      /\ mem' = [c \in Client |-> Absent] /\ job' = [c \in Client |-> NoJobs]
      /\ UNCHANGED <<store, calls, handled>> /\ TypeOK
  BY DEF Crash, IInv
<1>2. Absent \in Row /\ NoJobs \in [Node -> JobState]
  BY DEF Absent, Row, AllPending, GraphState, NodeState, NoJobs, JobState
<1>3. TypeOK'
  BY <1>1, <1>2 DEF TypeOK
<1>4. VersionsBehind' /\ MemEdited' /\ IdleHasNothing'
  BY <1>1, TypeFields DEF VersionsBehind, MemEdited, IdleHasNothing, Absent
<1>5. SavesOwned' /\ SavesLegal' /\ JobsOnce' /\ JobsTruthful'
  BY <1>1 DEF SavesOwned, SavesLegal, JobsOnce, JobsTruthful, NoJobs
<1>6. QED
  BY <1>1, <1>3, <1>4, <1>5
  DEF IInv, AbsentIsPending, CalledAfterAdmission, CalledAtMostOnce,
      ReconciledEnded, DependencyOrder

\* A committed save is a legal step of the row.
LEMMA CommitIsStep ==
  ASSUME IInv, NEW s \in saves, SaveCommits(s)
  PROVE  /\ s.st \in GraphState /\ store.st \in GraphState
         /\ GraphStep(store.st, s.st, handled \cup s.reconciled)
         /\ SettledByDecision(store.st, s.st, store.reconciled, s.reconciled)
         /\ store'.st = s.st /\ store'.version = store.version + 1
         /\ store'.reconciled = s.reconciled
<1>1. s.st \in GraphState /\ store.st \in GraphState
  BY TypeFields DEF IInv
<1>2. /\ GraphStep(store.st, s.st, handled \cup s.reconciled)
      /\ SettledByDecision(store.st, s.st, store.reconciled, s.reconciled)
  BY DEF SaveCommits, IInv, SavesLegal
<1>3. QED
  BY <1>1, <1>2 DEF SaveCommits

\* The commit of a save whose version is current keeps the invariant: every
\* other save and every other client is outdated from here on.
LEMMA SaveCommitsKeeps ==
  ASSUME IInv, NEW s \in saves, SaveCommits(s)
  PROVE  IInv'
<1>1. /\ s.expected = store.version
      /\ store' = [version |-> store.version + 1, st |-> s.st, reconciled |-> s.reconciled]
      /\ saves' = saves \ {s}
      /\ UNCHANGED <<calls, handled>>
      /\ TypeOK
  BY DEF SaveCommits, IInv
<1>2. /\ store.version \in Nat /\ s.st \in GraphState /\ store.st \in GraphState
      /\ store' \in Row /\ store'.st = s.st /\ store'.version = store.version + 1
      /\ store'.reconciled = s.reconciled
  BY <1>1, TypeFields DEF Row
<1>3. /\ GraphStep(store.st, s.st, handled \cup s.reconciled)
      /\ SettledByDecision(store.st, s.st, store.reconciled, s.reconciled)
  BY CommitIsStep
<1>4. \A n \in Node :
        /\ store.st[n] \notin {"Pending", "Skipped"} =>
             s.st[n] \notin {"Pending", "Skipped"}
        /\ store.st[n] \in Decision => s.st[n] = store.st[n]
  BY <1>2, <1>3, LegalStepKeeps DEF GraphStep, GraphState, Decision, Unsuccessful
<1>5. \A n \in s.batch : store.st[n] = "Pending" /\ s.st[n] = "Running"
  BY <1>1 DEF IInv, SavesLegal
<1>6. s.batch \in SUBSET Node /\ s.owner \in Client \cup {Dropped}
  BY <1>1, TypeFields
<1>7. /\ pc' \in [Client -> {"idle", "open", "saving"}]
      /\ mem' \in [Client -> Row]
      /\ job' \in [Client -> [Node -> JobState]]
      /\ \A d \in Client :
           d # s.owner => pc'[d] = pc[d] /\ mem'[d] = mem[d] /\ job'[d] = job[d]
      /\ s.owner \in Client =>
           /\ pc'[s.owner] = "open" /\ mem'[s.owner] = store'
           /\ \A n \in Node : job'[s.owner][n] =
                IF n \in s.batch THEN "todo" ELSE job[s.owner][n]
  <2>1. CASE s.owner = Dropped
    BY <1>1, <2>1, DroppedAssumption DEF SaveCommits, Adopt, TypeOK
  <2>2. CASE s.owner \in Client
    <3>1. /\ pc' = [pc EXCEPT ![s.owner] = "open"]
          /\ mem' = [mem EXCEPT ![s.owner] = store']
          /\ job' = [job EXCEPT ![s.owner] =
               [n \in Node |-> IF n \in s.batch THEN "todo" ELSE @[n]]]
      BY <2>2, DroppedAssumption DEF SaveCommits, Adopt
    <3>2. [n \in Node |-> IF n \in s.batch THEN "todo" ELSE job[s.owner][n]]
            \in [Node -> JobState]
      BY <1>1, <2>2 DEF TypeOK, JobState
    <3>3. QED
      BY <1>1, <1>2, <2>2, <3>1, <3>2 DEF TypeOK
  <2>3. QED
    BY <1>6, <2>1, <2>2
<1>8. TypeOK'
  BY <1>1, <1>2, <1>7 DEF TypeOK
<1>9. VersionsBehind'
  BY <1>1, <1>2, <1>7, TypeFields DEF IInv, VersionsBehind
<1>10. AbsentIsPending'
  BY <1>2 DEF AbsentIsPending
<1>11. MemEdited'
  <2>1. SUFFICES ASSUME NEW d \in Client, mem'[d].version = store'.version
                 PROVE  mem'[d] = store'
    BY DEF MemEdited, Edited
  <2>2. QED
    BY <1>1, <1>2, <1>7, <2>1, TypeFields DEF IInv, VersionsBehind
<1>12. SavesOwned'
  <2>1. \A t \in saves' : t.owner # Dropped => t.owner # s.owner
    BY <1>1 DEF IInv, SavesOwned
  <2>2. QED
    BY <1>1, <1>7, <2>1, TypeFields DEF IInv, SavesOwned
<1>13. SavesLegal'
  BY <1>1, <1>2, TypeFields DEF IInv, VersionsBehind, SavesLegal
<1>14. IdleHasNothing'
  BY <1>6, <1>7 DEF IInv, IdleHasNothing
<1>15. CalledAfterAdmission' /\ CalledAtMostOnce'
  BY <1>1, <1>2, <1>4 DEF IInv, CalledAfterAdmission, CalledAtMostOnce
<1>16. \A n \in s.batch : /\ calls[n] = 0
                          /\ \A d \in Client : job[d][n] # "todo"
  BY <1>1, <1>5, <1>6 DEF IInv, TypeOK, CalledAfterAdmission, JobsOnce
<1>17. JobsOnce'
  <2>1. \A d \in Client, n \in Node : job'[d][n] = "todo" =>
          \/ job[d][n] = "todo"
          \/ d = s.owner /\ n \in s.batch
    BY <1>7
  <2>2. \A n \in Node :
          /\ store.st[n] \notin {"Pending", "Skipped"} =>
               store'.st[n] \notin {"Pending", "Skipped"}
          /\ n \in s.batch => store'.st[n] = "Running" /\ calls'[n] = 0
    BY <1>1, <1>2, <1>4, <1>5, <1>16
  <2>3. \A d \in Client, n \in Node : job'[d][n] = "todo" =>
          calls'[n] = 0 /\ store'.st[n] \notin {"Pending", "Skipped"}
    BY <1>1, <2>1, <2>2 DEF IInv, JobsOnce
  <2>4. \A c, d \in Client, n \in Node :
          job'[c][n] = "todo" /\ job'[d][n] = "todo" => c = d
    BY <1>16, <2>1 DEF IInv, JobsOnce
  <2>5. QED
    BY <2>3, <2>4 DEF JobsOnce
<1>18. JobsTruthful'
  <2>1. SUFFICES ASSUME NEW c \in Client, NEW n \in Node
                 PROVE  /\ job'[c][n] = "called" => calls[n] = 1
                        /\ job'[c][n] = "Succeeded" => n \in handled
    BY <1>1 DEF JobsTruthful
  <2>2. job'[c][n] = "todo" \/ job'[c][n] = job[c][n]
    BY <1>7
  <2>3. QED
    BY <2>2 DEF IInv, JobsTruthful
<1>19. ReconciledEnded'
  <2>1. s.reconciled \in SUBSET Node
    BY <1>1, TypeFields
  <2>2. QED
    BY <1>2, <1>3, <1>4, <2>1 DEF IInv, ReconciledEnded, SettledByDecision
<1>20. DependencyOrder'
  BY <1>1, <1>2, <1>3, GraphStepKeepsOrder DEF IInv, DependencyOrder
<1>21. QED
  BY <1>8, <1>9, <1>10, <1>11, <1>12, <1>13, <1>14, <1>15, <1>17, <1>18, <1>19, <1>20
  DEF IInv

-----------------------------------------------------------------------------
(* The specification. *)

\* The invariant is inductive.
LEMMA NextKeeps == IInv /\ [Next]_vars => IInv'
<1>1. SUFFICES ASSUME IInv, [Next]_vars PROVE IInv'
  OBVIOUS
<1>2. CASE UNCHANGED vars
  <2>1. TypeOK' /\ VersionsBehind' /\ AbsentIsPending' /\ IdleHasNothing'
    BY <1>1, <1>2 DEF vars, IInv, TypeOK, VersionsBehind, AbsentIsPending, IdleHasNothing
  <2>2. SavesOwned' /\ MemEdited'
    BY <1>1, <1>2 DEF vars, IInv, SavesOwned, MemEdited
  <2>6. UNCHANGED <<store, saves, handled>> /\ SavesLegal
    BY <1>1, <1>2 DEF vars, IInv
  <2>7. SavesLegal'
    BY <2>6 DEF SavesLegal
  <2>3. JobsOnce' /\ JobsTruthful'
    BY <1>1, <1>2 DEF vars, IInv, JobsOnce, JobsTruthful
  <2>4. CalledAfterAdmission' /\ CalledAtMostOnce' /\ ReconciledEnded' /\ DependencyOrder'
    BY <1>1, <1>2 DEF vars, IInv, CalledAfterAdmission, CalledAtMostOnce, ReconciledEnded,
       DependencyOrder
  <2>5. QED
    BY <2>1, <2>2, <2>3, <2>4, <2>7 DEF IInv
<1>3. ASSUME NEW c \in Client, RunnerCall(c) PROVE IInv'
  BY <1>1, <1>3, RunnerCallKeeps
<1>4. ASSUME NEW c \in Client, HandlerStep(c) PROVE IInv'
  BY <1>1, <1>4, CallHandlerKeeps, TakeEffectKeeps, FinishKeeps, RecordOutcomeKeeps,
     RecordDeferredKeeps DEF HandlerStep
<1>5. ASSUME NEW c \in Client, Abort(c) PROVE IInv'
  BY <1>1, <1>5, AbortKeeps
<1>6. ASSUME NEW s \in saves, SaveCommits(s) \/ SaveFails(s) PROVE IInv'
  BY <1>1, <1>6, SaveCommitsKeeps, SaveFailsKeeps
<1>7. CASE Crash
  BY <1>1, <1>7, CrashKeeps
<1>8. QED
  BY <1>1, <1>2, <1>3, <1>4, <1>5, <1>6, <1>7 DEF Next

\* The strengthened invariant holds in every reachable state.
THEOREM Invariance == Spec => []IInv
  BY InitIInv, NextKeeps, PTL DEF Spec

\* The runner's state is well typed: a recovery or a late save never leaves the
\* row, a client or a save with anything but a graph of the compiled nodes.
THEOREM TypeCorrect == Spec => []TypeOK
<1>1. IInv => TypeOK
  BY DEF IInv
<1>2. QED
  BY <1>1, Invariance, PTL

\* A client with a current version holds the stored graph.
THEOREM Coherence == Spec => []CacheCoherent
<1>1. IInv => CacheCoherent
  BY DEF IInv, MemEdited, Edited, CacheCoherent
<1>2. QED
  BY <1>1, Invariance, PTL

\* A handler is called only once the row shows its node as started.
THEOREM AdmissionFirst == Spec => []CalledAfterAdmission
<1>1. IInv => CalledAfterAdmission
  BY DEF IInv
<1>2. QED
  BY <1>1, Invariance, PTL

\* No handler is called twice, across clients, late saves, aborts and crashes.
THEOREM AtMostOnce == Spec => []CalledAtMostOnce
<1>1. IInv => CalledAtMostOnce
  BY DEF IInv
<1>2. QED
  BY <1>1, Invariance, PTL

\* A node the row shows as interrupted is settled by a recorded reconciliation
\* only, and neither the record nor the decision is ever overwritten, whatever
\* saves the interrupted clients left behind.
THEOREM DecisionsStand == Spec => InterruptedAwaitsDecision
<1> DEFINE Stands ==
      \A n \in Node :
        /\ store.st[n] = "RecoveryRequired" /\ store'.st[n] # "RecoveryRequired" =>
             n \in store'.reconciled
        /\ n \in store.reconciled =>
             n \in store'.reconciled /\ store'.st[n] = store.st[n]
<1>1. ASSUME IInv, [Next]_vars PROVE Stands \/ UNCHANGED vars
  <2>1. CASE UNCHANGED store
    BY <2>1
  <2>2. ASSUME NEW s \in saves, SaveCommits(s) PROVE Stands
    <3>1. /\ s.st \in GraphState /\ store.st \in GraphState
          /\ GraphStep(store.st, s.st, handled \cup s.reconciled)
          /\ SettledByDecision(store.st, s.st, store.reconciled, s.reconciled)
          /\ store'.st = s.st /\ store'.reconciled = s.reconciled
      BY <1>1, <2>2, CommitIsStep
    <3>2. \A n \in Node : store.st[n] \in Decision => s.st[n] = store.st[n]
      BY <3>1, LegalStepKeeps DEF GraphStep, GraphState, Decision, Unsuccessful
    <3>3. \A n \in Node : n \in store.reconciled => store.st[n] \in Decision
      BY <1>1 DEF IInv, ReconciledEnded
    <3>4. QED
      BY <3>1, <3>2, <3>3 DEF SettledByDecision
  <2>3. UNCHANGED store \/ \E s \in saves : SaveCommits(s)
    <3>1. ASSUME NEW c \in Client, RunnerCall(c) PROVE UNCHANGED store
      BY <3>1 DEF RunnerCall, Initialize, Recover, Admit, CommitSettled, CommitIntents,
         CommitBlocked, EditInMemory, ReconcileNode
    <3>2. ASSUME NEW c \in Client, HandlerStep(c) PROVE UNCHANGED store
      BY <3>2 DEF HandlerStep, CallHandler, TakeEffect, Finish, RecordOutcome,
         RecordDeferred
    <3>3. ASSUME NEW c \in Client, Abort(c) PROVE UNCHANGED store
      BY <3>3 DEF Abort
    <3>4. ASSUME NEW s \in saves, SaveFails(s) PROVE UNCHANGED store
      BY <3>4 DEF SaveFails
    <3>5. Crash \/ UNCHANGED vars => UNCHANGED store
      BY DEF Crash, vars
    <3>6. QED
      BY <1>1, <3>1, <3>2, <3>3, <3>4, <3>5 DEF Next
  <2>4. QED
    BY <2>1, <2>2, <2>3
<1>2. IInv /\ [Next]_vars => [Stands]_vars
  BY <1>1
<1>3. QED
  BY <1>2, Invariance, PTL DEF Spec, InterruptedAwaitsDecision

\* The row never shows a node started before its prerequisites, or skipped
\* without a prerequisite that did not succeed.
THEOREM OrderKept == Spec => []DependencyOrder
<1>1. IInv => DependencyOrder
  BY DEF IInv
<1>2. QED
  BY <1>1, Invariance, PTL
=============================================================================
