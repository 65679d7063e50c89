--------------------------- MODULE ExecutionGraph ---------------------------
(***************************************************************************)
(* The pure part of agent/execution_graph.rs: what one graph of execution  *)
(* nodes allows.  A graph state is a function from Node to NodeState; the  *)
(* topology (Edge) never changes after compilation, so it is a constant.   *)
(* Artifacts, reasons and the append-only transition log are payload: the  *)
(* log is determined by the sequence of graph states.                      *)
(*                                                                         *)
(* Every operator takes a graph state and returns a set of nodes or a new  *)
(* graph state.  The modules that use them own the variables.              *)
(***************************************************************************)
EXTENDS Naturals

CONSTANTS
  Node,     \* the node ids of one compiled graph
  Edge      \* its dependency edges, records [from, to, kind]

EdgeKind == {"Requires", "Consumes", "Validates", "Supersedes", "Finally"}

NodeState ==
  {"Pending", "Running", "Succeeded", "Failed", "Skipped", "Cancelled",
   "RecoveryRequired"}

\* add_edge only connects known nodes.
ASSUME EdgeAssumption == Edge \subseteq [from : Node, to : Node, kind : EdgeKind]

\* add_edge refuses an edge that would close a path (has_path): every set of
\* nodes has a member that depends on no other member.
ASSUME AcyclicAssumption ==
  \A S \in SUBSET Node :
    S # {} => \E n \in S : \A e \in Edge : e.to = n => e.from \notin S

GraphState == [Node -> NodeState]

AllPending == [n \in Node |-> "Pending"]

-----------------------------------------------------------------------------
(* Node states. *)

\* ExecutionNodeState::is_terminal.  RecoveryRequired counts as terminal.
Terminal == {"Succeeded", "Failed", "Skipped", "Cancelled", "RecoveryRequired"}

\* Terminal states that can never lead to success: what makes a dependant
\* unreachable in settle_unreachable.
Unsuccessful == {"Failed", "Skipped", "Cancelled"}

\* checkpoint_is_clean_terminal asks this of every node.
Settled == Terminal \ {"RecoveryRequired"}

CleanTerminal(st) == \A n \in Node : st[n] \in Settled

-----------------------------------------------------------------------------
(* Dependencies. *)

\* Faulty variant: every edge counts as a hard dependency.
AllSources(n) == {e.from : e \in {d \in Edge : d.to = n}}

\* Sources that must have succeeded, and sources that must merely have ended.
HardSources(n) == {e.from : e \in {d \in Edge : d.to = n /\ d.kind # "Finally"}}
FinallySources(n) == {e.from : e \in {d \in Edge : d.to = n /\ d.kind = "Finally"}}

\* Faulty variant: the Finally edges are forgotten.
ReadyWithoutFinally(st) ==
  {n \in Node : st[n] = "Pending" /\ \A m \in HardSources(n) : st[m] = "Succeeded"}

ReadyNodeIds(st) ==
  {n \in Node : /\ st[n] = "Pending"
                /\ \A m \in HardSources(n) : st[m] = "Succeeded"
                /\ \A m \in FinallySources(n) : st[m] \in Terminal}

\* Faulty variants: a Finally edge blocks too; only a failed source blocks.
BlockedByAnyEdge(st, n) ==
  /\ st[n] = "Pending"
  /\ \E m \in HardSources(n) \cup FinallySources(n) : st[m] \in Unsuccessful

BlockedByFailure(st, n) ==
  st[n] = "Pending" /\ \E m \in HardSources(n) : st[m] = "Failed"

\* One turn of the loop in settle_unreachable may skip this node.
Blocked(st, n) ==
  /\ st[n] = "Pending"
  /\ \E m \in HardSources(n) : st[m] \in Unsuccessful

\* The nodes the whole loop skips: the least set of pending nodes closed
\* under "a prerequisite failed, or is itself in the set".
SkipClosed(st, S) ==
  \A n \in Node :
    /\ st[n] = "Pending"
    /\ \E m \in HardSources(n) : st[m] \in Unsuccessful \/ m \in S
    => n \in S

Unreachable(st) ==
  LET pending == {n \in Node : st[n] = "Pending"}
      closed  == {S \in SUBSET pending : SkipClosed(st, S)}
  IN  {n \in pending : \A S \in closed : n \in S}

-----------------------------------------------------------------------------
(* Graph updates.  Each is total; the caller states the guard. *)

SetState(st, n, s) == [st EXCEPT ![n] = s]

CanStartBatch(st, B) == B # {} /\ B \subseteq ReadyNodeIds(st)

StartReadyBatch(st, B) == [n \in Node |-> IF n \in B THEN "Running" ELSE st[n]]

SettleUnreachable(st) ==
  LET skipped == Unreachable(st)
  IN  [n \in Node |-> IF n \in skipped THEN "Skipped" ELSE st[n]]

\* complete_node, fail_node and cancel_node: how record_outcome may end a
\* Running node.
OutcomeState == {"Succeeded", "Failed", "Cancelled"}

\* cancel_node also takes pending nodes; the drivers settle right after it.
CancelPending(st, S) ==
  SettleUnreachable([n \in Node |-> IF n \in S THEN "Cancelled" ELSE st[n]])

\* reconcile_node: a RecoveryRequired node is confirmed one way or the other.
Decision == {"Succeeded", "Failed"}

CanReconcile(st, n) == st[n] = "RecoveryRequired"

\* Faulty variant: interrupted nodes are simply run again.
RestartInterrupted(st) ==
  [n \in Node |-> IF st[n] = "Running" THEN "Pending" ELSE st[n]]

MarkInterrupted(st) ==
  [n \in Node |-> IF st[n] = "Running" THEN "RecoveryRequired" ELSE st[n]]

RecoverFromCheckpoint(st) == SettleUnreachable(MarkInterrupted(st))

\* valid_snapshot_transition: the single steps a stored history may contain.
ValidSnapshotTransition(from, to) ==
  \/ from = "Pending" /\ to \in {"Running", "Cancelled", "Skipped"}
  \/ from = "Running"
       /\ to \in {"Succeeded", "Failed", "Cancelled", "RecoveryRequired"}
  \/ from = "RecoveryRequired" /\ to \in {"Succeeded", "Failed"}

-----------------------------------------------------------------------------
(* What one checkpoint may change, relative to the one before it. *)

\* The states start_node, and only start_node, leads to.
Started == {"Running", "Succeeded", "Failed", "RecoveryRequired"}

\* Between two checkpoints a node takes at most one step of its history, except
\* that a blocked decision is started and failed at once.
LegalNodeStep(from, to) ==
  \/ to = from
  \/ ValidSnapshotTransition(from, to)
  \/ from = "Pending" /\ to = "Failed"

\* A node starts only behind succeeded prerequisites and ended Finally sources.
JustifiedStart(n, from, to) ==
  from[n] \notin Started /\ to[n] \in Started =>
    /\ \A m \in HardSources(n) : from[m] = "Succeeded"
    /\ \A m \in FinallySources(n) : to[m] \in Terminal

\* A node is skipped only because a prerequisite did not succeed.
JustifiedSkip(n, from, to) ==
  from[n] # "Skipped" /\ to[n] = "Skipped" =>
    \E m \in HardSources(n) : to[m] \in Unsuccessful

\* A node succeeds only after its handler took effect.
JustifiedSuccess(n, from, to, handled) ==
  from[n] # "Succeeded" /\ to[n] = "Succeeded" => n \in handled

GraphStep(from, to, handled) ==
  \A n \in Node :
    /\ LegalNodeStep(from[n], to[n])
    /\ JustifiedStart(n, from, to)
    /\ JustifiedSkip(n, from, to)
    /\ JustifiedSuccess(n, from, to, handled)

\* What start_node and settle_unreachable checked still holds: a node that ran
\* has only succeeded prerequisites and ended Finally sources, and a skipped
\* node has a prerequisite that did not succeed.
StartedAfterPrerequisites(st) ==
  \A n \in Node :
    st[n] \in Started =>
      /\ \A m \in HardSources(n) : st[m] = "Succeeded"
      /\ \A m \in FinallySources(n) : st[m] \in Terminal

SkippedForCause(st) ==
  \A n \in Node :
    st[n] = "Skipped" => \E m \in HardSources(n) : st[m] \in Unsuccessful
=============================================================================
