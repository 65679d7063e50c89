--------------------------- MODULE NodeLifecycle ---------------------------
(***************************************************************************)
(* What the durable runner promises about one task, whoever executes it    *)
(* and however often they are interrupted: one sequence of graph states,   *)
(* each a legal step from the one before, handlers that are called at most *)
(* once and only for nodes that were started in that sequence, and         *)
(* interrupted nodes that only a reconciliation settles, for good.         *)
(***************************************************************************)
EXTENDS ExecutionGraph

VARIABLES
  life,        \* the graph state
  reconciled,  \* the nodes settled by a reconciliation
  calls,       \* how often the handler of each node was called
  handled      \* the nodes whose handler took its external effect

vars == <<life, reconciled, calls, handled>>

Init ==
  /\ life = AllPending
  /\ reconciled = {}
  /\ calls = [n \in Node |-> 0]
  /\ handled = {}

\* What a step may do to the reconciliations: they stay, new ones settle
\* interrupted nodes, and interrupted nodes wait for them.
SettledByDecision(from, to, old, new) ==
  /\ old \subseteq new
  /\ \A n \in new \ old : from[n] = "RecoveryRequired" /\ to[n] \in Decision
  /\ \A n \in Node :
       from[n] = "RecoveryRequired" /\ to[n] # "RecoveryRequired" => n \in new

\* Success takes the effect or a decision.
Advance ==
  /\ life' # life
  /\ life' \in GraphState
  /\ reconciled' \in SUBSET Node
  /\ GraphStep(life, life', handled \cup reconciled')
  /\ SettledByDecision(life, life', reconciled, reconciled')
  /\ UNCHANGED <<calls, handled>>

Call(n) ==
  /\ life[n] \notin {"Pending", "Skipped"}
  /\ calls[n] = 0
  /\ calls' = [calls EXCEPT ![n] = 1]
  /\ UNCHANGED <<life, reconciled, handled>>

TakeEffect(n) ==
  /\ calls[n] = 1
  /\ handled' = handled \cup {n}
  /\ UNCHANGED <<life, reconciled, calls>>

Next == Advance \/ \E n \in Node : Call(n) \/ TakeEffect(n)

Spec == Init /\ [][Next]_vars
=============================================================================
