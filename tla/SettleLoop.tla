----------------------------- MODULE SettleLoop -----------------------------
(***************************************************************************)
(* settle_unreachable as the code runs it: a loop that skips one blocked   *)
(* node per turn, in any order, until no node is blocked.                  *)
(***************************************************************************)
EXTENDS ExecutionGraph

VARIABLES
  start,    \* the graph state the loop was called on
  st        \* the graph state after the turns taken so far

vars == <<start, st>>

\* The graphs a driver or a recovery can hold: every started node was ready,
\* and every node skipped so far had a cause.
Init ==
  /\ st \in {g \in GraphState : StartedAfterPrerequisites(g) /\ SkippedForCause(g)}
  /\ start = st

SkipOne(n) ==
  /\ Blocked(st, n)
  /\ st' = SetState(st, n, "Skipped")
  /\ UNCHANGED start

Next == \E n \in Node : SkipOne(n)

Spec == Init /\ [][Next]_vars

LoopDone == \A n \in Node : ~Blocked(st, n)

TypeOK == start \in GraphState /\ st \in GraphState

\* The loop of settle_unreachable returns the same graph whichever blocked
\* node each turn finds first: exactly the unreachable nodes are skipped.
LoopComputesUnreachable == LoopDone => st = SettleUnreachable(start)

\* A settled graph in which nothing runs and nothing awaits recovery is either
\* finished or has a node to run.  The drivers' "settle, then look for ready
\* nodes" relies on it: otherwise a graph could stop with pending nodes.
NoSilentStall ==
  /\ LoopDone
  /\ \A n \in Node : st[n] \notin {"Running", "RecoveryRequired"}
  => ReadyNodeIds(st) # {} \/ CleanTerminal(st)

\* Skipping never takes a node that could still run: a node that is ready
\* stays pending for as long as the loop runs.
SkipsNoReadyNode == ReadyNodeIds(start) \subseteq ReadyNodeIds(st)
=============================================================================
