-------------------------- MODULE SettleLoopProofs --------------------------
(***************************************************************************)
(* The loop of settle_unreachable, for every graph and every start state.  *)
(*                                                                         *)
(* Invariant: the nodes skipped so far are among the unreachable ones, and *)
(* nothing else changed.  When no node is blocked the skipped set is also  *)
(* closed, and the unreachable set is the least closed one.                *)
(***************************************************************************)
EXTENDS SettleLoop, ExecutionGraphTheorems

SkippedSoFar == {n \in Node : start[n] = "Pending" /\ st[n] = "Skipped"}

LoopInv ==
  /\ TypeOK
  /\ SkippedSoFar \subseteq Unreachable(start)
  /\ \A n \in Node \ SkippedSoFar : st[n] = start[n]

\* A blocked node is unreachable in the graph the loop started from.
LEMMA BlockedIsUnreachable ==
  ASSUME LoopInv, NEW n \in Node, Blocked(st, n)
  PROVE  n \in Unreachable(start)
<1>1. start[n] = "Pending" /\ st[n] = "Pending"
  BY DEF LoopInv, Blocked, SkippedSoFar
<1>2. PICK m \in HardSources(n) : st[m] \in Unsuccessful
  BY DEF Blocked
<1>3. m \in Node
  BY <1>2, SourcesAreNodes
<1>4. start[m] \in Unsuccessful \/ m \in SkippedSoFar
  BY <1>2, <1>3 DEF LoopInv
<1>5. ASSUME NEW S \in SUBSET {k \in Node : start[k] = "Pending"}, SkipClosed(start, S)
      PROVE  n \in S
  <2>1. start[m] \in Unsuccessful \/ m \in S
    BY <1>4, <1>5 DEF LoopInv, Unreachable
  <2>2. QED
    BY <1>1, <1>2, <1>5, <2>1 DEF SkipClosed
<1>6. QED
  BY <1>1, <1>5 DEF Unreachable

\* The invariant holds in every state of the loop.
LEMMA LoopInvInductive == Init /\ [][Next]_vars => []LoopInv
<1>1. Init => LoopInv
  BY DEF Init, LoopInv, TypeOK, SkippedSoFar
<1>2. LoopInv /\ [Next]_vars => LoopInv'
  <2>1. SUFFICES ASSUME LoopInv, [Next]_vars PROVE LoopInv'
    OBVIOUS
  <2>2. CASE UNCHANGED vars
    BY <2>1, <2>2 DEF vars, LoopInv, TypeOK, SkippedSoFar
  <2>3. ASSUME NEW n \in Node, SkipOne(n) PROVE LoopInv'
    <3>1. n \in Unreachable(start) /\ start' = start /\ st[n] = "Pending"
      BY <2>1, <2>3, BlockedIsUnreachable DEF SkipOne, Blocked
    <3>2. st' = [st EXCEPT ![n] = "Skipped"]
      BY <2>3 DEF SkipOne, SetState
    <3>3. TypeOK'
      BY <2>1, <3>1, <3>2 DEF LoopInv, TypeOK, GraphState, NodeState
    <3>4. n \notin SkippedSoFar /\ start[n] = "Pending"
      BY <2>1, <3>1 DEF LoopInv, SkippedSoFar
    <3>5. SkippedSoFar' = SkippedSoFar \cup {n}
      BY <2>1, <3>1, <3>2, <3>4 DEF LoopInv, TypeOK, GraphState, SkippedSoFar
    <3>6. QED
      BY <2>1, <3>1, <3>2, <3>3, <3>5 DEF LoopInv, TypeOK, GraphState
  <2>4. QED
    BY <2>1, <2>2, <2>3 DEF Next
<1>3. QED
  BY <1>1, <1>2, PTL

\* The loop of settle_unreachable computes the least closed set, in whatever
\* order it finds blocked nodes.
THEOREM LoopCorrect == Spec => []LoopComputesUnreachable
<1>1. LoopInv => LoopComputesUnreachable
  <2>1. SUFFICES ASSUME LoopInv, LoopDone PROVE st = SettleUnreachable(start)
    BY DEF LoopComputesUnreachable
  <2>2. SkipClosed(start, SkippedSoFar)
    <3>1. SUFFICES ASSUME NEW n \in Node, start[n] = "Pending", n \notin SkippedSoFar,
                          NEW m \in HardSources(n),
                          start[m] \in Unsuccessful \/ m \in SkippedSoFar
                   PROVE  FALSE
      BY DEF SkipClosed
    <3>2. st[n] = "Pending"
      BY <2>1, <3>1 DEF LoopInv
    <3>3. m \in Node
      BY SourcesAreNodes
    <3>4. st[m] \in Unsuccessful
      BY <2>1, <3>1, <3>3 DEF LoopInv, SkippedSoFar, Unsuccessful
    <3>5. QED
      BY <2>1, <3>2, <3>4 DEF LoopDone, Blocked
  <2>3. SkippedSoFar \in SUBSET {n \in Node : start[n] = "Pending"}
    BY DEF SkippedSoFar
  <2>4. Unreachable(start) = SkippedSoFar
    BY <2>1, <2>2, <2>3 DEF LoopInv, Unreachable
  <2>5. st \in GraphState
    BY <2>1 DEF LoopInv, TypeOK
  <2>6. \A n \in Node : st[n] = IF n \in SkippedSoFar THEN "Skipped" ELSE start[n]
    BY <2>1 DEF LoopInv, SkippedSoFar
  <2>7. QED
    BY <2>4, <2>5, <2>6 DEF SettleUnreachable, GraphState
<1>2. QED
  BY <1>1, LoopInvInductive, PTL DEF Spec

\* In a settled graph nothing pending is stranded: the first pending node in
\* dependency order has only succeeded prerequisites, so it is ready.
THEOREM SettledGraphAdvances == Spec => []NoSilentStall
<1>1. TypeOK => NoSilentStall
  <2>1. SUFFICES ASSUME TypeOK, LoopDone, ~CleanTerminal(st),
                        \A n \in Node : st[n] \notin {"Running", "RecoveryRequired"}
                 PROVE  ReadyNodeIds(st) # {}
    BY DEF NoSilentStall
  <2> DEFINE pending == {n \in Node : st[n] = "Pending"}
  <2>2. pending # {}
    BY <2>1 DEF CleanTerminal, Settled, Terminal, TypeOK, GraphState, NodeState
  <2>3. PICK n \in pending : \A e \in Edge : e.to = n => e.from \notin pending
    BY <2>2, AcyclicAssumption
  <2>4. ASSUME NEW m \in HardSources(n) \cup FinallySources(n)
        PROVE  m \in Node /\ st[m] \in {"Succeeded", "Failed", "Skipped", "Cancelled"}
    <3>1. m \in Node
      BY <2>4, SourcesAreNodes
    <3>2. m \notin pending
      BY <2>3, <2>4 DEF HardSources, FinallySources
    <3>3. QED
      BY <2>1, <3>1, <3>2 DEF TypeOK, GraphState, NodeState
  <2>5. \A m \in HardSources(n) : st[m] \notin Unsuccessful
    BY <2>1 DEF LoopDone, Blocked
  <2>6. n \in ReadyNodeIds(st)
    BY <2>4, <2>5 DEF ReadyNodeIds, Unsuccessful, Terminal
  <2>7. QED
    BY <2>6
<1>2. LoopInv => TypeOK
  BY DEF LoopInv
<1>3. QED
  BY <1>1, <1>2, LoopInvInductive, PTL DEF Spec

\* The loop takes no node away that was ready to run.
THEOREM ReadyNodesSurvive == Spec => []SkipsNoReadyNode
<1>1. LoopInv => SkipsNoReadyNode
  <2>1. SUFFICES ASSUME LoopInv, NEW n \in ReadyNodeIds(start)
                 PROVE  n \in ReadyNodeIds(st)
    BY DEF SkipsNoReadyNode
  <2>2. n \in Node /\ start[n] = "Pending"
    BY <2>1 DEF ReadyNodeIds
  <2>3. \A m \in HardSources(n) : start[m] = "Succeeded"
    BY <2>1 DEF ReadyNodeIds
  <2> DEFINE P == {k \in Node : start[k] = "Pending"}
             S == Unreachable(start) \ {n}
  <2>4. SkipClosed(start, S)
    <3>1. SUFFICES ASSUME NEW k \in Node, start[k] = "Pending",
                          NEW m \in HardSources(k),
                          start[m] \in Unsuccessful \/ m \in S
                   PROVE  k \in S
      BY DEF SkipClosed
    <3>2. k # n
      BY <2>2, <2>3, <3>1 DEF Unsuccessful, Unreachable
    <3>3. ASSUME NEW T \in SUBSET P, SkipClosed(start, T) PROVE k \in T
      <4>1. start[m] \in Unsuccessful \/ m \in T
        BY <3>1, <3>3 DEF Unreachable
      <4>2. QED
        BY <3>1, <3>3, <4>1 DEF SkipClosed
    <3>4. QED
      BY <3>1, <3>2, <3>3 DEF Unreachable
  <2>5. S \in SUBSET P
    BY DEF Unreachable
  <2>6. n \notin Unreachable(start)
    BY <2>4, <2>5 DEF Unreachable
  <2>7. ASSUME NEW m \in {n} \cup HardSources(n) \cup FinallySources(n)
        PROVE  m \in Node /\ (start[m] # "Pending" \/ m = n => st[m] = start[m])
    BY <2>1, <2>2, <2>6, SourcesAreNodes DEF LoopInv, SkippedSoFar
  <2>8. \A m \in FinallySources(n) : start[m] \in Terminal
    BY <2>1 DEF ReadyNodeIds
  <2>9. QED
    BY <2>2, <2>3, <2>7, <2>8 DEF ReadyNodeIds, Terminal
<1>2. QED
  BY <1>1, LoopInvInductive, PTL DEF Spec
=============================================================================
