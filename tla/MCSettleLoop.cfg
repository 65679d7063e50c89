CONSTANTS
  Node <- MCNode
  Edge <- MCEdge
SPECIFICATION Spec
INVARIANT LoopComputesUnreachable
INVARIANT NoSilentStall
INVARIANT SkipsNoReadyNode
CHECK_DEADLOCK FALSE
