CONSTANTS
  Node <- PairNode
  Edge <- PairEdge
  Client = {c1, c2}
  Dropped = Dropped
  MaxVersion = 4
  MaxSaves = 2
SPECIFICATION Spec
SYMMETRY ClientSymmetry
INVARIANT CacheCoherent
INVARIANT CalledAtMostOnce
PROPERTY InterruptedAwaitsDecision
PROPERTY ImplementsLifecycle
