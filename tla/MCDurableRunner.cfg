CONSTANTS
  Node <- TeamNode
  Edge <- TeamEdge
  Client = {c1}
  Dropped = Dropped
  MaxVersion = 5
  MaxSaves = 2
SPECIFICATION Spec
INVARIANT TypeOK
INVARIANT CalledAfterAdmission
INVARIANT DependencyOrder
