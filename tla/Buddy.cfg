SPECIFICATION Spec
CONSTANTS
  SIZE = 8
  Reserved = 2
  Requests = {0, 2, 3}
  MaxRef = 2
INVARIANTS
  TreeExact
PROPERTIES
  RefinesFrameAllocator
