CONSTANTS
  Parts = {"captures", "modules", "table", "for"}
  Cells = {c1, c2}
  Values = {u, v}
  Nil = nil
  Sizes = {1, 2}
  MaxResults = 2
  MaxDepth = 2
  MaxVars = 3
  Arrays = {1, 2, 3, 4}
  PoolCap = 1
  Tasks = {t1, t2}
  Names = {m1, m2}
  Candidates = 2
  MaxMade = 3
  MaxRuns = 2
  None = None
  MaxPosition = 3
  Fields = {s}
  MaxInt = 3
SYMMETRY Symmetry
SPECIFICATION Spec
INVARIANTS OneVariable PoolIsClean OneModule TraversalIsComplete CountsTheRange
PROPERTIES IsMap
CHECK_DEADLOCK FALSE
