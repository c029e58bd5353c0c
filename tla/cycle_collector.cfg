CONSTANTS
  Tables = {a, m}
  Metatables = {m}
  Closures = {f}
  Publishable = {a, f}
  Cells = {x}
  Passes = {p1, p2}
  None = None
SPECIFICATION Spec
INVARIANTS ReachableIsIntact QueuedOnce FinalizableIsTracked
