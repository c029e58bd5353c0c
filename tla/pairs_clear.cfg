CONSTANTS
  MaxPosition = 3
  Names = {s}
  Values = {u, v}
  Nil = nil
  ClearsCurrent = TRUE
SPECIFICATION Spec
INVARIANT TraversalIsComplete
