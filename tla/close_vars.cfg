CONSTANTS
  Programs <- WellScoped
  Slots = 8
  MaxValues = 6
  MaxDepth = 3
SPECIFICATION Spec
INVARIANTS ClosedInTime
PROPERTIES IsScopeGuards
CHECK_DEADLOCK FALSE
