CONSTANTS
  t1 = t1
  t2 = t2
  Tasks = {t1, t2}
  Calls = {c1, c2}
  Requests <- MCRequests
SPECIFICATION Spec
INVARIANTS TypeOK CompletesOnce ObserversFirst AbandonedUncollected
PROPERTIES IsPromise
CHECK_DEADLOCK FALSE
