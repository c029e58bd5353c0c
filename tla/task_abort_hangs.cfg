CONSTANTS
  t1 = t1
  t2 = t2
  Tasks = {t1}
  Calls = {c1}
  Requests <- OneTaskRequests
SPECIFICATION FairSpec
PROPERTIES AbortReturns
CHECK_DEADLOCK FALSE
