CONSTANTS
  t1 = t1
  t2 = t2
  Tasks = {t1}
  Calls = {c1, c2}
  Requests <- OneTaskRequests
SPECIFICATION FairSpec
PROPERTIES CancelHonoured StartedTasksAnswer
CHECK_DEADLOCK FALSE
