CONSTANTS
  Tasks = {t1, t2, t3}
  Others = {o1, o2}
  MaxReads = 3
  PermitCounts = {0, 1, 2}
  Nobody = Nobody
SPECIFICATION FairSpec
INVARIANTS PermitsConserved HandsOver
PROPERTIES WaitersServed NotifyWakes ChangeWakes
CHECK_DEADLOCK FALSE
