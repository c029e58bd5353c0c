CONSTANTS
  Calls = {c1, c2, c3}
  Names = {n1, n2}
  Types = {t1, t2}
  Kinds = {"get", "async"}
  Preemptive = FALSE
  None = None
SPECIFICATION FairSpec
PROPERTIES CallsReturn IsWriteOnceMap
