CONSTANTS
  Calls = {c1, c2, c3}
  Names = {n1, n2}
  Types = {t1, t2}
  Kinds = {"get", "sync", "async"}
  Preemptive = TRUE
  None = None
SPECIFICATION Spec
SYMMETRY Symmetry
INVARIANTS TypeOK MarkerIffGuard SingleFlight DowncastSucceeds
