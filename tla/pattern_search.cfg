CONSTANTS
  MaxCaptures = 3
  MaxCalls = 8
  Patterns <- MCPatterns
  Subjects <- MCSubjects
  Inits = {1, 2}
  MaxCounts = {1, 9}
SPECIFICATION Spec
INVARIANTS MatchIsPreferred GsubFollowsGmatch
CHECK_DEADLOCK FALSE
