CONSTANTS
  Tasks = {t1, t2, t3}
  Others = {o1, o2}
  Capacities = {0, 1, 2}
  Nobody = Nobody
SPECIFICATION FairSpec
INVARIANTS DeliveredOnce CompletedOnce
PROPERTIES IsClosableQueue ChannelAnswers EmptyMeansEmpty CoveredNextReturns
CHECK_DEADLOCK FALSE
