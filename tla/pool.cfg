SPECIFICATION FairSpec
CONSTANTS
  w1 = w1
  w2 = w2
  w3 = w3
  t1 = t1
  t2 = t2
  t3 = t3
  NoTask = NoTask
  Workers <- ThreeWorkers
  Tasks <- ThreeTasks
  QueueSize = 1
  AwaitEach = TRUE
INVARIANT HandlerExclusive
INVARIANT OwnResult
INVARIANT NeverRefused
INVARIANT DestroyDropsNothing
PROPERTY ImplementsSyncCall
PROPERTY EveryTaskAnswered
PROPERTY DestroyReturns
