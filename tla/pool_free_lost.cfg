SPECIFICATION Spec
CONSTANTS
  w1 = w1
  w2 = w2
  w3 = w3
  t1 = t1
  t2 = t2
  t3 = t3
  NoTask = NoTask
  Workers <- TwoWorkers
  Tasks <- TwoTasks
  QueueSize = 1
  AwaitEach = TRUE
INVARIANT DestroyFrees
