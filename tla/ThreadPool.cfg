\* Two workers, two clients and three tasks; the pool may be destroyed.
CONSTANTS
  Workers = {w1, w2}
  Committers = {c1, c2}
  Tasks = {t1, t2, t3}
  NotifyAll = FALSE
  Destroys = TRUE
  NoOne = NoOne
SPECIFICATION PoolSpec
INVARIANTS NoIdleWithWork TakenInOrder
PROPERTY EveryTaskRuns
CHECK_DEADLOCK FALSE
