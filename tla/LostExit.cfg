CONSTANTS
  Workers = {w1, w2}
  Committers = {c1}
  Tasks = {t1}
  NotifyAll = FALSE
  Destroys = TRUE
  NoOne = NoOne
SPECIFICATION PoolSpec
PROPERTIES DestructorReturns
CHECK_DEADLOCK FALSE
