\* A loop thread, its owner and one more thread; three functors: one that the
\* thread-init callback may queue, one from a thread and one from a callback
\* can all be in flight together with a quit().
CONSTANTS
  owner = owner
  Threads = {owner, t}
  Functors = {f1, f2, f3}
  Early = {f1}
  SelfQuit = TRUE
SPECIFICATION ThreadSpec
INVARIANTS NoLostWakeup LoopPtrValid
PROPERTIES QuitTakesEffect ImplementsExecutor StartLoopReturns
CHECK_DEADLOCK FALSE
