\* One loop thread and its owner; two functors, no callback quits the loop.
CONSTANTS
  owner = owner
  Threads = {owner}
  Functors = {f1, f2}
  Early = {f1}
  SelfQuit = FALSE
SPECIFICATION ThreadSpec
PROPERTIES QuitEndsLoop
CHECK_DEADLOCK FALSE
