\* The same instance: two threads come to use one slot.
CONSTANTS
  Workers = {w1, w2}
  MaxConn = 1
  MaxReq = 2
  HeadLen = 2
  FileLen = 3
  SndBuf = 3
SPECIFICATION Spec
INVARIANTS OneHandler
CHECK_DEADLOCK FALSE
