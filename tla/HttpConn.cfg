\* Two workers; one descriptor that two connections use one after the other,
\* with three requests each; a file response needs two writes at least.
CONSTANTS
  Workers = {w1, w2}
  MaxConn = 2
  MaxReq = 3
  HeadLen = 2
  FileLen = 3
  SndBuf = 3
SPECIFICATION Spec
INVARIANTS OneUser ResponsesInOrder
PROPERTIES ClashOnlyAtTheEnd RequestAnswered PeerCloseReclaims
CHECK_DEADLOCK FALSE
