\* One connection with a message from a callback and one from another thread,
\* of two bytes each, so that a write can be partial; the other thread may
\* also shut it down, the peer close or reset it, the server be destroyed.
CONSTANTS
  LoopMsgs = {a}
  ForeignMsgs = {c}
  MsgLen = 2
  MaxIn = 1
  HighWater = 3
  Garbage = Garbage
SPECIFICATION Spec
INVARIANTS CallbacksPaired StreamInOrder BufferedDataIsWatched NoDanglingChannel
PROPERTIES PeerCloseReclaims ShutdownCompletes RemovedStaysRemoved
CHECK_DEADLOCK FALSE
