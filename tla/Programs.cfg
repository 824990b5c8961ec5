\* Buffer: chunks of one to five bytes and a buffer that starts with three.
\* Bubble: two pages and three clicks, so that two overlap a third; one call is lost.
\* Rpc: two providers and three processes, so that one restarts while the other
\* registers; one failure of zookeeper; callers do not meet, so one.
\* Gobang: boards of 1 (which fills up), of 5, and of 6, the first with room for
\* open threes.
CONSTANTS
  Bytes = {0, 1, 2, 3, 4, 5, 6}
  Zero = 0
  kCheapPrepend = 1
  kInitialSize = 3
  ExtraSize = 3
  Chunks <- MCChunks
  MaxReceived = 9
  Pages = {p1, p2}
  FirstRows = 2
  MaxClicks = 3
  MaxLost = 1
  Providers = {r1, r2}
  Callers = {c1}
  MaxStarts = 3
  MaxTrouble = 1
  Sizes = {1, 5, 6}
  Points <- MCPoints
SPECIFICATION AllSpec
SYMMETRY Symmetry
INVARIANTS FifoOfBytes RowsAreAdded PageIsCurrent Discoverable WaitsForSomething WinIsSeen AnswersFours
CHECK_DEADLOCK FALSE
