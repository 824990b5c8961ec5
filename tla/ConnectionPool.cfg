\* Three connections of which the pool keeps one, two clients that return what
\* they borrow, and a clock of two idle times: enough for growth to MaxSize,
\* starvation, and a scan that reclaims and one that stops half way.
CONSTANTS
  Clients = {c1, c2}
  Conns = {p1, p2, p3}
  InitSize = 1
  MaxSize = 3
  MaxIdleTime = 2
  MaxNow = 4
SPECIFICATION SpecReturning
INVARIANTS PoolSound
PROPERTIES ScanIsComplete PoolNeverStuck
CHECK_DEADLOCK FALSE
