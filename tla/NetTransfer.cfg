\* Empty files, files of one piece and of two; three operations, so that two
\* overlap before, or after, one that is alone; one PDU of another user.
CONSTANTS
  Sizes = {0, 2}
  MaxClicks = 3
  MaxPushes = 1
SPECIFICATION Spec
INVARIANTS TransfersWhole NotGarbled
CHECK_DEADLOCK FALSE
