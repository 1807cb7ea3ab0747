\* One connection; five blocks are enough for a gap, a block below the height of
\* the status, and both after one another.
CONSTANTS
  Conns = {c1}
  MaxHeight = 5
SPECIFICATION Spec
INVARIANTS
  TypeOK
  FeedSkipsNothing
  LatestIsLast
PROPERTIES
  AnnouncedIsReceived
\* The chain stops at its bound.
CHECK_DEADLOCK FALSE
