\* Two connections, or one that was opened again.
CONSTANTS
  Conns = {c1, c2}
  MaxHeight = 3
SPECIFICATION Spec
INVARIANTS
  FeedSkipsNothing
CHECK_DEADLOCK FALSE
