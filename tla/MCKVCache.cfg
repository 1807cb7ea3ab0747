\* Three keys are enough for a node at the head, in the middle and at the tail;
\* two values tell an old one from a new one.
CONSTANTS
  Keys = {k1, k2, k3}
  Values = {v1, v2}
  Nil = Nil
  Empty = Empty
SPECIFICATION Spec
INVARIANTS
  TypeOK
  ListIsOrder
  SyncFollowsOrder
PROPERTIES
  KeepsPromise
  SyncTerminates
