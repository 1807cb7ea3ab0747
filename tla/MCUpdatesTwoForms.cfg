\* One connection, two blocks of up to two forms of one user.
CONSTANTS
  Conns = {c1}
  MaxHeight = 2
  MaxTxs = 2
  u1 = u1
  u2 = u2
  i1 = i1
  i2 = i2
  id1 = id1
  id2 = id2
  k1 = k1
  k2 = k2
  NoInfo = NoInfo
  NoReceipt = NoReceipt
  NoHash = NoHash
  Absent = Absent
  Users = {u1, u2}
  Issues = {i1, i2}
  FormIDs = {id1, id2}
  ContentIDs = {k1, k2}
  Txs <- MCTwoForms
SPECIFICATION Spec
PROPERTIES
  EachFormIsAnswered
\* The chain stops at its bound.
CHECK_DEADLOCK FALSE
