\* Two users, two forms, three actions that reach the store, and a second start.
CONSTANTS
  u1 = u1
  u2 = u2
  i1 = i1
  i2 = i2
  id1 = id1
  k1 = k1
  k2 = k2
  Users = {u1, u2}
  FormIDs = {id1}
  ContentIDs = {k1, k2}
  IssueNames = {i1, i2}
  Infos <- MCInfos
  SeqNos <- MCSeqNos
  Items <- MCItems
  NoUser = NoUser
  NoInfo = NoInfo
  Absent = Absent
  Removed = Removed
  NoRun = NoRun
  NoChain = NoChain
  MaxLog = 3
  MaxBlock = 2
  MaxLives = 2
SPECIFICATION Spec
INVARIANTS
  TypeOK
  ListedFormsStored
  CommittedTookEffect
  NoReplayDurable
  FiltersSinceStart
\* The bounds end the behaviour.
CHECK_DEADLOCK FALSE
