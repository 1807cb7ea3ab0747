\* Two users, one of them in the genesis file, and three accepted actions: each
\* gets through create, remove and create again, an account of the genesis file
\* is borrowed, filed over and created anew.
CONSTANTS
  Users = {u1, u2}
  Genesis = {u1}
  FormIDs <- MCFormIDs
  ContentIDs <- MCForms
  IssueNames <- MCIssueNames
  Issues <- MCIssues
  Infos <- MCInfos
  SeqNos <- MCSeqNos
  MaxLog = 3
  NoUser = NoUser
  NoInfo = NoInfo
  Absent = Absent
  Removed = Removed
SPECIFICATION Spec
INVARIANTS
  TypeOK
  AccountTracksLog
  BorrowedUnused
  NoReplay
  SequenceCountsForms
  ListedFormsFindable
  FormsFollowLog
  FiltersFollowLog
PROPERTIES
  AccountsChangeAsSigned
  ImplementsLifecycle
\* A panic ends the process.
CHECK_DEADLOCK FALSE
