\* One request at a time: create and log in to a second account, submit, remove.
CONSTANTS
  Users = {u1, u2}
  Genesis = {u1}
  FormIDs = {f1}
  ContentIDs = {c1, c2}
  IssueNames = {i1}
  Issues = {i1}
  Forms <- MCForms
  MaxLog = 3
  NoUser = NoUser
  NoInfo = NoInfo
  Absent = Absent
  Removed = Removed
  Handlers = {h1}
  MaxLogins = 2
  MaxPending = 3
SPECIFICATION Spec
INVARIANTS
  TypeOK
  NeverStuckAhead
  AcceptedOnce
PROPERTIES
  RemovalCostsForm
\* The bounds end the behaviour, as does a panic of the application.
CHECK_DEADLOCK FALSE
