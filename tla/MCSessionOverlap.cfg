\* Two requests at a time.
CONSTANTS
  Users = {u1, u2}
  Genesis = {u1}
  FormIDs = {f1}
  ContentIDs = {c1, c2}
  IssueNames = {i1}
  Issues = {i1}
  Forms <- MCForms
  MaxLog = 2
  NoUser = NoUser
  NoInfo = NoInfo
  Absent = Absent
  Removed = Removed
  Handlers = {h1, h2}
  MaxLogins = 2
  MaxPending = 2
SPECIFICATION Spec
INVARIANTS
  AheadByHandlers
SYMMETRY MCSymmetry
\* The bounds end the behaviour, as does a panic of the application.
CHECK_DEADLOCK FALSE
