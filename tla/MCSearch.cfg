\* One issue with a filter and one without, three searches, a tree of up to
\* five keys.
CONSTANTS
  Keys = {1, 2, 3, 4, 5}
  FormIDs = {4}
  AccountKeys = {1}
  Submitted <- MCSubmitted
  i1 = i1
  i2 = i2
  Issues = {i1}
  IssueNames = {i1, i2}
  Searches <- MCSearches
  NoForm = NoForm
  NoKey = NoKey
  NoSearch = NoSearch
  NoAnswer = NoAnswer
SPECIFICATION Spec
INVARIANTS
  TypeOK
  NothingLost
  NoGoroutineLeft
PROPERTIES
  ImplementsSearch
  SearchEnds
\* A panic ends the process.
CHECK_DEADLOCK FALSE
