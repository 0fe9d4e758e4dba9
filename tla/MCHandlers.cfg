SPECIFICATION FairSpec
CONSTANTS
  w1 = w1
  w2 = w2
  checker = checker
  n1 = n1
  n2 = n2
  c1 = c1
  c2 = c2
  c3 = c3
  NULL = NULL
  Workers = {w1, w2}
  Checker = checker
  Threads = {w1, w2, checker}
  Nodes = {n1, n2}
  Cells = {c1, c2, c3}
  FirstNode = n1
  FirstCell = c1
  Ids = {0, 1}
  LoadedId = 1
  UintRange = 2
  Types = {1, 2, 3, 4, 5, 6, 8, 9}
  Teams = {{w1, w2}, {w1, checker}}
  MaxMessages = 3
CONSTRAINT Starts
INVARIANTS
  HandlersTypeOK
  ContactsKept
  Quiet
  StaysLoaded
PROPERTIES
  
  Handled
CHECK_DEADLOCK FALSE
