SPECIFICATION FairSpec

CONSTANTS
  alice = alice
  right = right
  dir = dir
  x = x
  y = y
  None = None
  Text <- MCText
  Credentials <- MCCredentials
  me = c1
  Input <- MCInput
  MaxLines = 4
  MaxTyped = 3

INVARIANTS TypeOK QueuesMatchRequests LeavesNothingBehind
PROPERTY ClientEnds

CHECK_DEADLOCK FALSE
