SPECIFICATION Spec

CONSTANTS
  alice = alice
  right = right
  dir = dir
  x = x
  y = y
  None = None
  Text <- MCText
  Credentials <- MCCredentials
  me = c1
  Input <- MCPlainInput
  MaxLines = 5
  MaxTyped = 0

INVARIANT RightFile

CHECK_DEADLOCK FALSE
