SPECIFICATION Spec

CONSTANTS
  alice = alice
  bob = bob
  carol = carol
  right = right
  wrong = wrong
  sandbox = sandbox
  low = low
  high = high
  None = None
  Number <- MCNumber
  Text <- MCText
  File <- MCFile
  Credentials <- MCCredentials
  Conn = {c1}
  Input <- MCInput
  MaxLines <- FiveLines

INVARIANTS TypeOK LoginJustified AnswersJustified LoginByFile

CHECK_DEADLOCK FALSE
