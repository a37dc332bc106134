SPECIFICATION FairSpec

CONSTANTS
  SIZE = 4
  Byte = {b, nl}
  NL = nl
  Window = 3
  MaxLine = 2
  MaxSent = 7

INVARIANTS TypeOK LossOnlyByOverrun NoLineDropped
PROPERTIES EveryLineReturned CloseNoticed LinesOfTheStream

CHECK_DEADLOCK FALSE
