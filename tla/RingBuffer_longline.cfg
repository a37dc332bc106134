SPECIFICATION FairSpec

CONSTANTS
  SIZE = 4
  Byte = {b, nl}
  NL = nl
  Window = 3
  MaxLine = 3
  MaxSent = 4

PROPERTY CloseNoticed

CHECK_DEADLOCK FALSE
