SPECIFICATION Spec

CONSTANTS
  SIZE = 4
  Byte = {b, nl}
  NL = nl
  Window = 7
  MaxLine = 7
  MaxSent = 7

INVARIANT AtMostOneLess

CHECK_DEADLOCK FALSE
