SPECIFICATION Spec

CONSTANTS
  Transfer = {t1, t2}
  Path = {p1}
  MaxFds = 5
  MaxSize = 1
  None = None

INVARIANT DescriptorsClosed

CHECK_DEADLOCK FALSE
