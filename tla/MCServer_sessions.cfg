SPECIFICATION Spec

CONSTANTS
  alice = alice
  right = right
  None = None
  Text = {alice, right}
  Credentials <- MCCredentials
  Conn = {c1, c2}
  Fd = {f1, f2}
  Input <- MCInput
  MaxLines <- LongLines
  c1 = c1

INVARIANT TypeOK
PROPERTY SessionsAreIndependent
SYMMETRY FdSymmetry

CHECK_DEADLOCK FALSE
