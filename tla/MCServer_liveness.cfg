SPECIFICATION FairSpec

CONSTANTS
  alice = alice
  right = right
  None = None
  Text = {alice, right}
  Credentials <- MCCredentials
  Conn = {c1, c2, c3}
  Fd = {f1, f2}
  Input <- MCTraffic
  MaxLines <- LinesOfOne
  c1 = c1

INVARIANTS SessionPerSocket NoSpuriousCall
PROPERTIES EveryLineServed HangupsReaped SessionsAreIndependent

CHECK_DEADLOCK FALSE
