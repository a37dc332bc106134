SPECIFICATION Spec

CONSTANTS
  Session = {s1, s2}
  Name <- MCName
  Arg <- MCArg
  MaxPath = 2
  MaxWorkers = 1
  None = None

INVARIANTS TypeOK PathsAgreeWithKernel UploadsStayInDirectory
SYMMETRY SessionSymmetry

\* The server stops when grep terminates it.
CHECK_DEADLOCK FALSE
