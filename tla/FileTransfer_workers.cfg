SPECIFICATION FairSpec

CONSTANTS
  Transfer = {t1, t2}
  Path = {p1}
  MaxFds = 5
  MaxSize = 2
  None = None

INVARIANTS TypeOK VisibleUploadIsWhole WholeUploadIsKept DownloadIsWhole
PROPERTY TransferEnds

CHECK_DEADLOCK FALSE
