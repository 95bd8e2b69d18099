\* Two runs, two pids; agents keep stdout open until they exit and print UTF-8, or
\* may close it, or print garbage, and go on.
SPECIFICATION FairSpec
CONSTANTS
  p1 = p1  p2 = p2
  NoPid = NoPid
  Pids = {p1, p2}
  MaxRuns = 2
INVARIANTS
  KilledIsCancelled CancelledLeavesNobody LateCancelSpares
PROPERTIES
  CancelStops
CHECK_DEADLOCK FALSE
