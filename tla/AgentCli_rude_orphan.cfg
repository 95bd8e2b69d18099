\* An agent may close stdout, or print garbage, and go on.
SPECIFICATION FairSpec
CONSTANTS
  p1 = p1  p2 = p2
  NoPid = NoPid
  Pids = {p1, p2}
  MaxRuns = 2
PROPERTY CancelKills
CHECK_DEADLOCK FALSE
