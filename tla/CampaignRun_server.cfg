\* A server with two worker threads that is killed and started again, given run requests and
\* requests that only boot; then a TUI that may be cancelled at any point of a run whose
\* agents may hang.
SPECIFICATION CancelSpec
CONSTANTS
  a = a  b = b
  c1 = c1  c2 = c2  c3 = c3  u1 = u1  s1 = s1  s2 = s2
  tc1 = tc1  tc2 = tc2  tc3 = tc3  tu1 = tu1  ts1 = ts1  ts2 = ts2  ts3 = ts3
  NoPid = NoPid  NoQuest = NoQuest  NoProject = NoProject
  Quests = {1, 2}
  Planned <- TwoPlanned
  Deps <- ChainDeps
  Projects = {a, b}
  HomeProject <- ChainHome
  Rules = {}
  Cli = {}
  Tui = {u1}
  Server = {s1, s2}
  Threads = {tu1, ts1, ts2, ts3}
  PidOf <- Owner
  Jobs = {"look", "run"}
  Crashable = {s1, s2}
  MaxLive = 1
INVARIANTS
  OneRunPerServer SoleWorker DependencyOrder
PROPERTIES
  ReconcileTakesOnlyDead CancelEnds CommandEnds CrashRecovered
CHECK_DEADLOCK FALSE
