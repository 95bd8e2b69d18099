\* A run is killed; two processes boot at once, and one dispatches the quest
\* again while the other still holds the row of the dead runner.
SPECIFICATION Spec
CONSTANTS
  a = a  b = b
  c1 = c1  c2 = c2  c3 = c3  u1 = u1  s1 = s1  s2 = s2
  tc1 = tc1  tc2 = tc2  tc3 = tc3  tu1 = tu1  ts1 = ts1  ts2 = ts2  ts3 = ts3
  NoPid = NoPid  NoQuest = NoQuest  NoProject = NoProject
  Quests = {1}
  Planned <- OnePlanned
  Deps <- ChainDeps
  Projects = {a, b}
  HomeProject <- ChainHome
  Rules = {}
  Cli = {c1, c2, c3}
  Tui = {}
  Server = {}
  Threads = {tc1, tc2, tc3}
  PidOf <- Owner
  Jobs = {"look", "run"}
  Crashable = {c1, c2, c3}
  MaxLive = 2
PROPERTIES
  LiveWorkUntouched
CHECK_DEADLOCK FALSE
