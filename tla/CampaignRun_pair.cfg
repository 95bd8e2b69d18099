\* A CLI process and a TUI race on one campaign: runs, resumes, boots, cancels and kills.
SPECIFICATION Spec
CONSTANTS
  a = a  b = b
  c1 = c1  c2 = c2  c3 = c3  u1 = u1  s1 = s1  s2 = s2
  tc1 = tc1  tc2 = tc2  tc3 = tc3  tu1 = tu1  ts1 = ts1  ts2 = ts2  ts3 = ts3
  NoPid = NoPid  NoQuest = NoQuest  NoProject = NoProject
  Quests = {1, 2}
  Planned <- TwoPlanned
  Deps <- ChainDeps
  Projects = {a, b}
  HomeProject <- ChainHome
  Rules = {}
  Cli = {c1}
  Tui = {u1}
  Server = {}
  Threads = {tc1, tu1}
  PidOf <- Owner
  Jobs = {"look", "run", "resume"}
  Crashable = {c1, u1}
  MaxLive = 2
INVARIANTS
  NoZombie DependenciesDone
CHECK_DEADLOCK FALSE
