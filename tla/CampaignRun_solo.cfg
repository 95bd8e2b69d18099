\* A TUI and two CLI processes, one alive at a time, all commands, kills
\* anywhere; two quests and the follow-up of the first.
SPECIFICATION Spec
CONSTANTS
  a = a  b = b
  c1 = c1  c2 = c2  c3 = c3  u1 = u1  s1 = s1  s2 = s2
  tc1 = tc1  tc2 = tc2  tc3 = tc3  tu1 = tu1  ts1 = ts1  ts2 = ts2  ts3 = ts3
  NoPid = NoPid  NoQuest = NoQuest  NoProject = NoProject
  Quests = {1, 2, 3, 4}
  Planned <- TwoPlanned
  Deps <- ChainDeps
  Projects = {a, b}
  HomeProject <- ChainHome
  Rules <- OneRule
  Cli = {c1, c2}
  Tui = {u1}
  Server = {}
  Threads = {tc1, tc2, tu1}
  PidOf <- Owner
  Jobs = {"look", "run", "resume", "triage"}
  Crashable = {c1, c2, u1}
  MaxLive = 1
INVARIANTS
  FollowUpOnce RunDrains
PROPERTIES
  VerdictHonest LifecycleSpec
CHECK_DEADLOCK FALSE
