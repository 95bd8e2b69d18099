\* Rules: one learner, two runs, two projects; four proposals, answers of one or two of them.
\* Bundles: two machines, three commands, a copy and its import, a plan of two quests and a
\* follow-up, one suspend.
SPECIFICATION MCSpec
CONSTANTS
  None = None
  t1 = t1  t2 = t2
  l1 = l1
  Projects = {"api", "web"}
  Proposals <- Learned
  MaxAnswer = 2
  Learners = {l1}
  Runners = {t1, t2}
  MaxRules = 2
  MaxQuests = 3
  MaxReflects = 2
  MaxFires = 3
  r1 = r1  r2 = r2  r3 = r3
  Machines = {t1, t2}
  Threads = {r1, r2, r3}
  MaxCopies = 2
  Planned = 2
  Needs <- Chain
  MaxPlaces = 3
  MaxSuspends = 1
  Outcomes = {"completed", "needs_input"}
  Nobody = Nobody
  Gone = Gone
SYMMETRY Alike
INVARIANTS
  LearnedSafely ChainsEnd CanGoOn NothingLost
\* Everyone may be done.
CHECK_DEADLOCK FALSE
