\* A command that switches a rule on, and a reflect.
SPECIFICATION Spec
CONSTANTS
  None = None
  t1 = t1  t2 = t2
  l1 = l1
  Projects = {"api", "web"}
  Proposals <- Learned
  MaxAnswer = 2
  Learners = {l1}
  Runners = {t1, t2}
  MaxRules = 2
  MaxQuests = 3
  MaxReflects = 2
  MaxFires = 3
SYMMETRY Swap
INVARIANTS
  Reviewed
\* Everyone may be done.
CHECK_DEADLOCK FALSE
