\* Planning: all dependency graphs of three quests, chains over two projects, bad plans.
\* Working: two processes, five files, two lines of each kind, two workers.
SPECIFICATION MCSpec
CONSTANTS
  k1 = k1  k2 = k2  k3 = k3
  here = here  there = there
  Key = {k1, k2, k3}
  Project = {here, there}
  Plans <- AllPlans
  NoDep = NoDep
  None = None
  Procs = {1, 2}
  N = 2
  Configs <- Written
  Lines = {"ask", "ask more", "text", "half an ask", "ok", "bad", "error"}
  MaxLines = 2
  MaxStarts = 2
INVARIANTS
  DagsOnly StoredWhole Prepared BeginsNew
PROPERTIES
  Returns SchemaSpec VerdictOfLines
