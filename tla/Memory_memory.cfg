\* Two processes, three commands in all, three projects of which two share a file; documents
\* of up to five paragraphs around the budget, summarized twice.
SPECIFICATION MCSpec
CONSTANTS
  a = a  b = b  u = u  v = v
  None = None
  Procs = {a, b}
  Runs = {u, v}
  Projects = {"luida web", "luida-web", "core"}
  Files = {"luida-web.md", "core.md"}
  FileName <- Dashed
  Planned = 1
  MaxQuests = 2
  MaxCommands = 3
  Documents <- Paragraphs
  Budgets = {0, 1, 2, 4}
  Fanouts = {1, 2, 3}
  MaxBuilds = 2
  NoNode = NoNode
  Texts <- UpToFive
  BudgetChars = {0, 1, 17, 18, 19, 20, 29, 36, 200}
INVARIANTS
  OnFile ChunkedRight ContextKept BuildsWhole
PROPERTIES
  ClosesSeen BuildsReturn
\* A caller stops when it has no more to build.
CHECK_DEADLOCK FALSE
