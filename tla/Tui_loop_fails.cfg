\* The terminal fails while a worker is at work: run_loop returns and nobody cancels it.
\* Same instance as Tui_screen.cfg.
SPECIFICATION MCSpec
CONSTANTS
  p1 = p1  c1 = c1  c2 = c2  q1 = q1  q2 = q2
  None = None
  Projects = {p1}
  Campaigns = {c1, c2}
  Quests = {q1, q2}
  Views <- SomeViews
  Lengths = {1, 4}
  Heights = {2, 3}
  Forms <- SomeForms
  Tokens = {1, 2}
  QuitLimit = 2
  Limits = {1, 2, 3}
  QuestIds = {1, 2}
  CampaignIds = {1}
  Kinds = {"quest_needs_input", "tool_use"}
  LastInstant = 1
  MaxRows = 3
  NoRow = NoRow
  Writers = {w1, w2}
  w1 = w1  w2 = w2
INVARIANTS
  EndsClean
CHECK_DEADLOCK FALSE
