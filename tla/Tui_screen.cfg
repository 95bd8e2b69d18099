\* Two campaigns, two quests, a project; two tokens, to see a second worker; tables of up to
\* three rows, written by two threads.
SPECIFICATION MCSpec
CONSTANTS
  p1 = p1  c1 = c1  c2 = c2  q1 = q1  q2 = q2
  None = None
  Projects = {p1}
  Campaigns = {c1, c2}
  Quests = {q1, q2}
  Views <- SomeViews
  Lengths = {1, 4}
  Heights = {2, 3}
  Forms <- SomeForms
  Tokens = {1, 2}
  QuitLimit = 2
  Limits = {1, 2, 3}
  QuestIds = {1, 2}
  CampaignIds = {1}
  Kinds = {"quest_needs_input", "tool_use"}
  LastInstant = 1
  MaxRows = 3
  NoRow = NoRow
  Writers = {w1, w2}
  w1 = w1  w2 = w2
INVARIANTS
  WorkerInHand ScreenHonest ReadRight
PROPERTIES
  HighlightMeant LoopGoesOn
CHECK_DEADLOCK FALSE
