SPECIFICATION FairSpec
CONSTANTS
  c1 = c1
  c2 = c2
  c3 = c3
  c4 = c4
  Cases = {c1, c2, c3, c4}
  Runs = {r1}
  Workers = {w1, w2}
  NoRun = NoRun
  NoCase = NoCase
  PlanFor <- Mixed
  MaxCases = 2
  MaxLinks = 1
  MaxEmails = 2
  FailLimit = 1
  Copies = {}
  ToolsRaise = FALSE
  LiveAgent = FALSE
INVARIANTS TypeOK  StreakIsBounded
PROPERTIES RunEnds
CHECK_DEADLOCK FALSE
