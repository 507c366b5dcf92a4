SPECIFICATION Spec
CONSTANTS
  c1 = c1
  c2 = c2
  c3 = c3
  c4 = c4
  Cases = {c1}
  Runs = {r1, r2}
  Workers = {w1}
  NoRun = NoRun
  NoCase = NoCase
  PlanFor <- Plans
  MaxCases = 1
  MaxLinks = 1
  MaxEmails = 1
  FailLimit = 2
  Copies = {r2}
  ToolsRaise = TRUE
  LiveAgent = TRUE
INVARIANTS SentTwiceUnseen
CHECK_DEADLOCK FALSE
