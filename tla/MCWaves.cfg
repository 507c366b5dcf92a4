SPECIFICATION Spec
CONSTANTS
  c1 = c1
  c2 = c2
  Cases = {c1, c2}
  Submitters = {k1}
  Workers = {w1}
  Depth = 1
  NoCase = NoCase
  LiveRuns = FALSE
  Ladder <- MCLadder
  Default <- MCDefault
  MaxWaves = 2
  First <- MCFirst
  Turns <- MCTurns
  Champions = TRUE
INVARIANTS TypeOK SeenHavePlaces RunsRepeatNothing AbortLetsOneThrough
PROPERTIES ExceptionIsHeard
CHECK_DEADLOCK FALSE
