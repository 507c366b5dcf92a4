SPECIFICATION FairSpec
CONSTANTS
  push1 = push1
  push2 = push2
  Cases = {c1}
  Signals = {push1, push2, recovered}
  Closing = {recovered}
  ScenarioOf <- ScenarioName
  OneShot = {push1, push2}
  Direct = Direct
  Threads = {t1, t2, t3}
  DirectStarts = TRUE
INVARIANTS TypeOK NotSwallowed RunsMeetByRace HeardTwiceByRace
PROPERTIES HandOffIsAnswered
