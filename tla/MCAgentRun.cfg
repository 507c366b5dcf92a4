SPECIFICATION Spec
CONSTANTS
  Calls <- MCCalls
  Models = 2
  MaxTurns = 4
  CycleSpan = 2
  DoomLimit = 2
  BlockedLimit = 2
  ErrorLimit = 1
  MaxContacts = 1
  MaxExtra = 1
  RetryBarred = FALSE
INVARIANTS TypeOK CapHolds
PROPERTIES LoopsAreCut RunEnds
