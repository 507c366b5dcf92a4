SPECIFICATION Spec
CONSTANTS
    full = full
    less = less
    Email = TRUE
    Phone = TRUE
    VoiceOn = TRUE
    FullRoutes <- OneFull
    LessRoutes <- OneLess
    RetryAllowed = FALSE
    CallPays = TRUE
    Causes = {"dropoff"}
    Walks = {FALSE}
    Lives = {TRUE}
    Known = {"push", "banner", "quote", "link", "notify", "voice", "wait", "escalate", "close"}
    Said = {}
    Marked = {"paid_outside"}
    MayFail = FALSE
    MaxTurns = 4
    MaxRuns = 2
INVARIANTS
    TypeOK
    PaidGetsClosed
PROPERTIES
    PaidNotContacted
CHECK_DEADLOCK FALSE
