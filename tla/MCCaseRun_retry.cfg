SPECIFICATION Spec
CONSTANTS
    full = full
    less = less
    Email = TRUE
    Phone = FALSE
    VoiceOn = FALSE
    FullRoutes <- OneFull
    LessRoutes <- OneLess
    RetryAllowed = TRUE
    CallPays = FALSE
    Causes = {"funds", "risk"}
    Walks = {FALSE}
    Lives = {TRUE, FALSE}
    Known = {"look", "retry", "link", "notify", "wait", "escalate", "close"}
    Said = {"other", "better_price"}
    Marked = {"instrument_broken"}
    MayFail = TRUE
    MaxTurns = 3
    MaxRuns = 2
INVARIANTS
    ClaimsAreBacked
PROPERTIES
    TicketComesLast
CHECK_DEADLOCK FALSE
