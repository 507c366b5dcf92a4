SPECIFICATION Spec
CONSTANTS
  Orders = {"o1"}
  Links = {"l1"}
  Events = {"l1", "self", "failed"}
  Origins = {"page", "gateway"}
  Watchers = {"w1"}
  Handlers = {"h1", "h2"}
  MaxDeliveries = 2
  LossyForwards = TRUE
  Restarts = TRUE
  Claims = TRUE
  RacyThreads = FALSE
  Detached = FALSE
INVARIANTS TypeOK 
PROPERTIES ImplementsBooks MoneyIsBooked
CHECK_DEADLOCK FALSE
