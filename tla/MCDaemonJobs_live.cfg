SPECIFICATION FairSpec
CONSTANTS
  c1 = c1
  w1 = w1
  w2 = w2
  r1 = r1
  Cases = {c1}
  WakeJobs = {w1}
  RetryJobs = {r1}
  CaseOf <- Owner
  NoJob = NoJob
  LossyPosts = TRUE
  MaxCrashes = 1
PROPERTIES DueIsServed HoldIsReleased
