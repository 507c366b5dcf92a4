SPECIFICATION Spec
CONSTANTS
  c1 = c1
  Keys = {c1}
  NumSections = 2
  SectionOf <- PaymentsOnly
  Notes = {n1, n2}
  Payloads = {d1}
  Absent = Absent
  Procs = {frontend, daemon}
  Free = Free
  Unedited = Unedited
  RacyThreads = FALSE
  LockTimeouts = FALSE
  WriteErrors = FALSE
INVARIANTS TypeOK
PROPERTIES RecoveredIsAbsorbing CaptureIsKept OnlyEditsAreWritten ImplementsLedger
SYMMETRY Symmetry
