\* A cancel that read a job before it was claimed.
SPECIFICATION Spec
CONSTANTS
  s1 = s1
  s2 = s2
  t1 = t1
  t2 = t2
  NoSource = NoSource
  NoJob = NoJob
  Sources = {s1}
  Tenant <- OneTenant
  MaxPages <- NoPages
  Workers = {w1}
  Cancels = {c1}
  Editors = {}
  MaxJobs = 2
  MaxRetries = 1
  MaxManual = 1
  MaxClock = 0
  MaxRestarts = 0
  MaxFaults = 0
INVARIANTS
  CancelledIsNotRun
\* The process may end, and the bounds end every behaviour.
CHECK_DEADLOCK FALSE
