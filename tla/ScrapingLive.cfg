\* Fair goroutines, two tenants, a cancel request.
SPECIFICATION FairSpec
CONSTANTS
  s1 = s1
  s2 = s2
  t1 = t1
  t2 = t2
  NoSource = NoSource
  NoJob = NoJob
  Sources = {s1, s2}
  Tenant <- TwoTenants
  MaxPages <- NoPages
  Workers = {w1, w2}
  Cancels = {c1}
  Editors = {}
  MaxJobs = 2
  MaxRetries = 1
  MaxManual = 0
  MaxClock = 0
  MaxRestarts = 0
  MaxFaults = 0
PROPERTIES
  EveryJobSettles
  DueIsScheduled
\* The process may end, and the bounds end every behaviour.
CHECK_DEADLOCK FALSE
