\* The scheduler over two sources, one paginated; a restart and a failed call.
SPECIFICATION Spec
CONSTANTS
  s1 = s1
  s2 = s2
  t1 = t1
  t2 = t2
  NoSource = NoSource
  NoJob = NoJob
  Sources = {s1, s2}
  Tenant <- TwoTenants
  MaxPages <- MixedPages
  Workers = {}
  Cancels = {}
  Editors = {}
  MaxJobs = 12
  MaxRetries = 1
  MaxManual = 0
  MaxClock = 1
  MaxRestarts = 1
  MaxFaults = 1
INVARIANTS
  ScheduledOncePerTick
\* The process may end, and the bounds end every behaviour.
CHECK_DEADLOCK FALSE
