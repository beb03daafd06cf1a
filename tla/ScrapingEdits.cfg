\* One worker, one update request in flight, one restart, one failed call.
SPECIFICATION Spec
CONSTANTS
  s1 = s1
  s2 = s2
  t1 = t1
  t2 = t2
  NoSource = NoSource
  NoJob = NoJob
  Sources = {s1}
  Tenant <- OneTenant
  MaxPages <- NoPages
  Workers = {w1}
  Cancels = {}
  Editors = {e1}
  MaxJobs = 2
  MaxRetries = 1
  MaxManual = 1
  MaxClock = 0
  MaxRestarts = 1
  MaxFaults = 1
INVARIANTS
  CountersBounded
PROPERTIES
  OnlyRequestsLoseSuccesses
  OnlyStaleEditRewinds
\* The process may end, and the bounds end every behaviour.
CHECK_DEADLOCK FALSE
