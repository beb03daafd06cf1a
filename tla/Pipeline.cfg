\* Two workers and jobs of one source, the second of them scheduled again after a
\* crash, from the claim to the price history.
SPECIFICATION PipelineSpec
CONSTANTS
  k1 = k1
  s1 = s1
  t1 = t1
  NoPrice = NoPrice
  NoProduct = NoProduct
  NoItem = NoItem
  NoSource = NoSource
  NoJob = NoJob
  Items = {i1}
  Workers = {w1, w2}
  Syncers = {}
  Prices = {p1, p2}
  Rounded <- Cents
  Keys = {k1}
  Key <- OneKey
  Typed = {}
  PageSize = 1
  MaxIterations = 1
  Faulty = {w1, w2}
  MaxScrapes = 3
  MaxMisses = 0
  Sources = {s1}
  Tenant <- OneTenant
  MaxPages <- NoPages
  Cancels = {}
  Editors = {}
  MaxJobs = 2
  MaxRetries = 1
  MaxManual = 0
  MaxClock = 0
  MaxRestarts = 1
  MaxFaults = 0
  SourceOf <- OneSource
  Shown <- Priced
  MaxRepeats = 2
  Moderated = {i1}
INVARIANTS
  UpsertedOncePerJob
  
  RealUnlessCrossed
  HistoryIsBounded
SYMMETRY Alike
CHECK_DEADLOCK FALSE
