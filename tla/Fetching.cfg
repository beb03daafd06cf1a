\* Every kind of source, a store that changes twice, failures, a shutdown.
SPECIFICATION FairSpec
CONSTANTS
  NoPrice = NoPrice
  Requests <- EveryKind
  PageSize = 2
  MaxOffset = 4
  CoopPageSize = 2
  MaxEmptyPages = 2
  Shown <- Prices
  Listings <- ShortOrLong
  MaxChanges = 2
  MaxGlitches = 2
  MaxTries = 3
  Backoff = 1
  PollInterval = 1
  PollTimeout = 5
  HTTPTimeout = 1
INVARIANTS
  StillStoreIsCopied
  DriftIsBounded
  ExtractionsBounded
  HoldsWorkerBriefly
  FailsForCause
PROPERTIES
  FetchEnds
CHECK_DEADLOCK FALSE
