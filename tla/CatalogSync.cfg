\* One worker that changes the pending products, a request whose calls may fail,
\* blocked and hidden products; fair requests.
SPECIFICATION FairSpec
CONSTANTS
  k1 = k1
  NoPrice = NoPrice
  NoProduct = NoProduct
  NoItem = NoItem
  Items = {i1}
  Workers = {w1}
  Syncers = {y1}
  Prices = {1, 2}
  Rounded <- Cents
  Keys = {k1}
  Key <- OneKey
  Typed = {}
  PageSize = 1
  MaxIterations = 2
  Faulty = {y1}
  MaxScrapes = 4
  MaxMisses = 0
PROPERTY
  SyncRequestEnds
CHECK_DEADLOCK FALSE
