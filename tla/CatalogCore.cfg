\* Two workers, a request to synchronise, failures, crashes and moderation.
SPECIFICATION Spec
CONSTANTS
  k1 = k1
  NoPrice = NoPrice
  NoProduct = NoProduct
  NoItem = NoItem
  Items = {i1}
  Workers = {w1, w2}
  Syncers = {y1}
  Prices = {1}
  Rounded <- Cents
  Keys = {k1}
  Key <- OneKey
  Typed = {i1}
  PageSize = 1
  MaxIterations = 2
  Faulty = {w1, w2, y1}
  MaxScrapes = 2
  MaxMisses = 1
INVARIANTS
  DuplicatesBounded
PROPERTIES
  MarkFollowsPublication
  FrozenIsUntouched
SYMMETRY WorkersAlike
CHECK_DEADLOCK FALSE
