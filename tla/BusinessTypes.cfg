\* Two requests of any kind, at once or in turn, and a statement that fails.
SPECIFICATION FairSpec
CONSTANTS
  milk = milk
  wine = wine
  Products = {milk, wine}
  SourceCategory <- SourceCategories2
  Authoritative = {}
  Resolved <- NoneResolved
  Category <- Categories
  Signals <- TitleWords
  Near <- Within
  Types <- Listed
  Mentions <- ByCode
  Callers = {c1, c2}
  Puts <- PutTypes
  MaxIds = 2
  MaxRequests = 2
  MaxFaults = 1
INVARIANTS
  TypeOK
  AppliedInOrder
PROPERTIES
  NeverEmptied
  RequestsEnd
CHECK_DEADLOCK FALSE
