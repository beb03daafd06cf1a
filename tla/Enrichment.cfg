\* Batches of pages of one product, a rejection, and a call that fails.
SPECIFICATION FairSpec
CONSTANTS
  soda = soda
  hotwheels = hotwheels
  alitas = alitas
  photo = photo
  crowd = crowd
  scraped = scraped
  Items = {soda, hotwheels, alitas}
  Barcoded = {soda}
  Branded = {soda, hotwheels}
  ByWeight = {alitas}
  Name <- Names
  Stopwords = {"lt", "kg", "para"}
  Images = {photo, crowd, scraped}
  Drawn = Drawn
  NoImage = NoImage
  Configured = {"ml", "off", "firecrawl", "perplexity", "dalle"}
  Has <- Services
  Title <- Titles
  ReplicateCost = 20
  DalleCost = 4
  Batches = {b1}
  Rejecters = {r1}
  Order <- Listed
  Key <- ObjectKeys
  PageSize = 1
  MaxIds = 1
  Limits = {1, 3}
  NoItem = NoItem
  MaxPolls = 2
  MaxRequests = 2
  MaxRejections = 1
  MaxFaults = 1
INVARIANTS
  RowTellsWhatIsShown
  RejectedStaysAway
  CostsWereCharged
PROPERTIES
  OffsetSkipsNoMoreThanLeft
  BatchEnds
CHECK_DEADLOCK FALSE
