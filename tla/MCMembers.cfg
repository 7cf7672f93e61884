SPECIFICATION FairSpec
CONSTANTS
  boss = boss
  ann = ann
  bob = bob
  d1 = d1
  d2 = d2
  d3 = d3
  None = None
  Ids <- MCIds
  Domains <- MCDomains
  MaxFailures = 1
  Campaigns = 2
  DefaultTier = 1
  FirstTier = 1
  Tiers = {1, 2, 3}
  Handlers = {h1, h2}
  Readers = {c1}
  MaxMessages = 3
  Rank <- MCRank
  MinInvites <- MCMinInvites
  MinPaid <- MCMinPaid
  Replicas = {r1, r2}
  Rows = {1, 2}
  Passwords = {old, new}
  Desks = {k1, k2}
  Categories = {1, 2, 3, 4}
  Products <- MCProducts
  Shelf <- MCShelf
  Visitors = {v1}
  Topics = {1, 2}
  Articles = {t1, t2}
  TutorialReaders = {v1}
  Companies <- MCCompanies
  Closeness <- MCCloseness
  MaxRows = 3
  Lookups = {l1}
  Papers <- MCPapers
  Titled = {"w", "x", "y"}
  ArxivId <- MCArxivId
  MaxPapers = 3
  Searches = {s1}
  BatchSize = 2
  MaxBatch = 3
  MaxEvents = 4
  Days <- MCDays
INVARIANTS TypeOK RegistrationInv AnswersTrue RisesAnnounced WholeListRead MembersListHonest UndisturbedDesk CatalogueTrue TutorialsTrue LookupHonest LiteratureTrue EventsOnce
PROPERTIES AloneOnlyRaises LevelsCatchUp EventsArrive
CHECK_DEADLOCK FALSE
