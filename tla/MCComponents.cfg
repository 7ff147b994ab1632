CONSTANTS
  a = a
  b = b
  c = c
  finding = finding
  Phase <- Phases
  Position <- Declared
  Expects <- Inherited
  Offers <- Outputs
  stray = stray
  Stray = stray
  Uses <- Lists
  Sources <- BoundTo
  None = None
  Histories <- Earlier
  Foreign <- Unsupported
  Inputs <- Listings
  Answers <- Texts
  Plans <- Rewritten
  MaxRows = 2
  Slots = 2
  WorkerCap = 6
  TopPercent = 50
  Stages = {"scan", "dedupe"}
  Scans = {s1, s2}
  Values = {v1, v2}
  Nothing = Nothing
  Occurrences = {"o1", "o2"}
  Scan <- ScanOf
  Destinations = {"team"}
  Issues = {i1, i2}
  Urls = {u}
  NoUrl = NoUrl
  Callers = {c1, c2}
  Before = {b1, b2}
  After = {a1, a2}
  TriageStatus = {"open", "fixed"}
  Ledgers <- CandidateLists
  Saved <- LeftDrafts
  Missing = Missing
SPECIFICATION ComponentsSpec
CHECK_DEADLOCK FALSE
INVARIANTS
  AdmitsExactly
  EveryHistoryUpgrades
  RankingIsExact
  RecordedAsReported
  EveryFindingAccounted
  NoCandidateIsLost
PROPERTIES
  WorkIsKept
