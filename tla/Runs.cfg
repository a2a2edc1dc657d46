SPECIFICATION RunsSpec
CONSTANTS
  Displayed = {d1, d2}
  Fetches = {f1}
  Cancels = {k1, k2}
  Slots = {a, b}
  None = None
  ShownRuns = {s1, s2, s3}
  ChatRuns = {g1}
  Listers = {q1}
  Links = {l1, l2, l3}
  NoLink = NoLink
  NoRun = NoRun
  TableRuns = {r1, r2}
  GuardedRuns = {g1}
  Lookups = {q1}
  Free = Free
  MaxCommands = 3
  MaxShown = 1
  r1 = r1
  l1 = l1
  s1 = s1
  s2 = s2
  s3 = s3
  MaxRows = 3
  DefaultLimit = 2
  Letters = {"a", "b"}
  AnyOne = "?"
  AnyRun = "*"
  MaxGlob = 3
  Alphabet = {"a"}
  MaxName = 3
  Servers = {s1, s2}
  FolderNames = {"f", "g"}
  QueryNames = {"q.sql"}
  MaxPath = 3
  LoggedConnections = {c1, c2}
  KnownEngines = {"mysql"}
  EngineOf <- EngineOfConnection
  Unknown = "unknown"
  MaxDay = 8
  MaxEntriesRead = 2
  MaxWeeks = 2
  MaxLinesOfConfig = 4
  Spellings = {"p", "q", "r"}
  RealFile <- FileOfSpelling
  MaxElements = 3
  MaxNesting = 2
  MaxLine = 4
  MaxArgs = 6
  MaxPieces = 3
  MaxTyped = 4
  MaxColumns = 2
  MaxWord = 5
  TopLimit = 2
  c1 = c1
  c2 = c2
CHECK_DEADLOCK FALSE
SYMMETRY Interchangeable
INVARIANTS
  RunsTypeOK
  SuccessIsReported
  CancelledWasPressed
  RegistrationsAreLive
  GuardsHold
  NamesMeanOneThing
  OutputIsTrue
PROPERTIES
  AbortSparesNextQuery
  EnginesPromise
