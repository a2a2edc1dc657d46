SPECIFICATION LivenessSpec
CONSTANTS
  None = None
  Displayed = {r1}
  Fetches = {}
  Cancels = {k1, k2}
  Slots = {a}
  Tabs = {t1, t2}
  Paths = {p1, p2}
  Ops = {o1}
  UserEdits = {u1, u2}
  ExternalEdits = {x1}
  Uses = {"type", "undo", "open", "switch", "external", "revert", "watch"}
  MaxEdits = 4
  Requests = {q1, q2}
  MaxRounds = 1
  MaxCalls = 1
  HistoryMax = 2
  MaxListed = 1
  Dumps = {d1, d2}
  DumpIds = {i1, i2}
  IdOf <- IdOfDump
  PasswordHelper = {d1}
  ViaTunnel = {d1}
  Mysql = {d1}
  OldFile = OldFile
  NoDump = NoDump
  RelayedRequests = 2
  RequestSize = 2
  AnswerSize = 3
  Window = 1
  BufferSize = 2
  Launches = {l1, l2}
  NoLaunch = NoLaunch
  Absent = Absent
  Blank0 = Blank0
  Before = Before
  Letters = {"a"}
  AnyOne = "?"
  AnyRun = "*"
  MaxGlob = 3
  Reads = {q1}
  Statements = {w1}
  MaxResets = 1
  Nobody = Nobody
  d1 = d1
  d2 = d2
  i1 = i1
  i2 = i2
  u1 = u1
  u2 = u2
  x1 = x1
CHECK_DEADLOCK FALSE
PROPERTIES
  CancelEndsRun
  
  StoppedWorkEnds
  NobodyWaitsForEver
