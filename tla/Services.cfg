SPECIFICATION ServicesSpec
CONSTANTS
  Reads = {r1}
  Statements = {u1, u2}
  MaxResets = 1
  Nobody = Nobody
  UserRuns = {u1}
  AgentRuns = {g1}
  CellEdits = {e1}
  Catalogs = {t1}
  PoolSessions = {c1}
  EditSize = 2
  NoOne = NoOne
  Schemas = {s1, s2}
  DefaultSchema = s1
  Tables = {t1, t2}
  Listings = {l1, l2}
  MaxSwitches = 2
  Uncached = Uncached
  Requests = {r1, r2}
  MaxRounds = 2
  MaxCalls = 1
  HistoryMax = 2
  MaxListed = 2
  Dumps = {d1, d2, d3}
  DumpIds = {i1, i2}
  IdOf <- IdOfDump
  PasswordHelper = {d1}
  ViaTunnel = {d1}
  Mysql = {d1}
  OldFile = OldFile
  NoDump = NoDump
  RelayedRequests = 2
  RequestSize = 2
  AnswerSize = 3
  Window = 1
  BufferSize = 2
  Tunnels = {n1, n2, n3}
  SystemSsh = {n3}
  SshHosts = {h1, h2}
  SshHostOf <- HostOfTunnel
  HostKeys = {k1, k2}
  NoKey = NoKey
  FileOps = {o1, o2, o3}
  FileCalls <- CallsOnTheseFiles
  Folders = {f1, f2, f3}
  FileNames = {q1, q2}
  LetterCase <- SameButForCase
  FirstPlaces <- FilesThere
  Missing = Missing
  Empty = Empty
  Half = Half
  Original = Original
  Launches = {l1, l2, l3}
  NoLaunch = NoLaunch
  Absent = Absent
  Blank0 = Blank0
  Before = Before
  MaxLines = 3
  KeepLines = 2
  MaxEntries = 7
  MaxKills = 2
  ConfigEdits = {w1, w2}
  Loads = {l1}
  Gone = Gone
  Nothing = Nothing
  HalfText = HalfText
  MaxDeaths = 1
  d1 = d1
  d2 = d2
  d3 = d3
  i1 = i1
  i2 = i2
  n1 = n1
  n2 = n2
  n3 = n3
  h1 = h1
  h2 = h2
  k1 = k1
  o1 = o1
  o2 = o2
  o3 = o3
  f1 = f1
  f2 = f2
  f3 = f3
  q1 = q1
  q2 = q2
  anyCase = anyCase
CHECK_DEADLOCK FALSE
SYMMETRY Interchangeable
INVARIANTS
  ServicesTypeOK
  SessionsAreClean
  EditsAllOrNothing
  CacheIsWhole
  RelayIsTransparent
  HostsAreVerified
PROPERTIES
  RefreshPromise
  ChatPromise
  DumpPromise
  FilesAreSafe
  LaunchPromise
