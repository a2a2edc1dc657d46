SPECIFICATION ConnectionsSpec
CONSTANTS
  Connections = {c1}
  Tasks = {t1, t2}
  Schemas = {s1, s2}
  Tunneled = {c1}
  PasswordCommand = {c1}
  Hanging = {}
  None = None
  MaxEvents = 4
  Names = {c1, c2}
  MaxFiles = 2
  Databases = {b1, b2}
  Configured = b1
  Handlers = {h1, h2}
  Nowhere = Nowhere
  MaxDone = 4
  MaxBatch = 2
SYMMETRY Interchangeable
INVARIANTS
  TypeOK
  PoolOnActiveSchema
  PoolThroughCachedTunnel
  PoolOfThisEpoch
  OneEstablisher
  WorkbenchHolds
PROPERTIES
  NothingOverwritten
  FailedSwitchRestores
  KeepsPromise
