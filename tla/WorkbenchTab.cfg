SPECIFICATION WbSpec
CONSTANTS
  Names = {c, d}
  MaxFiles = 1
  Databases = {s1, s2}
  Configured = s1
  Handlers = {a, b}
  Nowhere = Nowhere
  MaxDone = 5
  MaxBatch = 2
CHECK_DEADLOCK FALSE
INVARIANT ActiveTabIsOfSelected
