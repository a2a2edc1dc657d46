SPECIFICATION Spec
CONSTANTS
  Connections = {c1}
  Tasks = {t1}
  Schemas = {s1}
  Tunneled = {}
  PasswordCommand = {}
  Hanging = {}
  None = None
  MaxEvents = 1
INVARIANT PoolOfCurrentConfig
