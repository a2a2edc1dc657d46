SPECIFICATION FairSpec
CONSTANTS
  Connections = {c1, c2}
  Tasks = {t1, t2}
  Schemas = {s1}
  Tunneled = {c1, c2}
  PasswordCommand = {c1}
  Hanging = {c2}
  None = None
  MaxEvents = 2
PROPERTY GetPoolReturns
