SPECIFICATION Spec
CONSTANTS
  Connections = {c1}
  Tasks = {t1}
  Schemas = {s1, s2}
  Tunneled = {}
  PasswordCommand = {}
  Hanging = {}
  None = None
  MaxEvents = 2
PROPERTY SelectionSurvivesFailedSwitch
