SPECIFICATION OverlapOrSerialSpec
CONSTANTS
  Tabs = {t1}
  Paths = {p1}
  Ops = {o1}
  UserEdits = {u1, u2}
  ExternalEdits = {x1}
  Uses = {"type", "typeInMerge", "open", "external", "watch"}
  Overlaps <- SameLine
  None = None
  u1 = u1
  u2 = u2
  x1 = x1
  MaxEvents = 4
  SerialUses = {}
  SerialEvents = 0
CHECK_DEADLOCK FALSE
SYMMETRY Interchangeable
PROPERTIES
  AutosaveKeepsExternal
