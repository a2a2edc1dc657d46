SPECIFICATION OverlapOrSerialSpec
CONSTANTS
  Tabs = {t1, t2}
  Paths = {p1, p2}
  Ops = {o1, o2}
  UserEdits = {u1, u2}
  ExternalEdits = {x1}
  Uses = {"type", "open", "switch", "external", "watch", "reload"}
  Overlaps <- SameLine
  None = None
  u1 = u1
  u2 = u2
  x1 = x1
  MaxEvents = 7
  SerialUses = {}
  SerialEvents = 0
CHECK_DEADLOCK FALSE
SYMMETRY Interchangeable
PROPERTIES
  CloseKeepsEdits
