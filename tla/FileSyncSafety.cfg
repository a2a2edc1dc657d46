SPECIFICATION OverlapOrSerialSpec
CONSTANTS
  Tabs = {t1, t2}
  Paths = {p1, p2}
  Ops = {o1, o2}
  UserEdits = {u1, u2}
  ExternalEdits = {x1}
  Uses = {"type", "open", "switch", "close", "external", "watch", "diskFails"}
  SerialUses = {"type", "undo", "open", "switch", "close", "external", "revert", "watch", "overwrite", "discard", "rename", "delete", "reload", "diskFails"}
  Overlaps <- SameLine
  None = None
  u1 = u1
  u2 = u2
  x1 = x1
  MaxEvents = 6
  SerialEvents = 7
CHECK_DEADLOCK FALSE
SYMMETRY Interchangeable
INVARIANTS
  TypeOK
  TabsInOrder
PROPERTIES
  AutosaveKeepsExternal
  TabKeepsEdits
  CloseKeepsEdits
  TypedStaysSaved
