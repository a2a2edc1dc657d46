SPECIFICATION Spec
CONSTANTS
  Displayed = {r1, r2}
  Fetches = {}
  Cancels = {k1}
  Slots = {a}
  None = None
CHECK_DEADLOCK FALSE
PROPERTY KillHitsItsQuery
