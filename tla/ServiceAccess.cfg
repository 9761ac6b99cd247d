SPECIFICATION Spec
CONSTANTS
  None = None
  Tabs = {p1, p2}
  MaxAuths = 2
  MaxRest = 2
CHECK_DEADLOCK FALSE
INVARIANT TokenIsUsed
