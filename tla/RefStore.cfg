SPECIFICATION Spec
CONSTANTS
  Sources = {fcc, eibi}
  MaxFetches = 3
  MaxClears = 2
  MaxKills = 1
  None = None
  Torn = Torn
  Blank = Blank
INVARIANT MetaIsWhole
CHECK_DEADLOCK FALSE
