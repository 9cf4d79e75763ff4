SPECIFICATION FairSpec
CONSTANTS
  Rates = {1, 2}
  Centres = {100}
  Hf = {}
  Gains = {0}
  Ppms = {0, 1}
  CalLo = 56
  QueueCap = 2
  MaxMade = 1
  Asked <- IsConfig
  None = None
PROPERTY UnplugEnds
CHECK_DEADLOCK FALSE
