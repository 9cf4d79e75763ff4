SPECIFICATION SuiteSpec
CONSTANTS
  Nothing = Nothing
  Bad = Bad
  DeskTable <- MeasuresOfDesk
  Texts = {d, a}
  Fresh = d
  NoText = NoText
  Debounce = 2
  Timeout = 2
  MaxTime = 6
  MaxEdits = 3
  MaxLaunches = 1
  MaxFails = 1
  MaxWaits = 1
INVARIANTS
  SavedIsKept StateIsSaved
  WindowIsTrue DecodesWhatWasSent
CHECK_DEADLOCK FALSE
