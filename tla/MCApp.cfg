SPECIFICATION SuiteSpec
CONSTANTS
  NoFile = NoFile
  Torn = Torn
  Blank = Blank
  Lines <- SmallLines
  Session <- SmallSession
  Conns = {c1}
  RetryFrames = 1
  MaxAttempts = 1
  MaxShots = 2
  MaxQueue = 2
  MaxFailures = 2
  RecBudget = 3
  RecMinKept = 1
  RecChunk = 2
  RecFileLength = 2
  RecEventCap = 2
  RecMaxRecords = 3
  RecMaxSessions = 2
  RefSources = {"fcc", "eibi"}
  RefMaxFetches = 2
  RefMaxClears = 2
  RefMaxKills = 1
  McpTargets = {"addr", "spawn"}
  McpLines = {"query", "shot"}
  McpKills = FALSE
  McpMaxCalls = 2
  McpMaxProcs = 2
  McpMaxFaults = 1
INVARIANTS ShotsAccounted RingIsTail ShownIsStored CallsAreServed
PROPERTY EndsInTime
CHECK_DEADLOCK FALSE
