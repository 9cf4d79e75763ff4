SPECIFICATION Spec
CONSTANTS
    MaxOps = 3
    MaxBatch = 2
    MaxSeg = 3
    CheckpointEvery = 2
    FaultSets = {{"kill", "write", "dirsync"}, {"kill", "power", "write"}}
    OrderedMetadata = TRUE
INVARIANTS LoggedSurvives NeverRefused MemoryIsLogged ManifestComplete
PROPERTIES ImplementsDurableLog
