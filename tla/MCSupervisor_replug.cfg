SPECIFICATION FairSpec
CONSTANTS
    None = None
    Choices <- JustAuto
    Refused <- JustAuto
    AutoConfigs <- NoConfig
    OneShots = {}
    IsScope = TRUE
    MaxDepth = 0
    Capacity = 1
    MaxUnits = 1
    MaxLoss = 0
    MaxCommands = 1
PROPERTIES ReplugServes
