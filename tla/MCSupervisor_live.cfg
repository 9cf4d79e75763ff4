SPECIFICATION FairSpec
CONSTANTS
    None = None
    Choices <- SafetyChoices
    Refused <- NoConfig
    AutoConfigs <- JustAuto
    OneShots = {}
    IsScope = TRUE
    MaxDepth = 0
    Capacity = 1
    MaxUnits = 1
    MaxLoss = 0
    MaxCommands = 1
PROPERTIES ShutdownReturnsUnlessBlocked ReplugServes DisconnectShows
