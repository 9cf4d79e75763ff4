SPECIFICATION Spec
CONSTANTS
    None = None
    Choices <- JustAuto
    Refused = {}
    AutoConfigs = {}
    OneShots = {}
    IsScope = FALSE
    MaxDepth = 0
    Capacity = 2
    MaxUnits = 4
    MaxLoss = 1
    MaxCommands = 1
INVARIANTS LossOwed NoHiddenHole
PROPERTIES FramesOnlyWhileConnected
