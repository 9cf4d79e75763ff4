SPECIFICATION Spec
CONSTANTS
    None = None
    Choices <- SafetyChoices
    Refused <- JustSingle
    AutoConfigs <- JustAuto
    OneShots = {force}
    IsScope = TRUE
    MaxDepth = 0
    Capacity = 1
    MaxUnits = 2
    MaxLoss = 0
    MaxCommands = 1
INVARIANTS  SingleTakesOne
