SPECIFICATION Spec
CONSTANTS
    MaxId = 4
    Kinds <- AllKinds
    Labels = {a}
    Times = {0, 1}
    MaxRedirectDepth = 2
INVARIANTS NothingDangles RedirectsSound HistoryInStep IdsSpent
PROPERTIES PinHolds
