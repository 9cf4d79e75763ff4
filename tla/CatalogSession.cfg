SPECIFICATION SessionSpec
CONSTANTS
    MaxId = 3
    Kinds = {"signal", "observation"}
    Labels = {a}
    Times = {0}
    MaxRedirectDepth = 2
    MaxUndo = 2
INVARIANTS UndoAccepted
PROPERTIES UndoExact
