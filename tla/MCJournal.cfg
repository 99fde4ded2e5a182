CONSTANTS
    Keys = {k1, k2}
    Values = {v1, v2}
    Tombstone = Tombstone
    Missing = Missing
    MaxUndo = 4
    MaxFrames = 3
SPECIFICATION Spec
INVARIANTS
    FramesConsistent
    UndoInverts
PROPERTIES
    FailedGroupRestores
    ImplementsFrames
