CONSTANTS
    k1 = k1
    k2 = k2
    s1 = s1
    Handles = {b1, b2}
    UserKeys = {k1, k2}
    SystemKeys = {s1}
    SystemId <- MCSystemId
    FirstUserId = 1
    MaxId = 3
    Names = {n1}
    BadNames = {}
    Values = {v1, v2}
    BadValues = {v2}
    Missing = Missing
    None = None
    Absent = Absent
    MaxCommit = 2
    MaxFrames = 2
SPECIFICATION Spec
SYMMETRY Symmetry
INVARIANTS
    NeverCorrupt
    AllConsistent
PROPERTIES
    IdsNeverReused
    ImplementsDocuments
