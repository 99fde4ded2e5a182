CONSTANTS
    None = None
    Procs = {p1, p2, p3}
    Tables = {t1}
    Keys = {k1, k2}
    Values = {1}
    MdbxProcs = {p1, p2}
    MdbxTables = {t1, t2}
    MdbxKeys = {k1, huge}
    MdbxValues = {1, 2}
    LargeKeys = {huge}
    LargeValues = {2}
    CursorKeys = {1, 2, 3, 4}
    MaxWrites = 3
    MaxByte = 1
    IdLength = 2
    EncodedKeys <- ScanKeys
    PrefixSet <- ScanPrefixes
    NoKey = NoKey
SPECIFICATION MCSpec
INVARIANTS
    ScansAreExact
PROPERTIES
    ImplementsSnapshotStore
    MdbxImplementsStore
    CursorsBehave
