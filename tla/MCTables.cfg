CONSTANTS
    Allocator = Allocator
    Roots = Roots
    field = field
    Records = {1, 2, 3}
    Names = {n1}
    Attributes = {a, b}
    Fields = {field}
    GenesisCells <- MCGenesisCells
    StagedRoots = {1, 2}
    Width = 2
    MaxChanges = 2
    MaxCommit = 3
    CellKeys = {k1, k2}
    CellValues = {v1, v2}
    IndexTerms = {t1, t2}
    Ids = {1, 2, 3}
    MaxBatch = 3
    MaxBatches = 2
SPECIFICATION MCSpec
SYMMETRY Symmetry
INVARIANTS
    HeadCommitsToRows
    IndexIsExact
    RootsOfEveryCommit
    HistoryIsRetained
    BatchesInOrder
