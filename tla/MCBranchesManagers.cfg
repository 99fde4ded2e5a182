CONSTANTS
    Threads = {t1, t2}
    Managers = {m1, m2}
    Keys = {k1}
    Values = {}
    Tombstone = Tombstone
    Missing = Missing
    Absent = Absent
    Gone = Gone
    None = None
    MaxBranch = 2
    MaxCommit = 1
SPECIFICATION Spec
SYMMETRY Symmetry
INVARIANTS
    LockDiscipline
    RegistryAgrees
    PublishedOnce
