CONSTANTS
    Clients = {c1}
    Keys = {"k1", "k2"}
    Fields = {"f"}
    Cells <- MCCells
    Requests <- MCRequests
    Starts <- MCStarts
    MaxCommits = 2
    MaxId = 4
    None = None
SPECIFICATION FairSpec
INVARIANTS
    AnswersOneCommit
    RefusedIffMalformed
PROPERTY
    EveryReadAnswered
