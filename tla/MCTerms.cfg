CONSTANTS
    ByteBits = 3
    Unit = 1
    ExponentBits <- MCExponentBits
    IdLength = 2
    Letters = {97}
    OtherRest = {45}
    Dollar = 36
    CellLimits <- MCCellLimits
    Names <- MCNames
    Natives <- MCNatives
    RawRows <- MCRawRows
    EngineValue = 10
    MaxCells <- MCMaxCells
CHECK_DEADLOCK FALSE
SPECIFICATION Spec
INVARIANTS
    ReadBack
    ByteOrderIsValueOrder
    RangesAreExact
    AdmittedRowsFit
