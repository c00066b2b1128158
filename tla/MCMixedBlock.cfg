SPECIFICATION Spec
CONSTANTS
    Width = 3
    ByteValues = 8
    Top = 64
    One = 8
    FlushCount = 3
    HistorySize = 8
    RepeatHistorySize = 16
    RecencyRanks = 2
    Order2Rows <- MCOrder2Rows
    Initial <- MCInitial
    Adapt <- MCAdapt
    Domain <- MCDomain
    Blend <- MCBlend
    BranchOpcodes = {6}
    OperandSize = 2
    RecordUnits = {1, 2, 4}
    Blocks <- MCBlocks
    Plans <- MCPlans
    ForeignPayloads <- MCForeignPayloads
    ForeignSizes = {1, 2, 4}
INVARIANTS
    CodeInside
    RoundTrip
