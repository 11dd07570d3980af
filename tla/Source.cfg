SPECIFICATION MCSourceSpec
CONSTANTS
    BinLog <- MCBinLog
    Volumn = 2
    MaxLost = 2
    MaxRestarts = 2
    SeekLogs <- MCSeekLogs
    Times = {1, 2, 3}
    Dbs = {d, e}
    Tables = {a, b}
    NoMeta = NoMeta
    Beginnings <- MCBeginnings
    MaxStatements = 3
INVARIANTS
    StoredFollowsLog TransactionsApart RowsFindTableMap
    SeekLosesNone
    DefinitionAtOffset
PROPERTIES
    StopEnds AllStored
CHECK_DEADLOCK FALSE
