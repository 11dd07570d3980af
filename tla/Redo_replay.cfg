SPECIFICATION RedoSpec
CONSTANTS
    MaxRedoRecords = 2
    MaxFinishFails = 1
    NoFile = NoFile
PROPERTY FlushedKept
CHECK_DEADLOCK FALSE
