CONSTANTS
    Blocks <- MCBlocks
    blockids <- MCBlockids
    RequestedBlock = 113
    Undefined = Undefined
    MaxLoadBuf = 3
    ResponsesCanFail = FALSE
SPECIFICATION Spec
PROPERTY AddTileOnlyToBoundCache
\* The loader is idle once the bounded loadBuf calls are answered.
CHECK_DEADLOCK FALSE
