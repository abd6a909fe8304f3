CONSTANTS
    Unset = Unset
    BlockSize = 2
    PhysicalBlocks = 50
    MaxLength = 66
    MaxBatch = 3
    SmallBucket = 8
    MediumBucket = 16
    MinChunk = 32
    MaxChunk = 96
    BatchSizes = {1, 2, 4}
    MaxWave = 4
    MaxWaveTokens = 1000
    Alignment = 1
    TileSize = 2
    Supported <- MCSupported
    TraceLengths <- MCTraceLengths
    Setups <- MCEitherOrder
    Calls <- MCCalls
    MaxFailures = 1
SPECIFICATION CoverageSpec
INVARIANT EitherOrder
CHECK_DEADLOCK FALSE
