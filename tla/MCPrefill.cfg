CONSTANTS
    None = None
    short = short
    brief = brief
    lead = lead
    follow = follow
    BlockSize = 2
    PhysicalBlocks = 11
    MaxLength = 17
    MaxBatch = 3
    SmallBucket = 4
    MediumBucket = 8
    MinChunk = 8
    MaxChunk = 8
    BatchSizes = {1, 2}
    MaxWave = 2
    MaxWaveTokens = 100
    Alignment = 1
    SharedLength = 4
    Prompts <- MCPrompts
    LengthOf <- MCLengthOf
    FamilyOf <- MCFamilyOf
    Configs <- MCConfigs
    Traceable <- MCTraceable
    MaxFaults = 2
SPECIFICATION PrefillSpec
INVARIANTS
    CacheHoldsPrompts
    ContextIsPresent
    ResultsAreOwn
    LegalCallsArePlanned
PROPERTIES
    AllOrNothing
CHECK_DEADLOCK FALSE
