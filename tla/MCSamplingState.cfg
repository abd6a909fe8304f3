CONSTANTS
    None = None
    twin = twin
    penalised = penalised
    greedy = greedy
    Seeds = {7}
    Penalties = {"high"}
    Slots <- MCSlots
    Requests <- MCRequests
    Asks <- MCAsks
    MaxTokens = 3
SPECIFICATION SamplingSpec
INVARIANTS
    SaltsDistinct
    DrawsAreOwn
    PenaltiesAreOwn
    HistoryIsOwn
CHECK_DEADLOCK FALSE
