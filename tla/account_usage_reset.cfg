CONSTANTS
    None = None
    p1 = p1
    p2 = p2
    ta = ta
    tb = tb
    c1 = c1
    c2 = c2
    Providers <- TwoProviders
    Tokens <- TwoTokens
    Gated <- GatedToken
    Stored <- OneProvider
    Calls <- OneCall
    MAX_CONCURRENT_PROVIDER_FETCHES = 2
    MaxChanges = 1
SYMMETRY Interchangeable
SPECIFICATION Spec
INVARIANTS ResetRejectsStaleCompletion
CHECK_DEADLOCK FALSE
