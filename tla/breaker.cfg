CONSTANTS
    p1 = p1
    g1 = g1
    g2 = g2
    None = None
    Providers <- MCProviders
    Owners <- MCOwners
    Configs <- TwoConfigs
    Rows <- LegacyRows
    Cooldowns = {1}
    Never = 1000
    FAILURE_WINDOW_SECS = 1
    RECOVERY_GUARD_SECS = 1
    PROBE_LEASE_TTL_SECS = 1
    MaxClock = 2
    MaxLag = 1
    StaleReads = TRUE
    MaxRevision = 5
SPECIFICATION FairSpec
INVARIANTS TypeOK LeaseHasLiveGuard TokensAreUnique OpenCanBeProbed
PROPERTIES LeaseIsReleased RevisionOrdersStoredStates ImplementsProbeLease
