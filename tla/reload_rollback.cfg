CONSTANTS
    p1 = p1
    g1 = g1
    g2 = g2
    None = None
    Providers <- MCProviders
    Owners <- OneOwner
    Configs <- TwoConfigs
    Rows <- LegacyRows
    Cooldowns = {1}
    Never = 1000
    FAILURE_WINDOW_SECS = 2
    RECOVERY_GUARD_SECS = 2
    PROBE_LEASE_TTL_SECS = 2
    MaxClock = 3
    MaxLag = 0
    StaleReads = FALSE
    MaxRevision = 6
SPECIFICATION Spec
INVARIANTS NaturalDeadlineIsCurrent
