CONSTANTS
    None = None
    s1 = s1
    s2 = s2
    p1 = p1
    p2 = p2
    ra = ra
    rb = rb
    f1 = f1
    Sessions <- TwoSessions
    CliOf <- OwnCli
    Providers <- TwoProviders
    Routes <- TwoRoutes
    Fingerprints <- OneFingerprint
    SESSION_TTL = 2
    TRIGGER_RESERVATION_TTL = 1
    MAX_BINDINGS = 1
    MaxRequests = 3
    MaxConcurrent = 2
    MaxCompactions = 1
    MaxTime = 2
SYMMETRY Interchangeable
SPECIFICATION Spec
INVARIANTS TypeOK NewestAnswerIsBound CompactionIsSpentOnce ReservationHasHolder
CHECK_DEADLOCK FALSE
