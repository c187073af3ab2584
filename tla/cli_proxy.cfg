CONSTANTS
    u1 = u1
    u2 = u2
    o1 = o1
    o2 = o2
    Placeholder = Placeholder
    Unset = Unset
    Absent = Absent
    Garbled = Garbled
    None = None
    Upstreams <- TwoUpstreams
    Origins <- TwoOrigins
    Loopback <- OneLoopback
    Failing <- EveryWrite
SYMMETRY Interchangeable
SPECIFICATION Spec
INVARIANTS TypeOK BackupIsDirect OffIsDirect DirectSurvives
 
