CONSTANTS
    p1 = p1
    p2 = p2
    c1 = c1
    c2 = c2
    t1 = t1
    t2 = t2
    None = None
    Providers <- TwoProviders
    Callers <- TwoCallers
    DurableCallers <- OneCaller
    Tasks <- TwoTasks
    WRITE_BUFFER_CAPACITY = 1
    WRITE_BATCH_MAX = 2
    MAX_PERSIST_BACKLOG = 1
    StoredRevisions = {0}
    LoadFails = FALSE
    MaxRevision <- TwoAndOne
    MaxRestarts = 1
SPECIFICATION FairSpec
INVARIANTS TypeOK NewestIsNotForgotten FlagHasOneTask BacklogHasFlusher PromisesAreStored
PROPERTIES StateIsStored ImplementsCircuitStore
