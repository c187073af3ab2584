CONSTANTS
    p1 = p1
    p2 = p2
    a1 = a1
    a2 = a2
    b1 = b1
    h1 = h1
    h2 = h2
    h3 = h3
    l1 = l1
    l2 = l2
    c1 = c1
    c2 = c2
    d1 = d1
    None = None
    Sweeper = Sweeper
    Plugins <- TwoPlugins
    Keys <- ThreeKeys
    PluginOf <- PluginOfKey
    Hosts <- ThreeHosts
    Locks <- TwoLocks
    Callers <- TwoCallers
    Lifecycle <- OneTask
    Setups <- BothRegistries
    MaxActive = 2
SPECIFICATION Spec
INVARIANTS TypeOK PluginIsExclusive WriterSeesEveryHost
PROPERTIES BusyHostIsLeftAlone
SYMMETRY Interchangeable
