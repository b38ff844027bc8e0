SPECIFICATION Spec
CONSTANTS
    c1 = c1
    c2 = c2
    main = main
    dev = dev
    Client <- TwoClients
    Branch <- OneBranch
    DefaultBranch <- main
    Founders = {}
    Asks <- AllCommands
    StagedRetries = 2
    MaxObjects = 2
SYMMETRY ClientSymmetry
INVARIANTS
    TypeOK
    NamesResolve
    AcknowledgedUpdatesKept
    StaleViewsAreHistory
    AncestorShortcutSound
PROPERTIES
    HeadsNeverRewind
    StagedGivesUpOnlyUnderContention
