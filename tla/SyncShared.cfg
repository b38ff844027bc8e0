SPECIFICATION Spec
CONSTANTS
    alice = alice
    bob = bob
    origin = origin
    main = main
    dev = dev
    Clone <- TwoClones
    Remote <- origin
    Branch <- OneBranch
    DefaultBranch <- main
    Batch = FALSE
    MaxCommits = 3
SYMMETRY CloneSymmetry
INVARIANTS
    TypeOK
    StoresComplete
    PushesKept
    RemoteViewsAreHistory
PROPERTIES
    SyncNeverRewinds
