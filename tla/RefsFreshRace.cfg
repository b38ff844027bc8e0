SPECIFICATION Spec
CONSTANTS
    c1 = c1
    c2 = c2
    main = main
    dev = dev
    Client <- TwoClients
    Branch <- OneBranch
    DefaultBranch <- main
    Founders <- TwoClients
    Asks <- AllCommands
    StagedRetries = 1
    MaxObjects = 1
PROPERTIES
    HeadsNeverRewind
