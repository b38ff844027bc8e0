SPECIFICATION FairSpec
CONSTANTS
    c1 = c1
    c2 = c2
    main = main
    dev = dev
    Client <- TwoClients
    Branch <- TwoBranches
    DefaultBranch <- main
    Founders <- OneClient
    Asks <- Roles
    StagedRetries = 2
    MaxObjects = 2
VIEW WithoutRecords
PROPERTIES
    ImplementsHistory
    CommandsReturn
