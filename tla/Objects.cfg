SPECIFICATION Spec
CONSTANTS
    c1 = c1
    c2 = c2
    c3 = c3
    c4 = c4
    t1 = t1
    t2 = t2
    b1 = b1
    b2 = b2
    f2 = f2
    p1 = p1
    p2 = p2
    main = main
    dev = dev
    noCommit = noCommit
    missing = missing
    noObject = noObject
    Procs <- TwoProcs
    Branches <- TwoBranches
    Commits <- GraphCommits
    Trees <- GraphTrees
    Blobs <- MCBlobs
    Footers <- MCFooters
    Parents <- GraphParents
    TreeOf <- GraphTreeOf
    Holds <- GraphHolds
    NoCommit <- noCommit
    Missing <- missing
    NoObject <- noObject
    DefaultBranch <- main
    FirstCommit <- c1
    MaxGcs = 1
    MaxCrashes = 1
CONSTRAINT Bounded
ACTION_CONSTRAINT OnlyGcGoesOn
SYMMETRY ProcSymmetry
INVARIANTS
    TypeOK
    CommitsClosed
    HeadsWhole
PROPERTIES
    GcSparesHistory
    GcCollects
CHECK_DEADLOCK FALSE
