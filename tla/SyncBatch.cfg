SPECIFICATION Spec
CONSTANTS
    alice = alice
    bob = bob
    origin = origin
    main = main
    dev = dev
    Clone <- OneClone
    Remote <- origin
    Branch <- TwoBranches
    DefaultBranch <- main
    Batch = TRUE
    MaxCommits = 2
INVARIANTS
    HeadsHeld
