CONSTANTS
    c1 = c1
    c2 = c2
    Contents = {c1, c2}
    NoFile = NoFile
    NoCommit = NoCommit
    main = main
    dev = dev
    Branches = {main, dev}
    NameOrder <- MCNameOrder
    Continues <- MCContinues
    Paths <- MCPaths
    Additions <- MCAdditions
    Removals <- MCNoRemovals
    Worktrees <- MCOneFile
    Moves = {}
    MaxTreeEntries = 2
    BlockEntries = 2
    MaxCommits = 3
    ShardedWorktrees = TRUE
SPECIFICATION Spec
PROPERTY ParentSurvives
SYMMETRY MCSymmetry
CHECK_DEADLOCK FALSE
