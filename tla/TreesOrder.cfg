CONSTANTS
    c1 = c1
    c2 = c2
    Contents = {c1, c2}
    NoFile = NoFile
    NoCommit = NoCommit
    main = main
    dev = dev
    Branches = {main, dev}
    NameOrder <- MCNameOrder
    Continues <- MCContinues
    Paths <- MCPaths
    Additions <- MCAdditions
    Removals <- MCRemovals
    Worktrees <- MCWorktrees
    Moves <- MCMoves
    MaxTreeEntries = 2
    BlockEntries = 2
    MaxCommits = 3
    ShardedWorktrees = FALSE
SPECIFICATION Spec
INVARIANT AdditionsAccepted
SYMMETRY MCSymmetry
CHECK_DEADLOCK FALSE
