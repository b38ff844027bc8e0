CONSTANTS
    c1 = c1
    c2 = c2
    Procs = {p1}
    Contents = {c1, c2}
    NoFile = NoFile
    Nowhere = Nowhere
    Modes = {"blake3", "meta"}
    Identity = "blake3"
    Outside <- MCOutside
    Earlier <- MCEarlier
    Continues <- MCContinues
    StagedRetries = 3
    Added <- MCAdded
    RemovedNames <- MCRemovedNames
    Moves <- MCMoves
    PeerCommits <- MCPeerCommits
    Edits <- MCEdits
    Verified <- MCVerified
    Restored <- MCRestored
    Paths <- MCPaths
    MaxCommits = 3
SPECIFICATION Spec
INVARIANTS
    TypeOK
    ViewsAgree
    ViewIsNextCommit
    StatusShowsNextCommit
PROPERTIES
    StagedAtLeastOnce
    OnlyNamedPathsChange
CHECK_DEADLOCK FALSE
