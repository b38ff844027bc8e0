CONSTANTS
    NoFile = NoFile
    Paths <- MCPaths
    Contents <- MCContents
    Names <- MCNames
    Before <- MCBefore
    BlockEntries = 2
    EntryStreams <- MCStreams
    Additions <- MCMaps
    Removals <- MCRemovals
SPECIFICATION LoopsSpec
INVARIANTS
    MergedByRule
    AscendingAccepted
    DiffExact
    OverlayExact
    FramesExact
CHECK_DEADLOCK FALSE
