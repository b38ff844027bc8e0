CONSTANTS
    Files <- MCFiles
    Queries <- MCQueries
    StatisticsOf <- MCStatisticsOf
    Edits = FALSE
    LongList = 2
    Counted = TRUE
SPECIFICATION Spec
INVARIANTS
    Conservative
    CapturedExact
CHECK_DEADLOCK FALSE
