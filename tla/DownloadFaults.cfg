\* Two processes, two jobs; all that may fail does, but fsync.
SPECIFICATION FairSpec
CONSTANTS
    p1 = p1
    p2 = p2
    d1 = d1
    nothing = nothing
    None = nothing
    Processes <- MCProcesses
    Documents <- MCDocuments
    Hashes <- MCHashes
    Pages <- MCPages
    LinksPdf <- MCLinksPdf
    Faults <- MostFaults
    MaxFaults = 2
    MaxJobs = 2
INVARIANTS
    CatalogIsWhole
    CompletedIsRecorded
    CountersMatchResults
    AvailabilityIsBacked
PROPERTIES
    Immutable
    EveryJobEnds
