\* Each script is run twice; one fault.  The scripts end: the system rests.
SPECIFICATION Spec
CONSTANTS
    act = act
    order = order
    root = root
    art = art
    Documents <- MCDocuments
    Hashes <- MCHashes
    Parsers <- MCParsers
    Locators <- MCLocators
    Root = root
    Parsed <- MCParsed
    Times <- MCTimes
    LegacyParser = "legacy"
    Sources <- MCSources
    IngestSource = "legalinfo"
    SourceOf <- MCSourceOf
    LegacyArchives <- MCLegacyArchives
    LegacyDocuments <- MCLegacyDocuments
    Limits <- MCLimits
    Faults = {"error", "stop"}
    MaxFaults = 1
    MaxRuns = 2
INVARIANTS
    EveryArticleHasItsNode
    CleanRunMigratesAll
    BackfillCompletes
PROPERTIES
    NothingIsRevived
CHECK_DEADLOCK FALSE
