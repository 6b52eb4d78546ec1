\* Two processes ingest one act at the same time.
SPECIFICATION Spec
CONSTANTS
    Documents = {act}
    Hashes <- MCHashes
    Parsers <- MCParsers
    Locators <- MCLocators
    Root = "doc"
    Parsed <- MCParsed
    Times <- MCTimes
    Workers = {w1, w2}
SYMMETRY Symmetry
INVARIANTS
    TypeOK
    OneCurrentVersion
    InForceMeansPublished
    EveryNodeIsCited
PROPERTIES
    VersionsOnlySuperseded
    ReparseInventsNoDates
    ImplementsHistory
