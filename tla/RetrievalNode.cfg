\* Lookups by node id, nothing else.
SPECIFICATION ReaderSpec
CONSTANTS
    a1 = a1
    a2 = a2
    Documents <- MCDocuments
    Hashes <- MCHashes
    Parsers <- MCParsers
    Locators <- MCLocators
    Root = "doc"
    Parsed <- MCParsed
    Times <- MCTimes
    Requests <- NodeRequests
    MaxAuthorities = 3
INVARIANTS
    CurrentSnapshot
