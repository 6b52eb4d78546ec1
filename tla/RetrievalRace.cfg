\* Requests of every kind while the ingest publishes.
SPECIFICATION ReaderSpec
CONSTANTS
    a1 = a1
    a2 = a2
    Documents <- MCDocuments
    Hashes <- MCHashes
    Parsers <- MCParsers
    Locators <- MCLocators
    Root = "doc"
    Parsed <- MCParsed
    Times <- MCTimes
    Requests <- MCRequests
    MaxAuthorities = 3
INVARIANTS
    CurrentByDocumentOrCitation
    AsOfAnswersHold
    DocumentAnswerIsOneText
    ValidIsUnambiguous
