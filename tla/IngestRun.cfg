\* One process, killed and started again at will: three runs of up to two acts.
SPECIFICATION RunSpec
CONSTANTS
    Documents = {act}
    Hashes <- MCHashes
    Parsers <- MCParsers
    Locators <- MCLocators
    Root = "doc"
    Parsed <- MCParsed
    Times = {1, 2}
    Workers = {cli}
    MaxRuns = 3
    MaxActs = 2
INVARIANTS
    CountersMatchCorpus
    SucceededIsComplete
    OneOpenReviewPerBytes
PROPERTIES
    ReviewsFollowPublication
CHECK_DEADLOCK FALSE
