\* Two processes, fair scheduling.
SPECIFICATION FairSpec
CONSTANTS
    Documents = {act}
    Hashes <- LiveHashes
    Parsers = {"v1"}
    Locators = {"doc", "art-1"}
    Root = "doc"
    Parsed <- LiveParsed
    Times = {1}
    Workers = {w1, w2}
PROPERTIES
    EveryRunEnds
