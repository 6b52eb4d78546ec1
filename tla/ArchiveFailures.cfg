\* Three processes, failures at any step.
SPECIFICATION FairSpec
CONSTANTS
    h1 = h1
    h2 = h2
    w1 = w1
    w2 = w2
    w3 = w3
    Hashes <- TwoHashes
    Workers <- ThreeWorkers
    MaxFailures = 1
INVARIANTS
    ParsedBytesAreArchived
    RecordHasFile
PROPERTIES
    WholeForEver
    BytesGetArchived
