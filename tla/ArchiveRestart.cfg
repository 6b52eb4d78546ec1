\* One process that is stopped once and started again.
SPECIFICATION Spec
CONSTANTS
    h1 = h1
    h2 = h2
    w1 = w1
    w2 = w2
    w3 = w3
    Hashes <- TwoHashes
    Workers <- OneWorker
    MaxFailures = 1
INVARIANTS
    IndexedBytesSurvive
