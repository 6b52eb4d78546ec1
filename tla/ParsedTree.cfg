\* Every document of up to five of these lines.  A document ends: no deadlock
\* is meant where the last line has been read.
SPECIFICATION TreeSpec
CONSTANTS
    Lines <- MCLines
    MaxLines = 5
    Texts <- MCTexts
    Includes <- MCIncludes
INVARIANTS
    ClashIsTheOnlyFault
    TextIsInPlace
    VerdictFollowsLines
CHECK_DEADLOCK FALSE
