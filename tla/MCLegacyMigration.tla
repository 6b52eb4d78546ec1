--------------------------- MODULE MCLegacyMigration ---------------------------
(***************************************************************************)
(* Instances of LegacyMigration for TLC: an act the ingest publishes as    *)
(* well, in a closed and in an open legacy version, and one it does not    *)
(* know.  Two articles of the first version display the same number.       *)
(***************************************************************************)
EXTENDS LegacyMigration

CONSTANTS act, order, root, art

MCDocuments == {act, order}
MCHashes    == {"h1", "h2"}
MCParsers   == {"p1"}
MCLocators  == {root, art}
MCParsed    == [a \in MCHashes \X MCParsers |->
                  [ok |-> TRUE, from |-> IF a[1] = "h1" THEN Unknown ELSE 3,
                   tree |-> {root, art}]]
MCTimes     == {4}
MCSources   == {"legalinfo", "other"}
MCSourceOf  == [d \in MCDocuments |-> IF d = act THEN "legalinfo" ELSE "other"]

MCLegacyArchives == <<"other", "legalinfo", "legalinfo">>

MCLegacyDocuments ==
    << [archive |-> 2, doc |-> act, hash |-> "h1", number |-> 2, from |-> 1, to |-> 2,
        articles |-> {[id |-> 1, number |-> 7, order |-> 1],
                      [id |-> 2, number |-> 7, order |-> 2]}],
       [archive |-> 1, doc |-> order, hash |-> "h2", number |-> 1, from |-> Unknown,
        to |-> Unknown, articles |-> {[id |-> 3, number |-> Unknown, order |-> 1]}],
       [archive |-> 3, doc |-> act, hash |-> "h2", number |-> 3, from |-> 1, to |-> Unknown,
        articles |-> {[id |-> 4, number |-> 8, order |-> 1]}] >>

MCLimits == {1, 3}
=============================================================================
