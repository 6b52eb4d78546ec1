------------------------------ MODULE MCIngestRun ------------------------------
(***************************************************************************)
(* MCPublication's act, bytes and builds, ingested by one CLI.             *)
(***************************************************************************)
EXTENDS IngestRun

MCHashes   == {"old", "new"}
MCParsers  == {"v1", "v2"}
MCLocators == {"doc", "art-1", "art-2"}

\* Build v1 cannot parse the new bytes: the gate refuses what it makes of them.
MCParsed ==
    [a \in MCHashes \X MCParsers |->
        [ok   |-> a # <<"new", "v1">>,
         from |-> IF a[1] = "old" THEN 1 ELSE 2,
         tree |-> IF a[1] = "old" THEN {"doc", "art-1"} ELSE MCLocators]]
=============================================================================
