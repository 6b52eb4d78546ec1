----------------------------- MODULE MCPublication -----------------------------
(***************************************************************************)
(* Instances of Publication for TLC: one act whose bytes change, two       *)
(* parser builds, one date read that lies in the future of the first       *)
(* clock reading.                                                          *)
(***************************************************************************)
EXTENDS Publication, TLC

MCHashes   == {"old", "new"}
MCParsers  == {"v1", "v2"}
MCLocators == {"doc", "art-1", "art-2"}
MCTimes    == {1, 2}

\* Build v1 cannot parse the new bytes: the gate refuses what it makes of them.
MCParsed ==
    [a \in MCHashes \X MCParsers |->
        [ok   |-> a # <<"new", "v1">>,
         from |-> IF a[1] = "old" THEN 1 ELSE 2,
         tree |-> IF a[1] = "old" THEN {"doc", "art-1"} ELSE MCLocators]]

\* For liveness: one build, and bytes it refuses next to two it accepts.
LiveHashes == {"old", "new", "broken"}
LiveParsed ==
    [a \in LiveHashes \X {"v1"} |->
        [ok |-> a[1] # "broken", from |-> Unknown, tree |-> {"doc", "art-1"}]]

Symmetry == Permutations(Workers)
=============================================================================
