------------------------------ MODULE MCRetrieval ------------------------------
(***************************************************************************)
(* Instances of Retrieval for TLC: two acts that share locators, bytes     *)
(* that change, a parser build that is replaced, and requests of every     *)
(* kind, with and without an instant.                                      *)
(***************************************************************************)
EXTENDS Retrieval, TLC

CONSTANTS a1, a2

MCDocuments == {a1, a2}
MCHashes    == {"old", "new"}
MCParsers   == {"v1", "v2"}
MCLocators  == {"doc", "art-1", "art-2", "art-3"}
MCTimes     == {2, 3}

\* Build v1 cannot parse the new bytes.
MCParsed ==
    [a \in MCHashes \X MCParsers |->
        [ok   |-> a # <<"new", "v1">>,
         from |-> IF a[1] = "old" THEN 1 ELSE 2,
         tree |-> IF a[1] = "old" THEN {"doc", "art-1"} ELSE MCLocators]]

Node(d, n, l)     == [doc |-> d, number |-> n, locator |-> l]
Key(d, l)         == [docs |-> {d}, locators |-> {l}]
Phrase(ds, ls)    == [docs |-> ds, locators |-> ls]
Asking(by, n, qs, asOf) == [by |-> by, node |-> n, queries |-> qs, asOf |-> asOf]

NoNode == Node(a1, 1, "doc")

NodeRequests ==
    {Asking("node", Node(a1, 1, "art-1"), <<>>, t) : t \in {Unknown, 1}}

MCRequests ==
    NodeRequests \cup
    {Asking("document", NoNode, <<>>, t) : t \in {Unknown, 2}} \cup
    {Asking("question", NoNode, <<>>, t) : t \in {Unknown, 1}} \cup
    {Asking("citations", NoNode, <<Key(a1, "art-1"), Phrase({a1, a2}, {"art-2"})>>, t) :
        t \in {Unknown, 2}} \cup
    {Asking("verify", NoNode, <<Key(a1, "art-1"), Phrase({a1, a2}, {"art-1"})>>, Unknown),
     Asking("verify", NoNode, <<Phrase({a1}, {"art-2", "art-3"})>>, 2)}
=============================================================================
