------------------------------ MODULE MCDownload ------------------------------
(***************************************************************************)
(* Instances of Download for TLC: a page that links a PDF and one that     *)
(* does not, downloaded by two processes.                                  *)
(***************************************************************************)
EXTENDS Download

CONSTANTS p1, p2, d1, nothing

MCProcesses == {p1, p2}
MCDocuments == {d1}
MCHashes    == {"page", "plain", "pdf"}
MCPages     == {"page", "plain"}
MCLinksPdf  == {"page"}

\* All but a failing fsync: with it CatalogIsWhole does not hold.
MostFaults == {"write", "query", "stop"}
=============================================================================
