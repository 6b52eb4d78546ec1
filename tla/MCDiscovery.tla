------------------------------ MODULE MCDiscovery ------------------------------
(***************************************************************************)
(* An instance of Discovery for TLC: two categories that share a document, *)
(* one of them with two pages.                                             *)
(***************************************************************************)
EXTENDS Discovery

CONSTANT r1

OneRun == {r1}
MCUrls == {"u1", "u2", "u3"}
MCSite == << <<<<"u1", "u2">>, <<"u3">>>>, <<<<"u2">>>> >>
=============================================================================
