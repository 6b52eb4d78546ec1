---------------------------- MODULE MCArchiveStore ----------------------------
(***************************************************************************)
(* Instances of ArchiveStore for TLC: one process writes, one creates the  *)
(* record, one reads.                                                      *)
(***************************************************************************)
EXTENDS ArchiveStore

CONSTANTS h1, h2, w1, w2, w3

TwoHashes    == {h1, h2}
OneWorker    == {w1}
ThreeWorkers == {w1, w2, w3}
=============================================================================
