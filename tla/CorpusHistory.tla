----------------------------- MODULE CorpusHistory -----------------------------
(***************************************************************************)
(* What the corpus promises its readers: the version table as if every     *)
(* publication were one indivisible step on the committed rows.            *)
(*                                                                         *)
(* Publication.tla shows that the ingest processes, each reading in        *)
(* several statements of a READ COMMITTED transaction, implement this.     *)
(***************************************************************************)
EXTENDS CorpusTables

VARIABLE corpus     \* the committed rows of legal_document_versions

TypeOK == corpus \subseteq Version

Init == corpus = {}

(***************************************************************************)
(* Bytes h, as parsed by build p, become the current version of d: what    *)
(* was published is superseded, and the version is appended with the next  *)
(* number.  The same bytes and build are never enacted twice.              *)
(***************************************************************************)
Publish(d, h, p, now) ==
    LET seen    == VersionsOf(corpus, d)
        closing == PublishedOf(seen)
        closed  == {Superseded(v, Canonicalization(seen, h, p), now) : v \in closing}
    IN  /\ Parsed[<<h, p>>].ok
        /\ ~HasVersion(corpus, d, h, p)
        /\ \A v \in closed : IntervalAccepted(v)
        /\ corpus' = Overlaid(corpus, closed) \cup {NewVersion(d, seen, h, p)}

Next == \E d \in Documents, h \in Hashes, p \in Parsers, now \in Times :
            Publish(d, h, p, now)

Spec == Init /\ [][Next]_corpus

-----------------------------------------------------------------------------
(***************************************************************************)
(* The numbers of a document's versions are 1, 2, ... without a gap, each  *)
(* used once (publish computes max + 1 from what it read).                 *)
(***************************************************************************)
NumbersContiguous ==
    /\ \A u, v \in corpus : SameRow(u, v) => u = v
    /\ \A v \in corpus : v.number >= 1
    /\ \A v \in corpus : v.number > 1 =>
            \E u \in corpus : u.doc = v.doc /\ u.number = v.number - 1

(***************************************************************************)
(* A document that has versions has one current version, and it is the     *)
(* newest: an update neither loses the published law nor leaves two texts  *)
(* published (service.ts, the loop over "published" and persistWith).      *)
(***************************************************************************)
OneCurrentVersion ==
    \A v \in corpus :
        v.status = "PUBLISHED" <=> \A u \in corpus : u.doc = v.doc => u.number <= v.number
=============================================================================
