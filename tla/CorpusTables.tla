----------------------------- MODULE CorpusTables -----------------------------
(***************************************************************************)
(* The vocabulary of the law corpus: what the parser makes of archived     *)
(* bytes, the rows of legal_document_versions, and the pure parts of       *)
(* IngestLegalInfoService.publish that compute the next rows from the      *)
(* rows a transaction has read.                                            *)
(*                                                                         *)
(* A document is its canonical URL (unique with the source, of which the   *)
(* ingest has one), bytes are their SHA-256, and the archive record of     *)
(* bytes is the one record that hash has, so no column repeats it.         *)
(***************************************************************************)
EXTENDS VersionTimeline

CONSTANTS
    Documents,  \* canonical URLs
    Hashes,     \* SHA-256 of the bytes the source has served
    Parsers,    \* parser builds, each with its own parserId
    Locators,   \* source locators of the nodes of a parsed act
    Root,       \* the locator of the DOCUMENT node at the root of every tree
    Parsed,     \* what a build makes of bytes: the gate's verdict, the date
                \* it reads, the locators of the tree
    Times       \* the instants at which the program reads its clock

ASSUME ParsedAssumption ==
    /\ Root \in Locators
    /\ Parsed \in [Hashes \X Parsers ->
                     [ok: BOOLEAN, from: Bound, tree: SUBSET Locators]]
    /\ \A a \in Hashes \X Parsers : Root \in Parsed[a].tree

ASSUME TimesAssumption == Times \subseteq Instant

Version == [doc: Documents, number: Nat, from: Bound, to: Bound,
            hash: Hashes, parser: Parsers, status: {"PUBLISHED", "SUPERSEDED"}]

-----------------------------------------------------------------------------
(* Reading the table.                                                      *)

\* The key of a row: the program saves by id, an id never changes documents
\* or numbers.
SameRow(u, v) == u.doc = v.doc /\ u.number = v.number

\* versions.listByDocumentId
VersionsOf(rows, d) == {v \in rows : v.doc = d}

PublishedOf(rows) == {v \in rows : v.status = "PUBLISHED"}

\* versions.findByDocumentContentHashAndParserId: any status will do.
HasVersion(rows, d, h, p) ==
    \E v \in rows : v.doc = d /\ v.hash = h /\ v.parser = p

\* Rows as seen through the uncommitted updates of a transaction.
Overlaid(rows, updates) ==
    {v \in rows : \A u \in updates : ~SameRow(u, v)} \cup updates

-----------------------------------------------------------------------------
(* Computing the next rows, from the list "seen" of a document's versions. *)

\* Math.max(0, ...versions.map(v => v.versionNumber)) + 1
NextNumber(seen) ==
    CHOOSE n \in {1} \cup {v.number + 1 : v \in seen} :
        \A v \in seen : v.number < n

\* priorSameSource is the first version, in the order of the numbers, with the
\* same bytes; the update is a canonicalization when another build made it.
Canonicalization(seen, h, p) ==
    \E v \in seen :
        /\ v.hash = h /\ v.parser # p
        /\ \A u \in seen : u.hash = h => v.number <= u.number

\* A published version as the update saves it: a source update closes an open
\* interval now, a canonicalization leaves it as it is.
Superseded_AlwaysCloses(v, canonical, now) ==
    [v EXCEPT !.status = "SUPERSEDED", !.to = IF v.to # Unknown THEN v.to ELSE now]

Superseded_Withdrawn(v, canonical, now) == [v EXCEPT !.status = "WITHDRAWN"]

Superseded(v, canonical, now) ==
    [v EXCEPT !.status = "SUPERSEDED",
              !.to = IF canonical \/ v.to # Unknown THEN v.to ELSE now]

NewVersion(d, seen, h, p) ==
    [doc    |-> d,
     number |-> NextNumber(seen),
     from   |-> IF Canonicalization(seen, h, p) THEN Unknown
                ELSE Parsed[<<h, p>>].from,
     to     |-> Unknown,
     hash   |-> h,
     parser |-> p,
     status |-> "PUBLISHED"]

\* versionsDoNotOverlap on the listed rows of one document.
VersionsDoNotOverlap(rows) ==
    \A u, v \in PublishedOf(rows) : u # v => ~IntervalsOverlap(u, v)

(***************************************************************************)
(* The constraints of legal_document_versions a new row has to meet:       *)
(* unique (document, number), unique (document, hash, parser) and the      *)
(* exclusion of overlapping published ranges.                              *)
(***************************************************************************)
ConstraintsAllow_Unmigrated(rows, r) == TRUE

ConstraintsAllow_HashOnly(rows, r) == ~HasVersion(rows, r.doc, r.hash, r.parser)

ConstraintsAllow(rows, r) ==
    /\ \A v \in rows : ~SameRow(v, r)
    /\ ~HasVersion(rows, r.doc, r.hash, r.parser)
    /\ RangeIsLegal(r)
    /\ \A v \in PublishedOf(VersionsOf(rows, r.doc)) : ~RangesOverlap(v, r)
=============================================================================
