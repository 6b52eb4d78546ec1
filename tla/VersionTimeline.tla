--------------------------- MODULE VersionTimeline ---------------------------
(***************************************************************************)
(* The effective interval of a document version: the pure functions of     *)
(* src/src/domain/services/document-version.ts, and the exclusion          *)
(* constraint PostgreSQL enforces on the same two columns.                 *)
(*                                                                         *)
(* An instant is a natural number (milliseconds since the Unix epoch).     *)
(* A bound is an instant or Unknown, which stands for the null of the      *)
(* columns effective_from and effective_to.  Unknown is no instant.        *)
(***************************************************************************)
EXTENDS Naturals, Integers

Unknown == -1
Instant == Nat
Bound   == Instant \cup {Unknown}

\* Anything with the two columns.
Interval == [from: Bound, to: Bound]

(***************************************************************************)
(* assertDocumentVersion, the interval part.  The code tests "from && to"  *)
(* on the parsed numbers, so an unknown bound and the epoch itself (0)     *)
(* both escape the comparison.                                             *)
(***************************************************************************)
IntervalAccepted(v) ==
    \/ v.from \in {Unknown, 0}
    \/ v.to \in {Unknown, 0}
    \/ v.from <= v.to

(***************************************************************************)
(* intervalsOverlap: closed intervals, a null bound being infinite.        *)
(***************************************************************************)
NotAfter(from, to) == from = Unknown \/ to = Unknown \/ from <= to

IntervalsOverlap(a, b) == NotAfter(a.from, b.to) /\ NotAfter(b.from, a.to)

(***************************************************************************)
(* legal_document_versions_published_no_overlap: tsrange(from, to, '[)')   *)
(* overlaps (&&) of two half-open ranges.  A range with equal bounds is    *)
(* empty and overlaps nothing; one with inverted bounds cannot be built,   *)
(* so the statement that would store it fails (RangeIsLegal).              *)
(***************************************************************************)
Before(from, to) == from = Unknown \/ to = Unknown \/ from < to

RangeIsLegal(v) == NotAfter(v.from, v.to)

RangesOverlap(a, b) ==
    /\ Before(a.from, a.to) /\ Before(b.from, b.to)
    /\ Before(a.from, b.to) /\ Before(b.from, a.to)

(***************************************************************************)
(* versionHasAsOfProvenance and versionCoversInstant: membership in        *)
(* [from, to), and only when both bounds are known.                        *)
(***************************************************************************)
HasAsOfProvenance(v) == v.from # Unknown /\ v.to # Unknown

CoversInstant(v, t) == HasAsOfProvenance(v) /\ v.from <= t /\ t < v.to
=============================================================================
