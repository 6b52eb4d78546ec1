-------------------------- MODULE CorpusTablesProofs --------------------------
(***************************************************************************)
(* How the two notions of overlap fit together (the closed intervals that  *)
(* versionsDoNotOverlap compares before a version is saved, the half-open  *)
(* ranges of the exclusion constraint and of the as-of rule); then lemmas  *)
(* about the rows of legal_document_versions, and what one publication     *)
(* makes of them.  They are about a set of rows, not about a variable, so  *)
(* the abstract history and the ingest share them.                         *)
(***************************************************************************)
EXTENDS CorpusTables, FiniteSetTheorems, FunctionTheorems, TLAPS

(***************************************************************************)
(* What the program accepts the database accepts too: two intervals that   *)
(* intervalsOverlap calls disjoint have disjoint ranges, so an insert that *)
(* passed persistWith's check of the rows it read can only be refused      *)
(* because of rows it did not read (document-version.ts:92-101,            *)
(* migration.sql:21-30).                                                   *)
(***************************************************************************)
THEOREM Timeline_ClosedImpliesRanges ==
    ASSUME NEW a \in Interval, NEW b \in Interval, ~IntervalsOverlap(a, b)
    PROVE  ~RangesOverlap(a, b)
  BY DEF Interval, Bound, Instant, Unknown, IntervalsOverlap, NotAfter,
         RangesOverlap, Before

(***************************************************************************)
(* The as-of rule answers with at most one of two versions whose ranges    *)
(* the exclusion constraint would let stand together: an instant that both *)
(* cover is proof that the ranges overlap (versionCoversInstant).          *)
(***************************************************************************)
THEOREM Timeline_OneCoversInstant ==
    ASSUME NEW a \in Interval, NEW b \in Interval, NEW t \in Instant,
           CoversInstant(a, t), CoversInstant(b, t)
    PROVE  RangesOverlap(a, b) /\ IntervalsOverlap(a, b)
  BY DEF Interval, Bound, Instant, Unknown, IntervalsOverlap, NotAfter,
         RangesOverlap, Before, CoversInstant, HasAsOfProvenance

(***************************************************************************)
(* The converse of the first theorem fails where it matters: a version     *)
(* that ends at the instant its successor starts shares no instant with    *)
(* it, and the closed comparison calls the two overlapping.  An update is  *)
(* only possible because it supersedes before it compares                  *)
(* (document-version.ts:100).                                              *)
(***************************************************************************)
THEOREM Timeline_AdjacentDisagree ==
    ASSUME NEW a \in Interval, NEW b \in Interval, HasAsOfProvenance(a),
           a.from < a.to, a.to = b.from, b.to = Unknown
    PROVE  IntervalsOverlap(a, b) /\ ~RangesOverlap(a, b)
  BY DEF Interval, Bound, Instant, Unknown, IntervalsOverlap, NotAfter,
         RangesOverlap, Before, HasAsOfProvenance

(***************************************************************************)
(* An interval assertDocumentVersion accepts is one PostgreSQL can store,  *)
(* but for the epoch: a version that ends at instant 0 escapes the         *)
(* comparison and is refused by the table (document-version.ts:5-24).      *)
(***************************************************************************)
THEOREM Timeline_AcceptedIsLegal ==
    ASSUME NEW a \in Interval, IntervalAccepted(a), a.to # 0
    PROVE  RangeIsLegal(a)
  BY DEF Interval, Bound, Instant, Unknown, IntervalAccepted, RangeIsLegal, NotAfter

-----------------------------------------------------------------------------
(* Sets of rows.                                                           *)

Keyed(rows) == \A u, v \in rows : SameRow(u, v) => u = v

(***************************************************************************)
(* The rows of a corpus that grew by whole publications.  That a document  *)
(* with versions has a published one says that it has a newest one, which  *)
(* is what makes the next number well defined.                             *)
(***************************************************************************)
HasHistory(rows) ==
    /\ rows \subseteq Version
    /\ Keyed(rows)
    /\ \A v \in rows : v.number >= 1
    /\ \A v \in rows : v.number > 1 =>
            \E u \in rows : u.doc = v.doc /\ u.number = v.number - 1
    /\ \A v \in rows :
            v.status = "PUBLISHED" <=> \A u \in rows : u.doc = v.doc => u.number <= v.number
    /\ \A v \in rows : \E u \in rows : u.doc = v.doc /\ u.status = "PUBLISHED"

\* What a publication closes, and the rows it leaves.
Closed(rows, d, h, p, now) ==
    {Superseded(v, Canonicalization(VersionsOf(rows, d), h, p), now) :
        v \in PublishedOf(VersionsOf(rows, d))}

Enacted(rows, d, h, p, now) ==
    Overlaid(rows, Closed(rows, d, h, p, now))
        \cup {NewVersion(d, VersionsOf(rows, d), h, p)}

-----------------------------------------------------------------------------
LEMMA LeastNumber ==
    ASSUME NEW S \in SUBSET Nat, S # {}
    PROVE  \E k \in S : \A i \in S : k <= i
  <1> DEFINE R == {ss \in Nat \X Nat : ss[1] < ss[2]}
  <1>1. IsWellFoundedOn(R, Nat)
    BY ONLY NatLessThanWellFounded DEF OpToRel
  <1> HIDE DEF R
  <1>2. PICK k \in S : \A i \in S : ~(<<i, k>> \in R)
    BY <1>1, WFMin
  <1>3. ASSUME NEW i \in S PROVE k <= i
    <2>1. ~(i < k)
      BY <1>2 DEF R
    <2> QED  BY <2>1
  <1> QED  BY <1>3

LEMMA NoHistoryYet == HasHistory({})
  BY DEF HasHistory, Keyed

(***************************************************************************)
(* The next number is 1 without versions, and one more than the newest     *)
(* otherwise.                                                              *)
(***************************************************************************)
LEMMA NextNumberFirst == NextNumber({}) = 1
  BY DEF NextNumber

LEMMA NextNumberAfter ==
    ASSUME NEW seen, \A v \in seen : v.number \in Nat,
           NEW m \in seen, \A v \in seen : v.number <= m.number
    PROVE  NextNumber(seen) = m.number + 1
  <1> DEFINE S    == {1} \cup {v.number + 1 : v \in seen}
             P(n) == \A v \in seen : v.number < n
  <1>1. m.number + 1 \in S /\ P(m.number + 1)
    OBVIOUS
  <1>2. ASSUME NEW n \in S, P(n) PROVE n = m.number + 1
    BY <1>2
  <1>3. NextNumber(seen) \in S /\ P(NextNumber(seen))
    BY <1>1 DEF NextNumber
  <1> QED  BY <1>2, <1>3

LEMMA NextNumberIsFresh ==
    ASSUME NEW rows, HasHistory(rows), NEW d,
           NEW n, n = NextNumber(VersionsOf(rows, d))
    PROVE  /\ n \in Nat /\ n >= 1
           /\ \A v \in rows : v.doc = d => v.number < n
           /\ n > 1 => \E u \in rows : u.doc = d /\ u.number = n - 1
  <1> DEFINE seen == VersionsOf(rows, d)
  <1>0. \A v \in seen : v.number \in Nat /\ v \in rows /\ v.doc = d
    BY DEF VersionsOf, HasHistory, Version
  <1>1. CASE seen = {}
    <2>1. n = 1
      BY <1>1, NextNumberFirst
    <2>2. \A v \in rows : v.doc # d
      BY <1>1 DEF VersionsOf
    <2> QED  BY <2>1, <2>2
  <1>2. CASE seen # {}
    <2>1. PICK v \in seen : TRUE
      BY <1>2
    <2>2. PICK m \in rows : m.doc = d /\ m.status = "PUBLISHED"
      BY <1>0, <2>1 DEF HasHistory
    <2>3. m \in seen /\ \A u \in seen : u.number <= m.number
      BY <2>2 DEF HasHistory, VersionsOf
    <2>4. n = m.number + 1
      BY <1>0, <2>3, NextNumberAfter
    <2>5. \A u \in rows : u.doc = d => u.number \in Nat /\ u.number <= m.number
      BY <1>0, <2>3 DEF VersionsOf
    <2>6. m.number \in Nat /\ m.doc = d
      BY <2>2, <2>5
    <2>7. n \in Nat /\ n >= 1 /\ n - 1 = m.number
      BY <2>4, <2>6
    <2>8. \A u \in rows : u.doc = d => u.number < n
      BY <2>4, <2>5, <2>6
    <2> QED  BY <2>6, <2>7, <2>8
  <1> QED  BY <1>1, <1>2

-----------------------------------------------------------------------------
\* Superseding a row keeps its key and its provenance.
LEMMA SupersededRow ==
    ASSUME NEW v \in Version, NEW c \in BOOLEAN, NEW now \in Instant
    PROVE  /\ Superseded(v, c, now) \in Version
           /\ Superseded(v, c, now).doc = v.doc
           /\ Superseded(v, c, now).number = v.number
           /\ Superseded(v, c, now).hash = v.hash
           /\ Superseded(v, c, now).parser = v.parser
           /\ Superseded(v, c, now).from = v.from
           /\ Superseded(v, c, now).status = "SUPERSEDED"
           /\ v.to \in {Unknown, Superseded(v, c, now).to}
           /\ c => Superseded(v, c, now).to = v.to
  BY DEF Superseded, Version, Bound, Instant, Unknown

LEMMA CanonicalizationIsBoolean ==
    ASSUME NEW seen, NEW h, NEW p PROVE Canonicalization(seen, h, p) \in BOOLEAN
  BY Zenon DEF Canonicalization

LEMMA NewVersionRow ==
    ASSUME NEW rows, HasHistory(rows), NEW d \in Documents, NEW h \in Hashes,
           NEW p \in Parsers, NEW r, r = NewVersion(d, VersionsOf(rows, d), h, p)
    PROVE  /\ r \in Version /\ r.doc = d /\ r.status = "PUBLISHED"
           /\ r.hash = h /\ r.parser = p /\ r.to = Unknown
           /\ r.number = NextNumber(VersionsOf(rows, d))
           /\ Canonicalization(VersionsOf(rows, d), h, p) => r.from = Unknown
  <1>1. NextNumber(VersionsOf(rows, d)) \in Nat
    BY NextNumberIsFresh
  <1>2. Parsed[<<h, p>>].from \in Bound
    BY ParsedAssumption
  <1> DEFINE f == IF Canonicalization(VersionsOf(rows, d), h, p) THEN Unknown
                  ELSE Parsed[<<h, p>>].from
  <1>3. f \in Bound
    BY <1>2 DEF Bound
  <1> HIDE DEF f
  <1>4. r = [doc |-> d, number |-> NextNumber(VersionsOf(rows, d)), from |-> f,
             to |-> Unknown, hash |-> h, parser |-> p, status |-> "PUBLISHED"]
    BY DEF NewVersion, f
  <1>5. Canonicalization(VersionsOf(rows, d), h, p) => f = Unknown
    BY DEF f
  <1> QED  BY <1>1, <1>3, <1>4, <1>5 DEF Version, Bound

(***************************************************************************)
(* The rows after a publication are: those it did not close, those it      *)
(* closed, superseded, and the new one.                                    *)
(***************************************************************************)
LEMMA EnactedRows ==
    ASSUME NEW rows, HasHistory(rows), NEW d \in Documents, NEW h \in Hashes,
           NEW p \in Parsers, NEW now \in Instant, NEW r
    PROVE  r \in Enacted(rows, d, h, p, now) <=>
             \/ r \in rows /\ ~(r.doc = d /\ r.status = "PUBLISHED")
             \/ \E v \in rows :
                  /\ v.doc = d /\ v.status = "PUBLISHED"
                  /\ r = Superseded(v, Canonicalization(VersionsOf(rows, d), h, p), now)
             \/ r = NewVersion(d, VersionsOf(rows, d), h, p)
  <1> DEFINE c      == Canonicalization(VersionsOf(rows, d), h, p)
             closed == Closed(rows, d, h, p, now)
  <1>1. \A u : u \in closed <=>
            \E v \in rows : v.doc = d /\ v.status = "PUBLISHED" /\ u = Superseded(v, c, now)
    BY DEF Closed, PublishedOf, VersionsOf
  <1>2. \A v \in rows : SameRow(Superseded(v, c, now), v)
    BY SupersededRow, CanonicalizationIsBoolean DEF HasHistory, SameRow
  <1>3. ASSUME r \in rows
        PROVE  (\A u \in closed : ~SameRow(u, r)) <=> ~(r.doc = d /\ r.status = "PUBLISHED")
    <2>1. ASSUME r.doc = d, r.status = "PUBLISHED"
          PROVE  \E u \in closed : SameRow(u, r)
      BY <1>1, <1>2, <1>3, <2>1
    <2>2. ASSUME NEW u \in closed, SameRow(u, r)
          PROVE  r.doc = d /\ r.status = "PUBLISHED"
      <3>1. PICK v \in rows : v.doc = d /\ v.status = "PUBLISHED" /\ u = Superseded(v, c, now)
        BY <1>1
      <3>2. SameRow(v, r)
        BY <1>2, <2>2, <3>1 DEF SameRow
      <3>3. v = r
        BY <1>3, <3>2 DEF HasHistory, Keyed
      <3> QED  BY <3>1, <3>3
    <2> QED  BY <2>1, <2>2
  <1>4. r \in Overlaid(rows, closed) <=>
            (r \in rows /\ \A u \in closed : ~SameRow(u, r)) \/ r \in closed
    BY DEF Overlaid
  <1> HIDE DEF c, closed
  <1>5. r \in Enacted(rows, d, h, p, now) <=>
            r \in Overlaid(rows, closed) \/ r = NewVersion(d, VersionsOf(rows, d), h, p)
    BY DEF Enacted, closed
  <1>6. c = Canonicalization(VersionsOf(rows, d), h, p)
    BY DEF c
  <1> QED  BY <1>1, <1>3, <1>4, <1>5, <1>6

(***************************************************************************)
(* A publication that computes its update from the committed rows keeps    *)
(* their history, whatever was published before.                           *)
(***************************************************************************)
LEMMA EnactedHasHistory ==
    ASSUME NEW rows, HasHistory(rows), NEW d \in Documents, NEW h \in Hashes,
           NEW p \in Parsers, NEW now \in Instant
    PROVE  HasHistory(Enacted(rows, d, h, p, now))
  <1> DEFINE c    == Canonicalization(VersionsOf(rows, d), h, p)
             new  == NewVersion(d, VersionsOf(rows, d), h, p)
             n    == NextNumber(VersionsOf(rows, d))
             next == Enacted(rows, d, h, p, now)
  <1>1. /\ new \in Version /\ new.doc = d /\ new.status = "PUBLISHED" /\ new.number = n
    BY NewVersionRow
  <1>2. /\ n \in Nat /\ n >= 1
        /\ \A v \in rows : v.doc = d => v.number < n
        /\ n > 1 => \E u \in rows : u.doc = d /\ u.number = n - 1
    BY NextNumberIsFresh
  <1>3. \A v \in rows :
            /\ v \in Version /\ Superseded(v, c, now) \in Version
            /\ Superseded(v, c, now).doc = v.doc
            /\ Superseded(v, c, now).number = v.number
            /\ Superseded(v, c, now).status = "SUPERSEDED"
    BY SupersededRow, CanonicalizationIsBoolean DEF HasHistory
  <1>4. \A r : r \in next <=>
             \/ r \in rows /\ ~(r.doc = d /\ r.status = "PUBLISHED")
             \/ \E v \in rows :
                  v.doc = d /\ v.status = "PUBLISHED" /\ r = Superseded(v, c, now)
             \/ r = new
    BY EnactedRows
  <1> HIDE DEF c, new, n, next
  \* Each row has an origin among the rows before, with its key, or is new.
  <1>5. ASSUME NEW r \in next
        PROVE  \/ r = new
               \/ \E v \in rows : /\ SameRow(v, r)
                                  /\ r = v \/ r = Superseded(v, c, now)
                                  /\ v.doc = d => r.status = "SUPERSEDED"
                                  /\ v.doc # d => r = v
    <2>1. CASE r \in rows /\ ~(r.doc = d /\ r.status = "PUBLISHED")
      BY <2>1, <1>3 DEF SameRow, Version
    <2>2. CASE \E v \in rows :
                  v.doc = d /\ v.status = "PUBLISHED" /\ r = Superseded(v, c, now)
      BY <2>2, <1>3 DEF SameRow
    <2> QED  BY <1>4, <2>1, <2>2
  \* Each row before lives on under its key.
  <1>6. ASSUME NEW v \in rows
        PROVE  \E r \in next : SameRow(r, v) /\ (v.doc # d => r = v)
    BY <1>3, <1>4 DEF SameRow
  <1>7. new \in next
    BY <1>4
  <1>8. next \subseteq Version
    BY <1>1, <1>3, <1>4
  <1>9. Keyed(next)
    <2> SUFFICES ASSUME NEW r \in next, NEW s \in next, SameRow(r, s) PROVE r = s
      BY DEF Keyed
    <2>1. CASE r = new \/ s = new
      BY <2>1, <1>1, <1>2, <1>5 DEF SameRow
    <2>2. CASE r # new /\ s # new
      <3>1. PICK v \in rows : /\ SameRow(v, r) /\ (v.doc # d => r = v)
                              /\ v.doc = d => r.status = "SUPERSEDED"
                              /\ r = v \/ r = Superseded(v, c, now)
        BY <2>2, <1>5
      <3>2. PICK u \in rows : /\ SameRow(u, s) /\ (u.doc # d => s = u)
                              /\ u.doc = d => s.status = "SUPERSEDED"
                              /\ s = u \/ s = Superseded(u, c, now)
        BY <2>2, <1>5
      <3>3. u = v
        BY <3>1, <3>2 DEF SameRow, HasHistory, Keyed
      <3>4. CASE v.doc = d /\ v.status = "PUBLISHED"
        BY <3>1, <3>2, <3>3, <3>4
      <3>5. CASE ~(v.doc = d /\ v.status = "PUBLISHED")
        <4>1. ASSUME NEW x \in next, x # new, SameRow(x, v) PROVE x = v
          <5>1. CASE x \in rows
            BY <4>1, <5>1 DEF HasHistory, Keyed
          <5>2. CASE \E y \in rows : y.doc = d /\ y.status = "PUBLISHED" /\ x = Superseded(y, c, now)
            <6>1. PICK y \in rows : y.doc = d /\ y.status = "PUBLISHED" /\ x = Superseded(y, c, now)
              BY <5>2
            <6>2. SameRow(y, v)
              BY <1>3, <4>1, <6>1 DEF SameRow
            <6>3. y = v
              BY <6>2 DEF HasHistory, Keyed
            <6> QED  BY <3>5, <6>1, <6>3
          <5> QED  BY <1>4, <4>1, <5>1, <5>2
        <4> QED  BY <4>1, <2>2, <3>1, <3>2, <3>3 DEF SameRow
      <3> QED  BY <3>4, <3>5
    <2> QED  BY <2>1, <2>2
  <1>10. \A r \in next : r.number >= 1
    BY <1>1, <1>2, <1>5 DEF HasHistory, SameRow
  <1>11. ASSUME NEW r \in next, r.number > 1
         PROVE  \E s \in next : s.doc = r.doc /\ s.number = r.number - 1
    <2>1. \E u \in rows : u.doc = r.doc /\ u.number = r.number - 1
      BY <1>1, <1>2, <1>5, <1>11 DEF HasHistory, SameRow
    <2> QED  BY <2>1, <1>6 DEF SameRow
  <1>12. ASSUME NEW r \in next
         PROVE  r.status = "PUBLISHED" <=>
                    \A s \in next : s.doc = r.doc => s.number <= r.number
    <2>1. CASE r = new
      <3>1. \A s \in next : s.doc = d => s.number <= n
        BY <1>1, <1>2, <1>3, <1>5, <1>8 DEF SameRow, Version
      <3> QED  BY <2>1, <3>1, <1>1
    <2>2. CASE r # new /\ r.doc = d
      <3>1. r.status = "SUPERSEDED" /\ r.number < n
        BY <2>2, <1>2, <1>5 DEF SameRow
      <3>2. ~(n <= r.number)
        BY <3>1, <1>2, <1>8 DEF Version
      <3> QED  BY <2>2, <3>1, <3>2, <1>1, <1>7
    <2>3. CASE r.doc # d
      <3>1. r \in rows
        BY <2>3, <1>1, <1>5 DEF SameRow
      <3>2. ASSUME NEW s \in next, s.doc = r.doc PROVE s \in rows
        BY <2>3, <3>2, <1>1, <1>5 DEF SameRow
      <3>3. ASSUME NEW s \in rows, s.doc = r.doc PROVE s \in next
        BY <2>3, <3>3, <1>4
      <3> QED  BY <3>1, <3>2, <3>3 DEF HasHistory
    <2> QED  BY <2>1, <2>2, <2>3
  <1>13. ASSUME NEW r \in next
         PROVE  \E s \in next : s.doc = r.doc /\ s.status = "PUBLISHED"
    <2>1. CASE r.doc = d
      BY <2>1, <1>1, <1>7
    <2>2. CASE r.doc # d
      <3>1. r \in rows
        BY <2>2, <1>1, <1>5 DEF SameRow
      <3>2. PICK s \in rows : s.doc = r.doc /\ s.status = "PUBLISHED"
        BY <3>1 DEF HasHistory
      <3> QED  BY <2>2, <3>2, <1>4
    <2> QED  BY <2>1, <2>2
  <1> QED
    BY <1>8, <1>9, <1>10, <1>11, <1>12, <1>13 DEF HasHistory, next

(***************************************************************************)
(* A publication adds one row to the table, and takes none away.           *)
(***************************************************************************)
LEMMA EnactedAddsOne ==
    ASSUME NEW rows, HasHistory(rows), IsFiniteSet(rows), NEW d \in Documents,
           NEW h \in Hashes, NEW p \in Parsers, NEW now \in Instant,
           NEW next, next = Enacted(rows, d, h, p, now)
    PROVE  IsFiniteSet(next) /\ Cardinality(next) = Cardinality(rows) + 1
  <1> DEFINE c     == Canonicalization(VersionsOf(rows, d), h, p)
             new   == NewVersion(d, VersionsOf(rows, d), h, p)
             After(v) == IF v.doc = d /\ v.status = "PUBLISHED" THEN Superseded(v, c, now) ELSE v
             kept  == {After(v) : v \in rows}
             f     == [v \in rows |-> After(v)]
  <1>1. next = kept \cup {new}
    <2>1. \A r : r \in next <=> r \in kept \/ r = new
      <3>1. \A r : r \in next <=>
             \/ r \in rows /\ ~(r.doc = d /\ r.status = "PUBLISHED")
             \/ \E v \in rows :
                  v.doc = d /\ v.status = "PUBLISHED" /\ r = Superseded(v, c, now)
             \/ r = new
        BY EnactedRows
      <3> HIDE DEF c, new
      <3> QED  BY <3>1
    <2> HIDE DEF kept, new
    <2> QED  BY <2>1
  <1>2. \A v \in rows : SameRow(After(v), v)
    BY SupersededRow, CanonicalizationIsBoolean DEF HasHistory, SameRow
  <1>3. new \notin kept
    <2>1. /\ new.doc = d /\ new.number = NextNumber(VersionsOf(rows, d))
      BY NewVersionRow
    <2>2. \A v \in rows : v.doc = d => v.number \in Nat /\ v.number < new.number
      BY <2>1, NextNumberIsFresh DEF HasHistory, Version
    <2> HIDE DEF new, After
    <2> QED  BY <1>2, <2>1, <2>2 DEF SameRow
  <1> HIDE DEF After, new
  <1>4. f \in Bijection(rows, kept)
    <2>1. \A u, v \in rows : After(u) = After(v) => u = v
      BY <1>2 DEF HasHistory, Keyed, SameRow
    <2>2. /\ f \in [rows -> kept]
          /\ \A u, v \in rows : f[u] = f[v] => u = v
          /\ \A t \in kept : \E v \in rows : f[v] = t
      BY <2>1
    <2> HIDE DEF f, kept
    <2> QED  BY <2>2, Fun_IsBij
  <1>5. IsFiniteSet(kept) /\ Cardinality(kept) = Cardinality(rows)
    BY <1>4, FS_Bijection, Fun_ExistsBij
  <1> QED  BY <1>1, <1>3, <1>5, FS_AddElement
=============================================================================
