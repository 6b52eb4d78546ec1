-------------------------- MODULE LegacyMigrationProofs --------------------------
(***************************************************************************)
(* What the two scripts leave of a corpus the ingest publishes to as well, *)
(* for any legacy tables, any acts and builds, any number of runs and any  *)
(* faults.                                                                 *)
(*                                                                         *)
(* The rows of all versions, parsed and migrated, have keys of their own   *)
(* and are never removed (TablesInv, StepRows); so the nodes under a key   *)
(* are complete with its version (NodesInv, NodesStay), a migrated version *)
(* stays found (ReportInv), and what the backfill has read of a version is *)
(* so when it writes (IndexInv).                                           *)
(***************************************************************************)
EXTENDS LegacyMigration, CorpusTablesProofs

Row == Version \cup LegacyRow

\* The legacy documents have one version each, under any key.
OnceMigrated ==
    \A u, v \in versions :
        (/\ u.parser = LegacyParser /\ v.parser = LegacyParser
         /\ u.doc = v.doc /\ u.hash = v.hash) => u = v

Numbered == \A d \in Documents : \E b \in Nat : \A v \in versions : v.doc = d => v.number <= b

TablesInv ==
    /\ documents \in [Documents -> {"none", "UNKNOWN", "IN_FORCE"}]
    /\ versions \subseteq Row
    /\ Keyed(versions)
    /\ OnceMigrated
    /\ Numbered

\* The nodes the migration makes for an article, under the key of a version.
LegacyNodes(k, articles) == {[of |-> k, locator |-> SourceLocator(a, articles)] : a \in articles}

NodesInv ==
    /\ nodes \subseteq Node
    /\ \A n \in nodes : \E v \in versions : Key(v) = n.of
    /\ \A v \in versions : IsFiniteSet(NodesOf(Key(v)))
    /\ \A i \in DOMAIN LegacyDocuments : \A v \in Migrated(LegacyDocuments[i]) :
            NodesOf(Key(v)) = LegacyNodes(Key(v), LegacyDocuments[i].articles)

ReportInv ==
    /\ migration \in Migration
    /\ migration.stage # "idle" => migration.next >= 1
    /\ migration.stage = "documents" /\ migration.errors = {} =>
        \A i \in DOMAIN LegacyDocuments :
            i < migration.next /\ i <= migration.limit => Migrated(LegacyDocuments[i]) # {}
    /\ CleanRunMigratesAll

\* The versions the backfill has dealt with.
Behind == backfill.listed \ (backfill.todo \cup backfill.current)

IndexInv ==
    /\ backfill \in Backfill
    /\ citations \subseteq nodes /\ backfill.rest \subseteq nodes
    /\ \A n \in citations : n.locator # Root
    /\ \A k \in backfill.listed : \E v \in versions : Key(v) = k
    /\ backfill.todo \cup backfill.current \subseteq backfill.listed
    /\ backfill.stage \in {"idle", "next", "done"} =>
        backfill.current = {} /\ backfill.rest = {}
    /\ backfill.stage = "done" => backfill.todo = {}
    /\ backfill.stage = "count" =>
        \E k \in backfill.listed : backfill.current = {k} /\ backfill.rest = Provisions(k)
    /\ backfill.stage = "upsert" =>
        \E k \in backfill.listed :
            /\ backfill.current = {k}
            /\ backfill.rest \subseteq Provisions(k)
            /\ Provisions(k) \ backfill.rest \subseteq citations
    /\ ~backfill.failed => \A k \in Behind : Provisions(k) \subseteq citations

-----------------------------------------------------------------------------
(* What an ingest makes of a table that has migrated rows too.             *)

LEMMA CorpusVocabulary ==
    /\ \A rows, d : Corpus!VersionsOf(rows, d) = VersionsOf(rows, d)
    /\ \A rows : Corpus!PublishedOf(rows) = PublishedOf(rows)
    /\ \A seen, h, p : Corpus!Canonicalization(seen, h, p) = Canonicalization(seen, h, p)
    /\ \A v, c, now : Corpus!Superseded(v, c, now) = Superseded(v, c, now)
    /\ \A rows, updates : Corpus!Overlaid(rows, updates) = Overlaid(rows, updates)
    /\ \A d, seen, h, p : Corpus!NewVersion(d, seen, h, p) = NewVersion(d, seen, h, p)
  BY DEF Corpus!VersionsOf, VersionsOf, Corpus!PublishedOf, PublishedOf,
         Corpus!Canonicalization, Canonicalization, Corpus!Superseded, Superseded,
         Corpus!Unknown, Unknown, Corpus!Overlaid, Overlaid,
         Corpus!SameRow, SameRow, Corpus!NewVersion, NewVersion,
         Corpus!NextNumber, NextNumber

LEMMA RowFields ==
    ASSUME NEW v \in Row
    PROVE  /\ v.doc \in Documents /\ v.number \in Nat /\ v.hash \in Hashes
           /\ v.parser \in Parsers \cup {LegacyParser}
           /\ v.status \in {"PUBLISHED", "SUPERSEDED"}
  BY DEF Row, Version, LegacyRow

LEMMA SupersededAnyRow ==
    ASSUME NEW v \in Row, NEW c \in BOOLEAN, NEW now \in Instant
    PROVE  /\ Superseded(v, c, now) \in Row
           /\ SameRow(Superseded(v, c, now), v)
           /\ Superseded(v, c, now).doc = v.doc
           /\ Superseded(v, c, now).number = v.number
           /\ Superseded(v, c, now).hash = v.hash
           /\ Superseded(v, c, now).parser = v.parser
           /\ Superseded(v, c, now).status = "SUPERSEDED"
  <1>1. CASE v \in Version
    BY <1>1, SupersededRow DEF Row, SameRow
  <1>2. CASE v \in LegacyRow
    BY <1>2 DEF Superseded, Row, LegacyRow, SameRow, Bound, Instant, Unknown
  <1> QED  BY <1>1, <1>2 DEF Row

\* A bounded set of numbers that is not empty has a largest.
LEMMA GreatestNumber ==
    ASSUME NEW S \in SUBSET Nat, S # {}, NEW b \in Nat, \A s \in S : s <= b
    PROVE  \E m \in S : \A s \in S : s <= m
  <1> DEFINE U == {n \in Nat : \A s \in S : s <= n}
  <1>1. PICK m \in U : \A n \in U : m <= n
    <2>1. U \in SUBSET Nat /\ U # {}
      OBVIOUS
    <2> HIDE DEF U
    <2> QED  BY <2>1, LeastNumber
  <1>2. m \in Nat /\ \A s \in S : s \in Nat /\ s <= m
    OBVIOUS
  <1>3. m \in S
    <2> SUFFICES ASSUME m \notin S PROVE FALSE
      OBVIOUS
    <2>1. PICK s \in S : TRUE
      OBVIOUS
    <2>2. m # 0
      BY <1>2, <2>1
    <2>3. \A t \in S : t <= m - 1
      BY <1>2
    <2>4. m - 1 \in U
      BY <1>2, <2>2, <2>3
    <2>5. m <= m - 1
      BY <1>1, <2>4
    <2> QED  BY <1>2, <2>5
  <1> QED  BY <1>2, <1>3

LEMMA NextIsFresh ==
    ASSUME TablesInv, NEW d \in Documents, NEW n, n = NextNumber(VersionsOf(versions, d))
    PROVE  n \in Nat /\ \A v \in versions : v.doc = d => v.number < n
  <1> DEFINE seen == VersionsOf(versions, d)
             S    == {v.number : v \in seen}
  <1>1. \A v \in versions : v \in Row
    BY DEF TablesInv
  <1>2. \A v \in seen : v \in versions /\ v.doc = d /\ v.number \in Nat
    BY <1>1, RowFields DEF VersionsOf
  <1>3. CASE seen = {}
    <2>1. n = 1
      BY <1>3, NextNumberFirst
    <2>2. \A v \in versions : v.doc # d
      BY <1>3 DEF VersionsOf
    <2> QED  BY <2>1, <2>2
  <1>4. CASE seen # {}
    <2>1. PICK b \in Nat : \A v \in versions : v.doc = d => v.number <= b
      BY DEF TablesInv, Numbered
    <2>2. S \in SUBSET Nat /\ S # {} /\ \A s \in S : s <= b
      BY <1>2, <1>4, <2>1
    <2>3. PICK s \in S : \A t \in S : t <= s
      <3> HIDE DEF S
      <3> QED  BY <2>2, GreatestNumber
    <2>4. PICK m \in seen : \A v \in seen : v.number <= m.number
      BY <2>3
    <2>5. n = m.number + 1
      BY <1>2, <2>4, NextNumberAfter
    <2>6. \A v \in versions : v.doc = d => v.number \in Nat /\ v.number <= m.number
      BY <1>2, <2>4 DEF VersionsOf
    <2> QED  BY <1>2, <2>5, <2>6
  <1> QED  BY <1>3, <1>4

\* A row, and what it is after a publication of document d.
After(v, d, c, now) ==
    IF v.doc = d /\ v.status = "PUBLISHED" THEN Superseded(v, c, now) ELSE v

\* u is v, as it is or superseded.
Lives(v, u) ==
    /\ SameRow(v, u) /\ u.hash = v.hash /\ u.parser = v.parser
    /\ v.status = "SUPERSEDED" => u = v

LEMMA AfterLives ==
    ASSUME NEW v \in Row, NEW d, NEW c \in BOOLEAN, NEW now \in Instant
    PROVE  After(v, d, c, now) \in Row /\ Lives(v, After(v, d, c, now))
  BY RowFields, SupersededAnyRow DEF After, Lives, SameRow

(***************************************************************************)
(* A publication supersedes the published rows of its document, migrated   *)
(* ones too, and adds a row of its own build under a fresh number.         *)
(***************************************************************************)
LEMMA IngestRows ==
    ASSUME TablesInv, NEW d \in Documents, NEW h \in Hashes, NEW p \in Parsers,
           NEW now \in Times, Corpus!Publish(d, h, p, now)
    PROVE  \E c \in BOOLEAN, new \in Version :
             /\ new.doc = d /\ new.parser = p
             /\ new.number = NextNumber(VersionsOf(versions, d))
             /\ \A v \in versions : v.doc = d => v.number < new.number
             /\ versions' = {After(v, d, c, now) : v \in versions} \cup {new}
  <1> DEFINE seen   == VersionsOf(versions, d)
             c      == Canonicalization(seen, h, p)
             new    == NewVersion(d, seen, h, p)
             closed == {Superseded(v, c, now) : v \in PublishedOf(seen)}
  <1>1. versions' = Overlaid(versions, closed) \cup {new}
    BY CorpusVocabulary DEF Corpus!Publish
  <1>2. /\ NextNumber(seen) \in Nat
        /\ \A v \in versions : v.doc = d => v.number < NextNumber(seen)
    BY NextIsFresh
  <1>3. new \in Version /\ new.doc = d /\ new.parser = p /\ new.number = NextNumber(seen)
    <2>1. Parsed[<<h, p>>].from \in Bound
      BY ParsedAssumption
    <2> DEFINE f == IF Canonicalization(seen, h, p) THEN Unknown ELSE Parsed[<<h, p>>].from
    <2>2. f \in Bound
      BY <2>1 DEF Bound
    <2>3. new = [doc |-> d, number |-> NextNumber(seen), from |-> f, to |-> Unknown,
                 hash |-> h, parser |-> p, status |-> "PUBLISHED"]
      BY DEF NewVersion
    <2> HIDE DEF f, seen, new
    <2> QED  BY <1>2, <2>2, <2>3 DEF Version, Bound
  <1>4. c \in BOOLEAN
    BY CanonicalizationIsBoolean
  <1>5. now \in Instant /\ Keyed(versions) /\ \A v \in versions : v \in Row
    BY TimesAssumption DEF TablesInv
  <1>6. \A u : u \in closed <=>
            \E v \in versions : v.doc = d /\ v.status = "PUBLISHED" /\ u = Superseded(v, c, now)
    BY DEF PublishedOf, VersionsOf
  <1> HIDE DEF c, new, seen, closed
  <1>7. \A v \in versions : SameRow(Superseded(v, c, now), v)
    BY <1>4, <1>5, SupersededAnyRow
  <1>8. ASSUME NEW v \in versions
        PROVE  (\A u \in closed : ~SameRow(u, v)) <=> ~(v.doc = d /\ v.status = "PUBLISHED")
    <2>1. ASSUME v.doc = d, v.status = "PUBLISHED" PROVE \E u \in closed : SameRow(u, v)
      BY <1>6, <1>7, <2>1
    <2>2. ASSUME NEW u \in closed, SameRow(u, v) PROVE v.doc = d /\ v.status = "PUBLISHED"
      <3>1. PICK w \in versions :
                w.doc = d /\ w.status = "PUBLISHED" /\ u = Superseded(w, c, now)
        BY <1>6
      <3>2. SameRow(w, v)
        BY <1>7, <2>2, <3>1 DEF SameRow
      <3> QED  BY <1>5, <3>1, <3>2 DEF Keyed
    <2> QED  BY <2>1, <2>2
  <1>9. Overlaid(versions, closed) = {After(v, d, c, now) : v \in versions}
    <2>1. \A r : r \in Overlaid(versions, closed) <=>
              (r \in versions /\ \A u \in closed : ~SameRow(u, r)) \/ r \in closed
      BY DEF Overlaid
    <2>2. \A r : r \in Overlaid(versions, closed) <=>
              \E v \in versions : r = After(v, d, c, now)
      BY <1>6, <1>8, <2>1 DEF After
    <2> QED  BY <2>2
  <1> QED  BY <1>1, <1>2, <1>3, <1>4, <1>9 DEF seen

-----------------------------------------------------------------------------
(* What a step does to the rows.                                           *)

\* A migrated row is new under its key and its bytes, or is there already.
LEMMA MigratedRow ==
    ASSUME TablesInv, NEW i \in DOMAIN LegacyDocuments, NEW l, l = LegacyDocuments[i],
           Admissible(l), NEW row, row = UpsertedVersion(l)
    PROVE  \/ /\ Migrated(l) # {} /\ row \in Migrated(l)
              /\ Overlaid(versions, {row}) = versions
           \/ /\ Migrated(l) = {} /\ row = NewLegacyVersion(l) /\ row \in LegacyRow
              /\ \A v \in versions : ~SameRow(v, row)
              /\ Overlaid(versions, {row}) = versions \cup {row}
  <1>1. CASE Migrated(l) # {}
    <2>1. row \in Migrated(l)
      BY <1>1 DEF UpsertedVersion
    <2>2. row \in versions
      BY <2>1 DEF Migrated
    <2>3. \A v \in versions : SameRow(row, v) => v = row
      BY <2>2 DEF TablesInv, Keyed
    <2>4. \A v : v \in Overlaid(versions, {row}) <=> v \in versions
      BY <2>2, <2>3 DEF Overlaid
    <2> QED  BY <1>1, <2>1, <2>4
  <1>2. CASE Migrated(l) = {}
    <2>1. row = NewLegacyVersion(l)
      BY <1>2 DEF UpsertedVersion
    <2>2. l \in LegacyDocument
      BY LegacyAssumption
    <2>3. row \in LegacyRow
      BY <2>1, <2>2 DEF LegacyDocument, LegacyRow, NewLegacyVersion
    <2>4. \A v \in versions : ~SameRow(v, row)
      BY <1>2, <2>1 DEF Admissible, ConstraintsAllow
    <2>5. \A v : v \in Overlaid(versions, {row}) <=> v \in versions \cup {row}
      BY <2>4 DEF Overlaid, SameRow
    <2> QED  BY <1>2, <2>1, <2>3, <2>4, <2>5
  <1> QED  BY <1>1, <1>2

\* Only two actions write rows of versions.
LEMMA RowsSteps ==
    ASSUME [Next]_vars
    PROVE  \/ UNCHANGED <<documents, versions, nodes>>
           \/ MigrateDocument
           \/ \E d \in Documents, h \in Hashes, p \in Parsers, now \in Times :
                Ingest(d, h, p, now)
  BY DEF Next, vars, corpusVars, bounds, StartMigration, MigrateArchive, FailArchive,
         ReadDocuments, SkipDocument, EndMigration, StartBackfill, ReadNodes,
         CountCitations, UpsertCitation, FailVersion, EndBackfill, Stop, EnsureSource

LEMMA TurnOfDocument ==
    ASSUME MigrateDocument
    PROVE  /\ migration.next \in DOMAIN LegacyDocuments
           /\ Admissible(LegacyDocuments[migration.next])
  BY DEF MigrateDocument, Turn

\* Every row lives on, and every row that did not is new under its key.
StepRows ==
    /\ \A v \in versions : \E u \in versions' : Lives(v, u)
    /\ \A u \in versions' :
        \/ \E v \in versions : Lives(v, u)
        \/ \A v \in versions : ~SameRow(v, u)

LEMMA TablesInv_Init == Init => TablesInv
  <1> SUFFICES ASSUME Init PROVE TablesInv
    OBVIOUS
  <1>1. Numbered
    <2>1. 0 \in Nat /\ \A v \in versions : FALSE
      BY DEF Init
    <2> QED  BY <2>1 DEF Numbered
  <1> QED  BY <1>1 DEF Init, TablesInv, Keyed, OnceMigrated

LEMMA IngestStep ==
    ASSUME TablesInv, NEW d \in Documents, NEW h \in Hashes, NEW p \in Parsers,
           NEW now \in Times, Ingest(d, h, p, now)
    PROVE  TablesInv' /\ StepRows
  <1>1. PICK c \in BOOLEAN, new \in Version :
             /\ new.doc = d /\ new.parser = p
             /\ new.number = NextNumber(VersionsOf(versions, d))
             /\ \A v \in versions : v.doc = d => v.number < new.number
             /\ versions' = {After(v, d, c, now) : v \in versions} \cup {new}
    BY IngestRows DEF Ingest
  <1>2. now \in Instant /\ new \in Row /\ new.number \in Nat
        /\ \A v \in versions : v \in Row /\ v.number \in Nat
    BY TimesAssumption, RowFields DEF TablesInv, Row, Version
  <1>3. \A v \in versions : After(v, d, c, now) \in Row /\ Lives(v, After(v, d, c, now))
    BY <1>2, AfterLives
  <1>4. \A v \in versions : ~SameRow(v, new)
    <2>1. \A v \in versions : v.doc = d => v.number # new.number
      BY <1>1, <1>2
    <2> QED  BY <1>1, <2>1 DEF SameRow
  <1> DEFINE A(v) == After(v, d, c, now)
  <1> HIDE DEF A
  <1>5. versions' = {A(v) : v \in versions} \cup {new}
    BY <1>1 DEF A
  <1>6. \A v \in versions : A(v) \in Row /\ Lives(v, A(v))
    BY <1>3 DEF A
  <1>7. StepRows
    BY <1>4, <1>5, <1>6 DEF StepRows, Lives, SameRow
  <1>8. versions' \subseteq Row
    BY <1>2, <1>5, <1>6
  <1>9. Keyed(versions')
    BY <1>4, <1>5, <1>6 DEF TablesInv, Keyed, Lives, SameRow
  <1>10. OnceMigrated'
    <2>1. new.parser # LegacyParser
      BY <1>1, LegacyAssumption
    <2> SUFFICES ASSUME NEW u \in versions', NEW v \in versions',
                        u.parser = LegacyParser, v.parser = LegacyParser,
                        u.doc = v.doc, u.hash = v.hash
                 PROVE  u = v
      BY DEF OnceMigrated
    <2>2. PICK x \in versions : u = A(x) /\ Lives(x, u)
      BY <1>5, <1>6, <2>1
    <2>3. PICK y \in versions : v = A(y) /\ Lives(y, v)
      BY <1>5, <1>6, <2>1
    <2>4. x = y
      BY <2>2, <2>3 DEF TablesInv, OnceMigrated, Lives, SameRow
    <2> QED  BY <2>2, <2>3, <2>4
  <1>11. Numbered'
    <2> SUFFICES ASSUME NEW e \in Documents
                 PROVE  \E b \in Nat : \A v \in versions' : v.doc = e => v.number <= b
      BY DEF Numbered
    <2>1. PICK b \in Nat : \A v \in versions : v.doc = e => v.number <= b
      BY DEF TablesInv, Numbered
    <2>2. b + new.number \in Nat
      BY <1>2
    <2>3. ASSUME NEW v \in versions', v.doc = e PROVE v.number <= b + new.number
      <3>1. CASE v = new
        BY <3>1, <1>2
      <3>2. ASSUME NEW x \in versions, v = A(x) PROVE v.number <= b + new.number
        <4>1. v.number = x.number /\ x.doc = e
          BY <1>6, <2>3, <3>2 DEF Lives, SameRow
        <4> QED  BY <1>2, <2>1, <4>1
      <3> QED  BY <1>5, <2>3, <3>1, <3>2
    <2> QED  BY <2>2, <2>3
  <1>12. documents' \in [Documents -> {"none", "UNKNOWN", "IN_FORCE"}]
    BY DEF Ingest, TablesInv
  <1> QED  BY <1>7, <1>8, <1>9, <1>10, <1>11, <1>12 DEF TablesInv

LEMMA MigrateStep ==
    ASSUME TablesInv, MigrateDocument
    PROVE  TablesInv' /\ StepRows
  <1> DEFINE i   == migration.next
             l   == LegacyDocuments[i]
             row == UpsertedVersion(l)
  <1>1. i \in DOMAIN LegacyDocuments /\ Admissible(l)
    BY TurnOfDocument
  <1>2. versions' = Overlaid(versions, {row})
    BY DEF MigrateDocument
  <1>3. documents' = [documents EXCEPT ![l.doc] = IF @ = "none" THEN "UNKNOWN" ELSE @]
    BY DEF MigrateDocument
  <1>4. documents' \in [Documents -> {"none", "UNKNOWN", "IN_FORCE"}]
    BY <1>3 DEF TablesInv
  <1> HIDE DEF i, row
  <1>5. CASE versions' = versions
    <2>1. \A v \in versions : Lives(v, v)
      BY DEF Lives, SameRow
    <2> QED
      BY <1>4, <1>5, <2>1 DEF TablesInv, StepRows, OnceMigrated, Numbered
  <1>6. CASE /\ Migrated(l) = {} /\ row = NewLegacyVersion(l) /\ row \in LegacyRow
             /\ \A v \in versions : ~SameRow(v, row)
             /\ versions' = versions \cup {row}
    <2>1. \A v \in versions : Lives(v, v)
      BY DEF Lives, SameRow
    <2>2. StepRows
      BY <1>6, <2>1 DEF StepRows
    <2>3. versions' \subseteq Row /\ row.number \in Nat
      BY <1>6, RowFields DEF TablesInv, Row
    <2>4. Keyed(versions')
      BY <1>6 DEF TablesInv, Keyed, SameRow
    <2>5. OnceMigrated'
      <3>1. \A v \in versions : ~(v.doc = l.doc /\ v.hash = l.hash /\ v.parser = LegacyParser)
        BY <1>6 DEF Migrated
      <3>2. row.doc = l.doc /\ row.hash = l.hash /\ row.parser = LegacyParser
        BY <1>6 DEF NewLegacyVersion
      <3> HIDE DEF l
      <3> QED  BY <1>6, <3>1, <3>2 DEF TablesInv, OnceMigrated
    <2>6. Numbered'
      <3> SUFFICES ASSUME NEW e \in Documents
                   PROVE  \E b \in Nat : \A v \in versions' : v.doc = e => v.number <= b
        BY DEF Numbered
      <3>1. PICK b \in Nat : \A v \in versions : v.doc = e => v.number <= b
        BY DEF TablesInv, Numbered
      <3>2. b + row.number \in Nat /\ row.number <= b + row.number
        BY <2>3
      <3>3. \A v \in versions : v.number \in Nat
        BY RowFields DEF TablesInv
      <3>4. \A v \in versions : v.doc = e => v.number <= b + row.number
        BY <2>3, <3>1, <3>3
      <3> QED  BY <1>6, <3>2, <3>4
    <2> QED  BY <1>4, <2>2, <2>3, <2>4, <2>5, <2>6 DEF TablesInv
  <1> QED  BY <1>1, <1>2, <1>5, <1>6, MigratedRow DEF row

LEMMA TablesStep ==
    ASSUME TablesInv, [Next]_vars
    PROVE  TablesInv' /\ StepRows
  <1>1. CASE UNCHANGED <<documents, versions, nodes>>
    <2>1. \A v \in versions : Lives(v, v)
      BY DEF Lives, SameRow
    <2> QED  BY <1>1, <2>1 DEF TablesInv, StepRows, OnceMigrated, Numbered
  <1> QED  BY <1>1, RowsSteps, IngestStep, MigrateStep

THEOREM Migration_Tables == Spec => []TablesInv
  BY TablesInv_Init, TablesStep, PTL DEF Spec

(***************************************************************************)
(* No run of the migration, however late, brings back a version that was   *)
(* superseded or takes an act out of force: the upserts of documents and   *)
(* versions update nothing (migrate-legacy-tore-data.ts).                  *)
(***************************************************************************)
THEOREM Migration_NothingIsRevived == Spec => NothingIsRevived
  <1>1. ASSUME TablesInv, [Next]_vars
        PROVE  /\ \A v \in versions : v.status = "SUPERSEDED" => v \in versions'
               /\ \A d \in Documents : documents[d] = "IN_FORCE" => documents'[d] = "IN_FORCE"
    <2>1. \A v \in versions : v.status = "SUPERSEDED" => v \in versions'
      BY <1>1, TablesStep DEF StepRows, Lives
    <2>2. documents \in [Documents -> {"none", "UNKNOWN", "IN_FORCE"}]
      BY <1>1 DEF TablesInv
    <2>3. ASSUME MigrateDocument, NEW d \in Documents, documents[d] = "IN_FORCE"
          PROVE  documents'[d] = "IN_FORCE"
      BY <2>2, <2>3 DEF MigrateDocument
    <2>4. ASSUME NEW e \in Documents, NEW h \in Hashes, NEW p \in Parsers, NEW now \in Times,
                 Ingest(e, h, p, now), NEW d \in Documents, documents[d] = "IN_FORCE"
          PROVE  documents'[d] = "IN_FORCE"
      BY <2>2, <2>4 DEF Ingest
    <2> QED  BY <1>1, <2>1, <2>3, <2>4, RowsSteps
  <1>2. TablesInv /\ [Next]_vars =>
          [ /\ \A v \in versions : v.status = "SUPERSEDED" => v \in versions'
            /\ \A d \in Documents : documents[d] = "IN_FORCE" => documents'[d] = "IN_FORCE" ]_vars
    BY <1>1
  <1> QED  BY <1>2, Migration_Tables, PTL DEF Spec, NothingIsRevived

-----------------------------------------------------------------------------
(* The locators of the articles, and the nodes under a key.                *)

LEMMA BaseIsNumber == ASSUME NEW a \in Article PROVE BaseLocator(a) \in Nat /\ a.id \in Nat
  BY DEF Article, BaseLocator, Unknown

LEMMA SourceLocatorShape ==
    ASSUME NEW articles \in SUBSET Article, NEW a \in articles
    PROVE  /\ SourceLocator(a, articles) \in LegacyLocator
           /\ \/ /\ SourceLocator(a, articles) = <<BaseLocator(a)>>
                 /\ ~\E b \in articles : BaseLocator(b) = BaseLocator(a) /\ SortsBefore(b, a)
              \/ SourceLocator(a, articles) = <<BaseLocator(a), a.id>>
  BY BaseIsNumber DEF SourceLocator, LegacyLocator

(***************************************************************************)
(* assignSourceLocators gives each article a locator of its own: two that  *)
(* share a base are sorted, and only the first goes without its id.        *)
(***************************************************************************)
LEMMA SourceLocatorIsUnique ==
    ASSUME NEW articles \in SUBSET Article,
           \A a, b \in articles : a.id = b.id => a = b,
           NEW a \in articles, NEW b \in articles,
           SourceLocator(a, articles) = SourceLocator(b, articles)
    PROVE  a = b
  <1> DEFINE x == BaseLocator(a)
             y == BaseLocator(b)
             First(c) == \A e \in articles : BaseLocator(e) = BaseLocator(c) => ~SortsBefore(e, c)
  <1>1. /\ <<x>> # <<y, b.id>> /\ <<x, a.id>> # <<y>>
        /\ <<x>> = <<y>> => x = y
        /\ <<x, a.id>> = <<y, b.id>> => a.id = b.id
    OBVIOUS
  <1>2. /\ \/ SourceLocator(a, articles) = <<x>> /\ First(a)
           \/ SourceLocator(a, articles) = <<x, a.id>>
        /\ \/ SourceLocator(b, articles) = <<y>> /\ First(b)
           \/ SourceLocator(b, articles) = <<y, b.id>>
    BY SourceLocatorShape
  <1> HIDE DEF First
  <1>3. a.id = b.id \/ (x = y /\ First(a) /\ First(b))
    <2> HIDE DEF x, y
    <2> QED  BY ONLY <1>1, <1>2, SourceLocator(a, articles) = SourceLocator(b, articles), Zenon
  <1>4. ASSUME x = y, First(a), First(b) PROVE a.id = b.id
    <2>1. ~SortsBefore(a, b) /\ ~SortsBefore(b, a)
      BY <1>4 DEF First
    <2>2. a.order \in Nat /\ b.order \in Nat /\ a.id \in Nat /\ b.id \in Nat
      BY DEF Article
    <2> QED  BY <2>1, <2>2 DEF SortsBefore
  <1> QED  BY <1>3, <1>4

LEMMA LegacyNodesAre ==
    ASSUME NEW i \in DOMAIN LegacyDocuments, NEW k
    PROVE  LET articles == LegacyDocuments[i].articles IN
           /\ IsFiniteSet(LegacyNodes(k, articles))
           /\ Cardinality(LegacyNodes(k, articles)) = Cardinality(articles)
           /\ k \in Documents \X Nat => LegacyNodes(k, articles) \subseteq Node
  <1> DEFINE articles == LegacyDocuments[i].articles
             node(a)  == [of |-> k, locator |-> SourceLocator(a, articles)]
             f        == [a \in articles |-> node(a)]
             made     == LegacyNodes(k, articles)
  <1>1. /\ IsFiniteSet(articles) /\ articles \in SUBSET Article
        /\ \A a, b \in articles : a.id = b.id => a = b
    <2>1. LegacyDocuments[i] \in LegacyDocument
      BY LegacyAssumption
    <2>2. articles \in SUBSET Article
      BY <2>1 DEF LegacyDocument
    <2>3. IsFiniteSet(articles) /\ \A a, b \in articles : a.id = b.id => a = b
      BY LegacyAssumption, Zenon
    <2> QED  BY <2>2, <2>3
  <1> HIDE DEF articles
  <1>2. \A a, b \in articles : node(a) = node(b) => a = b
    <2>1. \A a, b \in articles : SourceLocator(a, articles) = SourceLocator(b, articles) => a = b
      BY <1>1, SourceLocatorIsUnique
    <2>2. \A a : node(a).locator = SourceLocator(a, articles)
      OBVIOUS
    <2> HIDE DEF node
    <2> QED  BY <2>1, <2>2
  <1>3. made = {node(a) : a \in articles}
    BY DEF LegacyNodes
  <1>4. k \in Documents \X Nat => made \subseteq Node
    <2>1. \A a \in articles : SourceLocator(a, articles) \in LegacyLocator
      BY <1>1, SourceLocatorShape
    <2> QED  BY <1>3, <2>1 DEF Node
  <1> HIDE DEF node, made
  <1>5. f \in Bijection(articles, made)
    <2>1. /\ f \in [articles -> made]
          /\ \A a, b \in articles : f[a] = f[b] => a = b
          /\ \A n \in made : \E a \in articles : f[a] = n
      BY <1>2, <1>3
    <2> HIDE DEF f
    <2> QED  BY <2>1, Fun_IsBij
  <1>6. IsFiniteSet(made) /\ Cardinality(made) = Cardinality(articles)
    BY <1>1, <1>5, FS_Bijection, Fun_ExistsBij
  <1> QED  BY <1>4, <1>6 DEF articles, made

\* The nodes of a parsed tree.
TreeNodes(k, tree) == {[of |-> k, locator |-> t] : t \in tree}

LEMMA TreeNodesAre ==
    ASSUME NEW h \in Hashes, NEW p \in Parsers, NEW k \in Documents \X Nat
    PROVE  LET tree == Parsed[<<h, p>>].tree IN
           TreeNodes(k, tree) \subseteq Node /\ IsFiniteSet(TreeNodes(k, tree))
  <1> DEFINE tree == Parsed[<<h, p>>].tree
             f    == [t \in tree |-> [of |-> k, locator |-> t]]
             made == TreeNodes(k, tree)
  <1>1. tree \subseteq Locators
    BY ParsedAssumption
  <1>2. IsFiniteSet(tree)
    BY TreesAssumption
  <1> HIDE DEF tree
  <1>3. made \subseteq Node
    BY <1>1 DEF TreeNodes, Node
  <1>4. f \in Surjection(tree, made)
    <2>1. f \in [tree -> made] /\ \A n \in made : \E t \in tree : f[t] = n
      BY DEF TreeNodes
    <2> HIDE DEF f, made
    <2> QED  BY <2>1, Fun_IsSurj
  <1>5. IsFiniteSet(made)
    <2> HIDE DEF f, made
    <2> QED  BY <1>2, <1>4, FS_Surjection
  <1> QED  BY <1>3, <1>5 DEF tree, made

\* The nodes under the keys there were stay what they are.
NodesStay == \A v \in versions : {n \in nodes' : n.of = Key(v)} = NodesOf(Key(v))

LEMMA NodesInv_Init == Init => NodesInv
  BY DEF Init, NodesInv, Migrated

LEMMA KeysAre ==
    ASSUME NEW u, NEW v
    PROVE  Key(u) = Key(v) <=> SameRow(u, v)
  BY DEF Key, SameRow

LEMMA IngestNodes ==
    ASSUME TablesInv, NodesInv, NEW d \in Documents, NEW h \in Hashes, NEW p \in Parsers,
           NEW now \in Times, Ingest(d, h, p, now)
    PROVE  NodesInv' /\ NodesStay
  <1>1. PICK c \in BOOLEAN, new \in Version :
             /\ new.doc = d /\ new.parser = p
             /\ new.number = NextNumber(VersionsOf(versions, d))
             /\ \A v \in versions : v.doc = d => v.number < new.number
             /\ versions' = {After(v, d, c, now) : v \in versions} \cup {new}
    BY IngestRows DEF Ingest
  <1> DEFINE tree == TreeNodes(Key(new), Parsed[<<h, p>>].tree)
  <1>2. nodes' = nodes \cup tree
    <2>1. Key(new) = <<d, NextNumber(VersionsOf(versions, d))>>
      BY <1>1 DEF Key
    <2> QED  BY <2>1 DEF Ingest, TreeNodes
  <1>3. tree \subseteq Node /\ IsFiniteSet(tree) /\ \A n \in tree : n.of = Key(new)
    <2>1. Key(new) \in Documents \X Nat
      BY DEF Key, Version
    <2> QED  BY <2>1, TreeNodesAre DEF TreeNodes
  <1>4. \A v \in versions : v \in Row /\ v.number \in Nat
    BY RowFields DEF TablesInv
  <1>5. \A v \in versions : Key(v) # Key(new)
    <2>1. \A v \in versions : ~SameRow(v, new)
      BY <1>1, <1>4 DEF SameRow, Version
    <2> QED  BY <2>1, KeysAre
  <1>6. now \in Instant
    BY TimesAssumption
  <1>7. \A v \in versions :
            /\ Key(After(v, d, c, now)) = Key(v)
            /\ After(v, d, c, now).doc = v.doc
            /\ After(v, d, c, now).hash = v.hash /\ After(v, d, c, now).parser = v.parser
    BY <1>4, <1>6, AfterLives, KeysAre DEF Lives, SameRow
  <1> DEFINE A(v) == After(v, d, c, now)
  <1> HIDE DEF A, tree
  <1>8. /\ versions' = {A(v) : v \in versions} \cup {new}
        /\ \A v \in versions : Key(A(v)) = Key(v) /\ A(v).doc = v.doc
                               /\ A(v).hash = v.hash /\ A(v).parser = v.parser
    BY <1>1, <1>7 DEF A
  <1>9. NodesStay
    BY <1>2, <1>3, <1>5 DEF NodesStay, NodesOf
  <1>10. \A n \in nodes' : \E v \in versions' : Key(v) = n.of
    BY <1>2, <1>3, <1>8 DEF NodesInv
  <1>11. ASSUME NEW u \in versions' PROVE IsFiniteSet({n \in nodes' : n.of = Key(u)})
    <2>1. CASE u = new
      <3>1. \A n \in nodes : n.of # Key(new)
        BY <1>5 DEF NodesInv
      <3>2. {n \in nodes' : n.of = Key(u)} = tree
        BY <1>2, <1>3, <2>1, <3>1
      <3> QED  BY <1>3, <3>2
    <2>2. ASSUME NEW v \in versions, u = A(v)
          PROVE  IsFiniteSet({n \in nodes' : n.of = Key(u)})
      <3>1. {n \in nodes' : n.of = Key(u)} = NodesOf(Key(v))
        BY <1>8, <1>9, <2>2 DEF NodesStay
      <3> QED  BY <3>1 DEF NodesInv
    <2> QED  BY <1>8, <2>1, <2>2
  <1>12. ASSUME NEW i \in DOMAIN LegacyDocuments, NEW u \in versions',
                u.doc = LegacyDocuments[i].doc, u.hash = LegacyDocuments[i].hash,
                u.parser = LegacyParser
         PROVE  {n \in nodes' : n.of = Key(u)} = LegacyNodes(Key(u), LegacyDocuments[i].articles)
    <2>1. u # new
      BY <1>1, <1>12, LegacyAssumption
    <2>2. PICK v \in versions : u = A(v)
      BY <1>8, <2>1
    <2>3. v \in Migrated(LegacyDocuments[i]) /\ Key(u) = Key(v)
      BY <1>8, <1>12, <2>2 DEF Migrated
    <2>4. NodesOf(Key(v)) = LegacyNodes(Key(v), LegacyDocuments[i].articles)
      BY <2>3 DEF NodesInv
    <2>5. {n \in nodes' : n.of = Key(v)} = NodesOf(Key(v))
      BY <1>9 DEF NodesStay
    <2> QED  BY <2>3, <2>4, <2>5
  <1>13. nodes' \subseteq Node
    BY <1>2, <1>3 DEF NodesInv
  <1> QED  BY <1>9, <1>10, <1>11, <1>12, <1>13 DEF NodesInv, NodesOf, Migrated, Key

LEMMA MigrateNodes ==
    ASSUME TablesInv, NodesInv, MigrateDocument
    PROVE  NodesInv' /\ NodesStay
  <1> DEFINE i    == migration.next
             l    == LegacyDocuments[i]
             row  == UpsertedVersion(l)
             made == LegacyNodes(Key(row), l.articles)
  <1>1. i \in DOMAIN LegacyDocuments /\ Admissible(l)
    BY TurnOfDocument
  <1>2. versions' = Overlaid(versions, {row}) /\ nodes' = nodes \cup made
    BY DEF MigrateDocument, LegacyNodes
  <1>3. /\ IsFiniteSet(made)
        /\ Key(row) \in Documents \X Nat => made \subseteq Node
    BY <1>1, LegacyNodesAre
  <1>4. \A n \in made : n.of = Key(row)
    BY DEF LegacyNodes
  <1> HIDE DEF i, row
  <1>5. CASE row \in Migrated(l) /\ versions' = versions
    <2>1. row \in versions
      BY <1>5 DEF Migrated
    <2>2. NodesOf(Key(row)) = made
      BY <1>1, <1>5 DEF NodesInv
    <2>3. nodes' = nodes
      BY <1>2, <2>2 DEF NodesOf
    <2> QED
      BY <1>5, <2>3 DEF NodesInv, NodesStay, NodesOf, Migrated, Key
  <1>6. CASE /\ Migrated(l) = {} /\ row = NewLegacyVersion(l) /\ row \in LegacyRow
             /\ \A v \in versions : ~SameRow(v, row)
             /\ versions' = versions \cup {row}
    <2>1. \A v \in versions : Key(v) # Key(row)
      BY <1>6, KeysAre
    <2>2. \A n \in nodes : n.of # Key(row)
      BY <2>1 DEF NodesInv
    <2>3. row.doc = l.doc /\ row.hash = l.hash /\ row.parser = LegacyParser
      BY <1>6 DEF NewLegacyVersion
    <2>4. Key(row) \in Documents \X Nat
      BY <1>6 DEF Key, LegacyRow
    <2> HIDE DEF made
    <2>5. NodesStay
      BY <1>2, <1>4, <2>1 DEF NodesStay, NodesOf
    <2>6. {n \in nodes' : n.of = Key(row)} = made
      BY <1>2, <1>4, <2>2
    <2>7. \A n \in nodes' : \E v \in versions' : Key(v) = n.of
      BY <1>2, <1>4, <1>6 DEF NodesInv
    <2>8. ASSUME NEW u \in versions' PROVE IsFiniteSet({n \in nodes' : n.of = Key(u)})
      <3>1. CASE u = row
        BY <1>3, <2>6, <3>1
      <3>2. CASE u \in versions
        BY <2>5, <3>2 DEF NodesStay, NodesInv
      <3> QED  BY <1>6, <3>1, <3>2
    <2>9. ASSUME NEW j \in DOMAIN LegacyDocuments, NEW u \in versions',
                 u.doc = LegacyDocuments[j].doc, u.hash = LegacyDocuments[j].hash,
                 u.parser = LegacyParser
          PROVE  {n \in nodes' : n.of = Key(u)} =
                     LegacyNodes(Key(u), LegacyDocuments[j].articles)
      <3>1. CASE u = row
        <4>1. j = i
          BY <1>1, <2>3, <2>9, <3>1, LegacyAssumption
        <4> QED  BY <2>6, <3>1, <4>1 DEF made
      <3>2. CASE u \in versions
        <4>1. u \in Migrated(LegacyDocuments[j])
          BY <2>9, <3>2 DEF Migrated
        <4>2. NodesOf(Key(u)) = LegacyNodes(Key(u), LegacyDocuments[j].articles)
          BY <4>1 DEF NodesInv
        <4> QED  BY <2>5, <3>2, <4>2 DEF NodesStay
      <3> QED  BY <1>6, <3>1, <3>2
    <2>10. nodes' \subseteq Node
      BY <1>2, <1>3, <2>4 DEF NodesInv, made
    <2> QED  BY <2>5, <2>7, <2>8, <2>9, <2>10 DEF NodesInv, NodesOf, Migrated, Key
  <1> QED  BY <1>1, <1>2, <1>5, <1>6, MigratedRow DEF row

LEMMA NodesStep ==
    ASSUME TablesInv, NodesInv, [Next]_vars
    PROVE  NodesInv' /\ NodesStay
  <1>1. CASE UNCHANGED <<documents, versions, nodes>>
    BY <1>1 DEF NodesInv, NodesStay, NodesOf, Migrated, Key
  <1> QED  BY <1>1, RowsSteps, IngestNodes, MigrateNodes

RowsAndNodes == TablesInv /\ NodesInv

THEOREM Migration_RowsAndNodes == Spec => []RowsAndNodes
  <1>1. Init => RowsAndNodes
    BY TablesInv_Init, NodesInv_Init DEF RowsAndNodes
  <1>2. RowsAndNodes /\ [Next]_vars => RowsAndNodes'
    BY TablesStep, NodesStep DEF RowsAndNodes
  <1> QED  BY <1>1, <1>2, PTL DEF Spec

(***************************************************************************)
(* No article is lost, whatever numbers the articles of a document share   *)
(* or lack (assignSourceLocators).                                         *)
(***************************************************************************)
THEOREM Migration_EveryArticleHasItsNode == Spec => []EveryArticleHasItsNode
  <1>1. RowsAndNodes => EveryArticleHasItsNode
    <2> SUFFICES ASSUME NodesInv, NEW i \in DOMAIN LegacyDocuments,
                        NEW v \in Migrated(LegacyDocuments[i])
                 PROVE  Cardinality(NodesOf(Key(v))) = Cardinality(LegacyDocuments[i].articles)
      BY DEF RowsAndNodes, EveryArticleHasItsNode
    <2>1. NodesOf(Key(v)) = LegacyNodes(Key(v), LegacyDocuments[i].articles)
      BY DEF NodesInv
    <2> QED  BY <2>1, LegacyNodesAre
  <1> QED  BY <1>1, Migration_RowsAndNodes, PTL

-----------------------------------------------------------------------------
(* The report of the migration.                                            *)

LEMMA MigratedStays ==
    ASSUME TablesInv, [Next]_vars, NEW l, Migrated(l) # {}
    PROVE  Migrated(l)' # {}
  <1>1. PICK v \in versions : v.doc = l.doc /\ v.hash = l.hash /\ v.parser = LegacyParser
    BY DEF Migrated
  <1>2. PICK u \in versions' : Lives(v, u)
    BY TablesStep DEF StepRows
  <1>3. u.doc = l.doc /\ u.hash = l.hash /\ u.parser = LegacyParser
    BY <1>1, <1>2 DEF Lives, SameRow
  <1> QED  BY <1>3 DEF Migrated

LEMMA MigratedNow ==
    ASSUME TablesInv, MigrateDocument
    PROVE  {v \in versions' : /\ v.doc = LegacyDocuments[migration.next].doc
                              /\ v.hash = LegacyDocuments[migration.next].hash
                              /\ v.parser = LegacyParser} # {}
  <1> DEFINE l   == LegacyDocuments[migration.next]
             row == UpsertedVersion(l)
  <1>1. versions' = Overlaid(versions, {row})
    BY DEF MigrateDocument
  <1>2. row \in versions'
    BY <1>1 DEF Overlaid
  <1>3. row \in Migrated(l) \/ row = NewLegacyVersion(l)
    BY TurnOfDocument, MigratedRow
  <1>4. row.doc = l.doc /\ row.hash = l.hash /\ row.parser = LegacyParser
    BY <1>3 DEF Migrated, NewLegacyVersion
  <1> QED  BY <1>2, <1>4

LEMMA MigrationMoves ==
    ASSUME [Next]_vars
    PROVE  \/ migration' = migration
           \/ \E limit \in Limits : StartMigration(limit)
           \/ MigrateArchive \/ FailArchive \/ ReadDocuments
           \/ MigrateDocument \/ SkipDocument \/ EndMigration
           \/ migration' = NoMigration
  BY DEF Next, vars, StartBackfill, ReadNodes, CountCitations, UpsertCitation,
         FailVersion, EndBackfill, Stop, EnsureSource, Ingest

\* The fields of a run that has had its turn at a row.
LEMMA TurnMapped ==
    ASSUME NEW m \in Migration, NEW S \in SUBSET DOMAIN LegacyArchives, NEW x,
           x = [m EXCEPT !.mapped = S, !.next = m.next + 1]
    PROVE  x \in Migration /\ x.stage = m.stage /\ x.next = m.next + 1
  <1>1. /\ m.stage \in {"idle", "archives", "documents", "done"}
        /\ m.limit \in Nat /\ m.next + 1 \in Nat
        /\ m.errors \in SUBSET ({"archive", "document"} \X Nat)
    BY DEF Migration
  <1>2. x = [stage |-> m.stage, limit |-> m.limit, next |-> m.next + 1,
             mapped |-> S, errors |-> m.errors]
    BY DEF Migration
  <1>3. x \in Migration
    BY <1>1, <1>2, Zenon DEF Migration
  <1> QED  BY <1>2, <1>3

\* What errors are recorded of.
Failures == {"archive", "document"} \X Nat

LEMMA TurnFailed ==
    ASSUME NEW m \in Migration, NEW f \in Failures, NEW x,
           x = [m EXCEPT !.errors = @ \cup {f}, !.next = @ + 1]
    PROVE  x \in Migration /\ x.stage = m.stage /\ x.next = m.next + 1 /\ x.errors # {}
  <1> DEFINE E == m.errors \cup {f}
  <1>1. /\ m.stage \in {"idle", "archives", "documents", "done"}
        /\ m.limit \in Nat /\ m.next + 1 \in Nat
        /\ m.mapped \in SUBSET DOMAIN LegacyArchives
        /\ E \in SUBSET Failures
    BY DEF Migration, Failures
  <1>2. E # {}
    OBVIOUS
  <1>3. x = [stage |-> m.stage, limit |-> m.limit, next |-> m.next + 1,
             mapped |-> m.mapped, errors |-> E]
    BY DEF Migration
  <1> HIDE DEF E
  <1>4. x \in Migration
    <2>1. x \in [stage: {"idle", "archives", "documents", "done"}, limit: Nat, next: Nat,
                 mapped: SUBSET DOMAIN LegacyArchives, errors: SUBSET Failures]
      BY ONLY <1>1, <1>3, Zenon
    <2> QED  BY <2>1, Zenon DEF Migration, Failures
  <1> QED  BY <1>2, <1>3, <1>4

LEMMA ReportInv_Init == Init => ReportInv
  <1>1. NoMigration \in Migration
    BY DEF NoMigration, Migration
  <1> QED  BY <1>1 DEF Init, ReportInv, CleanRunMigratesAll, NoMigration

LEMMA ReportStep ==
    ASSUME TablesInv, ReportInv, [Next]_vars
    PROVE  ReportInv'
  <1> DEFINE M(l) == {v \in versions' : v.doc = l.doc /\ v.hash = l.hash /\ v.parser = LegacyParser}
  <1>1. \A i \in DOMAIN LegacyDocuments :
            Migrated(LegacyDocuments[i]) # {} => M(LegacyDocuments[i]) # {}
    BY MigratedStays DEF Migrated
  <1>2. migration \in Migration /\ migration.next \in Nat /\ migration.limit \in Nat
    BY DEF ReportInv, Migration
  <1>in. migration \in Migration
    BY <1>2
  <1>3. DOMAIN LegacyDocuments = 1..Len(LegacyDocuments) /\ Len(LegacyDocuments) \in Nat
    BY LegacyAssumption
  <1> HIDE DEF M
  <1> DEFINE Reports ==
        /\ migration' \in Migration
        /\ migration'.stage # "idle" => migration'.next >= 1
        /\ migration'.stage = "documents" /\ migration'.errors = {} =>
            \A i \in DOMAIN LegacyDocuments :
                i < migration'.next /\ i <= migration'.limit => M(LegacyDocuments[i]) # {}
        /\ migration'.stage = "done" /\ migration'.errors = {} =>
            \A i \in DOMAIN LegacyDocuments :
                i <= migration'.limit => M(LegacyDocuments[i]) # {}
  <1> SUFFICES Reports
    BY DEF ReportInv, CleanRunMigratesAll, Migrated, M
  <1>4. CASE migration' = migration
    BY <1>1, <1>4 DEF ReportInv, CleanRunMigratesAll
  <1>5. ASSUME NEW limit \in Limits, StartMigration(limit) PROVE Reports
    <2>1. migration' = [stage |-> "archives", limit |-> limit, next |-> 1,
                        mapped |-> {}, errors |-> {}]
      BY <1>5 DEF StartMigration, NoMigration
    <2>2. limit \in Nat
      BY LegacyAssumption
    <2> QED  BY <2>1, <2>2 DEF Migration
  <1>6. CASE MigrateArchive
    <2> DEFINE mapped == migration.mapped \cup {migration.next}
    <2>1. /\ migration.stage = "archives" /\ migration.next \in DOMAIN LegacyArchives
          /\ migration' = [migration EXCEPT !.mapped = mapped, !.next = migration.next + 1]
      BY <1>6 DEF MigrateArchive, Turn
    <2>2. mapped \in SUBSET DOMAIN LegacyArchives
      BY <1>2, <2>1 DEF Migration
    <2> HIDE DEF mapped
    <2>4. /\ migration' \in Migration /\ migration'.stage = migration.stage
          /\ migration'.next = migration.next + 1
      BY ONLY <1>in, <2>1, <2>2, TurnMapped
    <2>3. migration' \in Migration /\ migration'.stage = "archives" /\ migration'.next >= 1
      BY <1>2, <2>1, <2>4
    <2> QED  BY <2>3
  <1>7. CASE FailArchive
    <2> DEFINE f == <<"archive", migration.next>>
    <2>1. /\ migration.stage = "archives"
          /\ migration' = [migration EXCEPT !.errors = @ \cup {f}, !.next = @ + 1]
      BY <1>7 DEF FailArchive
    <2>2. f \in Failures
      BY <1>2 DEF Failures
    <2> HIDE DEF f
    <2>3. /\ migration' \in Migration /\ migration'.stage = migration.stage
          /\ migration'.next = migration.next + 1 /\ migration'.errors # {}
      BY ONLY <1>in, <2>1, <2>2, TurnFailed
    <2>4. migration'.stage = "archives" /\ migration'.next >= 1
      BY <1>2, <2>1, <2>3
    <2> QED  BY <2>3, <2>4
  <1>8. CASE ReadDocuments
    <2>1. migration' = [migration EXCEPT !.stage = "documents", !.next = 1]
      BY <1>8 DEF ReadDocuments
    <2>2. migration' \in Migration /\ migration'.stage = "documents" /\ migration'.next = 1
      BY <1>2, <2>1 DEF Migration
    <2> QED  BY <1>3, <2>2
  <1>9. CASE MigrateDocument
    <2>1. /\ migration.stage = "documents"
          /\ migration' = [migration EXCEPT !.next = migration.next + 1]
      BY <1>9 DEF MigrateDocument
    <2>2. M(LegacyDocuments[migration.next]) # {}
      BY <1>9, MigratedNow DEF M
    <2>3. /\ migration' \in Migration /\ migration'.stage = "documents"
          /\ migration'.next = migration.next + 1 /\ migration'.limit = migration.limit
          /\ migration'.errors = migration.errors
      BY <1>2, <2>1 DEF Migration
    <2>4. ASSUME migration.errors = {}, NEW i \in DOMAIN LegacyDocuments,
                 i < migration.next + 1, i <= migration.limit
          PROVE  M(LegacyDocuments[i]) # {}
      <3>1. i < migration.next \/ i = migration.next
        BY <1>2, <1>3, <2>4
      <3> QED  BY <1>1, <2>1, <2>2, <2>4, <3>1 DEF ReportInv
    <2> QED  BY <1>2, <2>3, <2>4
  <1>10. CASE SkipDocument
    <2> DEFINE f == <<"document", migration.next>>
    <2>1. /\ migration.stage = "documents"
          /\ migration' = [migration EXCEPT !.errors = @ \cup {f}, !.next = @ + 1]
      BY <1>10 DEF SkipDocument, Reported
    <2>2. f \in Failures
      BY <1>2 DEF Failures
    <2> HIDE DEF f
    <2>3. /\ migration' \in Migration /\ migration'.stage = migration.stage
          /\ migration'.next = migration.next + 1 /\ migration'.errors # {}
      BY ONLY <1>in, <2>1, <2>2, TurnFailed
    <2>4. migration'.stage = "documents" /\ migration'.next >= 1
      BY <1>2, <2>1, <2>3
    <2> QED  BY <2>3, <2>4
  <1>11. CASE EndMigration
    <2>1. /\ migration.stage = "documents"
          /\ migration.next > migration.limit \/ migration.next \notin DOMAIN LegacyDocuments
          /\ migration' = [migration EXCEPT !.stage = "done"]
      BY <1>2, <1>11 DEF EndMigration, Turn
    <2>2. \A i \in DOMAIN LegacyDocuments : i <= migration.limit => i < migration.next
      BY <1>2, <1>3, <2>1 DEF ReportInv
    <2>3. /\ migration' \in Migration /\ migration'.stage = "done"
          /\ migration'.next = migration.next /\ migration'.limit = migration.limit
          /\ migration'.errors = migration.errors
      BY <1>2, <2>1 DEF Migration
    <2>4. migration.next >= 1
      BY <2>1 DEF ReportInv
    <2> QED  BY <1>1, <2>1, <2>2, <2>3, <2>4 DEF ReportInv
  <1>12. CASE migration' = NoMigration
    BY <1>12 DEF NoMigration, Migration
  <1> QED  BY <1>4, <1>5, <1>6, <1>7, <1>8, <1>9, <1>10, <1>11, <1>12, MigrationMoves

(***************************************************************************)
(* A run that reports no error has migrated all it was to migrate.         *)
(***************************************************************************)
THEOREM Migration_CleanRunMigratesAll == Spec => []CleanRunMigratesAll
  <1>1. Init => TablesInv /\ ReportInv
    BY TablesInv_Init, ReportInv_Init
  <1>2. (TablesInv /\ ReportInv) /\ [Next]_vars => (TablesInv /\ ReportInv)'
    BY TablesStep, ReportStep
  <1>3. TablesInv /\ ReportInv => CleanRunMigratesAll
    BY DEF ReportInv
  <1> QED  BY <1>1, <1>2, <1>3, PTL DEF Spec

-----------------------------------------------------------------------------
(* The backfill.                                                           *)

LEMMA IndexInv_Init == Init => IndexInv
  <1>1. NoBackfill \in Backfill
    BY DEF NoBackfill, Backfill
  <1> QED  BY <1>1 DEF Init, IndexInv, NoBackfill, Behind

\* The ingest and the migration, while the backfill is anywhere.
LEMMA IndexBeside ==
    ASSUME RowsAndNodes, IndexInv, [Next]_vars, UNCHANGED backfill
    PROVE  IndexInv'
  <1>1. NodesStay /\ StepRows
    BY NodesStep, TablesStep DEF RowsAndNodes
  <1>2. \A k \in backfill.listed : \E v \in versions : Key(v) = k
    BY DEF IndexInv
  <1>3. ASSUME NEW k \in backfill.listed
        PROVE  /\ {n \in {m \in nodes' : m.of = k} : n.locator # Root} = Provisions(k)
               /\ \E u \in versions' : Key(u) = k
    <2>1. PICK v \in versions : Key(v) = k
      BY <1>2
    <2>2. PICK u \in versions' : Lives(v, u)
      BY <1>1 DEF StepRows
    <2>3. Key(u) = k
      BY <2>1, <2>2 DEF Lives, SameRow, Key
    <2>4. {m \in nodes' : m.of = k} = NodesOf(k)
      BY <1>1, <2>1 DEF NodesStay
    <2> QED  BY <2>3, <2>4 DEF Provisions
  <1>4. nodes \subseteq nodes'
    <2>1. CASE UNCHANGED <<documents, versions, nodes>>
      BY <2>1
    <2>2. CASE MigrateDocument
      BY <2>2 DEF MigrateDocument
    <2>3. CASE \E d \in Documents, h \in Hashes, p \in Parsers, now \in Times :
                 Ingest(d, h, p, now)
      BY <2>3 DEF Ingest
    <2> QED  BY <2>1, <2>2, <2>3, RowsSteps
  <1>5. /\ citations \subseteq citations' /\ citations' \subseteq nodes'
        /\ \A n \in citations' : n.locator # Root
    <2>1. \/ citations' = citations
          \/ \E d \in Documents, h \in Hashes, p \in Parsers, now \in Times :
                Ingest(d, h, p, now)
          \/ \E n \in backfill.rest : UpsertCitation(n)
      BY DEF Next, vars, StartMigration, MigrateArchive, FailArchive, ReadDocuments,
             MigrateDocument, SkipDocument, EndMigration, StartBackfill, ReadNodes,
             CountCitations, FailVersion, EndBackfill, Stop, EnsureSource
    <2>2. CASE citations' = citations
      BY <1>4, <2>2 DEF IndexInv
    <2>3. ASSUME NEW d \in Documents, NEW h \in Hashes, NEW p \in Parsers, NEW now \in Times,
                 Ingest(d, h, p, now)
          PROVE  /\ citations \subseteq citations' /\ citations' \subseteq nodes'
                 /\ \A n \in citations' : n.locator # Root
      <3>1. PICK tree : /\ nodes' = nodes \cup tree
                        /\ citations' = citations \cup {n \in tree : n.locator # Root}
        BY <2>3 DEF Ingest
      <3> QED  BY <3>1 DEF IndexInv
    <2>4. ASSUME NEW n \in backfill.rest, UpsertCitation(n) PROVE FALSE
      <3>1. backfill'.rest = backfill.rest \ {n}
        BY <2>4 DEF UpsertCitation, IndexInv, Backfill
      <3> QED  BY <3>1
    <2> QED  BY <2>1, <2>2, <2>3, <2>4
  <1>6. backfill' = backfill
    OBVIOUS
  <1>7. \A k \in backfill.listed : Provisions(k)' = Provisions(k)
    BY <1>3 DEF Provisions, NodesOf
  <1>8. backfill \in Backfill
    BY DEF IndexInv
  <1>9. Behind' = Behind /\ Behind \subseteq backfill.listed
    BY <1>6 DEF Behind
  <1> QED
    BY <1>3, <1>4, <1>5, <1>6, <1>7, <1>9 DEF IndexInv, Key

\* The steps of the backfill itself write no rows and no nodes.
LEMMA IndexMoves ==
    ASSUME [Next]_vars
    PROVE  \/ UNCHANGED backfill
           \/ /\ UNCHANGED <<versions, nodes>>
              /\ \/ StartBackfill
                 \/ \E k \in backfill.todo : ReadNodes(k)
                 \/ CountCitations
                 \/ \E n \in backfill.rest : UpsertCitation(n)
                 \/ \E k \in backfill.todo \cup backfill.current : FailVersion(k)
                 \/ EndBackfill
                 \/ backfill' = NoBackfill /\ UNCHANGED citations
  BY DEF Next, vars, corpusVars, StartMigration, MigrateArchive, FailArchive,
         ReadDocuments, MigrateDocument, SkipDocument, EndMigration, StartBackfill,
         ReadNodes, CountCitations, UpsertCitation, FailVersion, EndBackfill, Stop,
         EnsureSource, Ingest

\* The parts of the invariant that speak of what has been read and written.
Read(b) ==
    /\ b.stage \in {"idle", "next", "done"} => b.current = {} /\ b.rest = {}
    /\ b.stage = "done" => b.todo = {}
    /\ b.stage = "count" =>
        \E k \in b.listed : b.current = {k} /\ b.rest = Provisions(k)

Written(b, cited) ==
    /\ b.stage = "upsert" =>
        \E k \in b.listed :
            /\ b.current = {k}
            /\ b.rest \subseteq Provisions(k)
            /\ Provisions(k) \ b.rest \subseteq cited
    /\ ~b.failed =>
        \A k \in b.listed \ (b.todo \cup b.current) : Provisions(k) \subseteq cited

Lists(b) ==
    /\ b \in Backfill
    /\ b.rest \subseteq nodes
    /\ \A k \in b.listed : \E v \in versions : Key(v) = k
    /\ b.todo \cup b.current \subseteq b.listed

Cites(cited) == cited \subseteq nodes /\ \A n \in cited : n.locator # Root

LEMMA IndexParts ==
    IndexInv <=> /\ Lists(backfill) /\ Cites(citations)
                 /\ Read(backfill) /\ Written(backfill, citations)
  BY DEF IndexInv, Lists, Cites, Read, Written, Behind

LEMMA IndexParts_Next ==
    ASSUME UNCHANGED <<versions, nodes>>,
           Lists(backfill'), Cites(citations'), Read(backfill'), Written(backfill', citations')
    PROVE  IndexInv'
  <1>1. \A k : Provisions(k)' = Provisions(k)
    BY DEF Provisions, NodesOf
  <1> QED
    BY <1>1 DEF IndexInv, Lists, Cites, Read, Written, Behind, Key

LEMMA KeysInType ==
    ASSUME TablesInv, NEW v \in versions PROVE Key(v) \in Documents \X Nat
  BY RowFields DEF TablesInv, Key

LEMMA IndexStart ==
    ASSUME RowsAndNodes, IndexInv, UNCHANGED <<versions, nodes>>, StartBackfill
    PROVE  IndexInv'
  <1> DEFINE all == {Key(v) : v \in versions}
  <1>1. all \in SUBSET (Documents \X Nat)
    BY KeysInType DEF RowsAndNodes
  <1>2. \A k \in all : \E v \in versions : Key(v) = k
    OBVIOUS
  <1>3. /\ citations' = citations
        /\ backfill' = [stage |-> "next", listed |-> all, todo |-> all, current |-> {},
                        rest |-> {}, failed |-> FALSE]
    BY DEF StartBackfill, NoBackfill
  <1> HIDE DEF all
  <1>4. backfill' \in Backfill
    BY <1>1, <1>3 DEF Backfill
  <1>5. Lists(backfill') /\ Read(backfill') /\ Written(backfill', citations')
    BY <1>2, <1>3, <1>4 DEF Lists, Read, Written
  <1> QED  BY <1>3, <1>5, IndexParts, IndexParts_Next

LEMMA IndexRead ==
    ASSUME RowsAndNodes, IndexInv, UNCHANGED <<versions, nodes>>,
           NEW k \in backfill.todo, ReadNodes(k)
    PROVE  IndexInv'
  <1> DEFINE b == backfill
             found == Provisions(k)
  <1>1. Lists(b) /\ Cites(citations) /\ Read(b) /\ Written(b, citations)
    BY IndexParts
  <1>2. /\ citations' = citations /\ b.stage = "next"
        /\ backfill' = [b EXCEPT !.todo = b.todo \ {k}, !.rest = found,
                          !.current = IF found = {} THEN {} ELSE {k},
                          !.stage = IF found = {} THEN "next" ELSE "count"]
    BY DEF ReadNodes
  <1>3. found \subseteq nodes /\ found \in SUBSET Node
    BY DEF Provisions, NodesOf, RowsAndNodes, NodesInv
  <1>4. b.listed \in SUBSET (Documents \X Nat) /\ b.todo \in SUBSET (Documents \X Nat)
        /\ k \in b.listed /\ b.current = {} /\ b.failed \in BOOLEAN
    BY <1>1, <1>2 DEF Lists, Read, Backfill
  <1> DEFINE x == backfill'
  <1>5. /\ x.listed = b.listed /\ x.todo = b.todo \ {k} /\ x.rest = found
        /\ x.failed = b.failed
        /\ found = {} => x.stage = "next" /\ x.current = {}
        /\ found # {} => x.stage = "count" /\ x.current = {k}
    BY <1>1, <1>2 DEF Lists, Backfill
  <1>6. x \in Backfill
    <2>1. x = [stage |-> x.stage, listed |-> x.listed, todo |-> x.todo,
               current |-> x.current, rest |-> x.rest, failed |-> x.failed]
      BY <1>1, <1>2 DEF Lists, Backfill
    <2>2. /\ x.stage \in {"idle", "next", "count", "upsert", "done"}
          /\ x.todo \in SUBSET (Documents \X Nat) /\ x.current \in SUBSET (Documents \X Nat)
          /\ x.listed \in SUBSET (Documents \X Nat)
          /\ x.rest \in SUBSET Node /\ x.failed \in BOOLEAN
      BY <1>3, <1>4, <1>5
    <2> HIDE DEF x
    <2> QED  BY <2>1, <2>2 DEF Backfill
  <1> HIDE DEF found, x
  <1>7. Lists(x)
    BY <1>1, <1>3, <1>4, <1>5, <1>6 DEF Lists
  <1>8. Read(x)
    BY <1>4, <1>5 DEF Read, found
  <1>9. Written(x, citations)
    BY <1>1, <1>4, <1>5 DEF Written, found
  <1> QED  BY <1>1, <1>2, <1>7, <1>8, <1>9, IndexParts_Next DEF x

(***************************************************************************)
(* Citations are of nodes the backfill would cite, so that as many of them *)
(* as nodes are all of them (the count that lets it pass a version over).  *)
(***************************************************************************)
LEMMA CountSuffices ==
    ASSUME RowsAndNodes, Cites(citations), NEW v \in versions,
           FullyIndexed(Key(v), Provisions(Key(v)))
    PROVE  Provisions(Key(v)) \subseteq citations
  <1> DEFINE cited == citations \cap NodesOf(Key(v))
             all   == Provisions(Key(v))
  <1>1. cited \subseteq all
    BY DEF Cites, Provisions
  <1>2. IsFiniteSet(all)
    <2>1. IsFiniteSet(NodesOf(Key(v))) /\ all \subseteq NodesOf(Key(v))
      BY DEF RowsAndNodes, NodesInv, Provisions
    <2> HIDE DEF all
    <2> QED  BY <2>1, FS_Subset
  <1>3. Cardinality(cited) = Cardinality(all)
    BY DEF FullyIndexed
  <1>4. cited = all
    <2> HIDE DEF cited, all
    <2> QED  BY <1>1, <1>2, <1>3, FS_Subset
  <1> QED  BY <1>4

\* The locals after a step that takes away from them only.
LEMMA BackfillFields ==
    ASSUME NEW b \in Backfill, NEW x, NEW s \in {"idle", "next", "count", "upsert", "done"},
           NEW t \in SUBSET b.todo, NEW c \in SUBSET b.current, NEW r \in SUBSET b.rest,
           NEW f \in BOOLEAN,
           x = [stage |-> s, listed |-> b.listed, todo |-> t, current |-> c, rest |-> r,
                failed |-> f]
    PROVE  x \in Backfill
  <1>1. /\ t \in SUBSET (Documents \X Nat) /\ c \in SUBSET (Documents \X Nat)
        /\ b.listed \in SUBSET (Documents \X Nat) /\ r \in SUBSET Node
    BY DEF Backfill
  <1> QED  BY <1>1 DEF Backfill

LEMMA IndexCount ==
    ASSUME RowsAndNodes, IndexInv, UNCHANGED <<versions, nodes>>, CountCitations
    PROVE  IndexInv'
  <1> DEFINE b == backfill
             x == backfill'
  <1>1. Lists(b) /\ Cites(citations) /\ Read(b) /\ Written(b, citations) /\ b \in Backfill
    BY IndexParts DEF Lists
  <1>2. PICK k \in b.current :
            /\ b.stage = "count" /\ citations' = citations
            /\ x = IF FullyIndexed(k, b.rest)
                   THEN [b EXCEPT !.stage = "next", !.current = {}, !.rest = {}]
                   ELSE [b EXCEPT !.stage = "upsert"]
    BY DEF CountCitations
  <1>3. k \in b.listed /\ b.current = {k} /\ b.rest = Provisions(k)
    BY <1>1, <1>2 DEF Read
  <1>4. b = [stage |-> b.stage, listed |-> b.listed, todo |-> b.todo,
             current |-> b.current, rest |-> b.rest, failed |-> b.failed]
        /\ b.failed \in BOOLEAN
    BY <1>1 DEF Backfill
  <1>5. CASE FullyIndexed(k, b.rest)
    <2>1. x = [stage |-> "next", listed |-> b.listed, todo |-> b.todo,
               current |-> {}, rest |-> {}, failed |-> b.failed]
      BY <1>2, <1>4, <1>5
    <2>2. x \in Backfill
      BY <1>1, <1>4, <2>1, BackfillFields
    <2>3. PICK v \in versions : Key(v) = k
      BY <1>1, <1>3 DEF Lists
    <2>4. Provisions(k) \subseteq citations
      BY <1>1, <1>3, <1>5, <2>3, CountSuffices
    <2>5. Lists(x) /\ Read(x)
      BY <1>1, <2>1, <2>2 DEF Lists, Read
    <2>6. Written(x, citations)
      BY <1>1, <1>3, <2>1, <2>4 DEF Written
    <2> HIDE DEF x
    <2> QED  BY <1>1, <1>2, <2>5, <2>6, IndexParts_Next DEF x
  <1>6. CASE ~FullyIndexed(k, b.rest)
    <2>1. x = [stage |-> "upsert", listed |-> b.listed, todo |-> b.todo,
               current |-> b.current, rest |-> b.rest, failed |-> b.failed]
      BY <1>2, <1>4, <1>6
    <2>2. x \in Backfill
      BY <1>1, <1>4, <2>1, BackfillFields
    <2>3. Lists(x) /\ Read(x)
      BY <1>1, <2>1, <2>2 DEF Lists, Read
    <2>4. Written(x, citations)
      BY <1>1, <1>3, <2>1 DEF Written
    <2> HIDE DEF x
    <2> QED  BY <1>1, <1>2, <2>3, <2>4, IndexParts_Next DEF x
  <1> QED  BY <1>5, <1>6

LEMMA IndexUpsert ==
    ASSUME IndexInv, UNCHANGED <<versions, nodes>>, NEW n \in backfill.rest, UpsertCitation(n)
    PROVE  IndexInv'
  <1> DEFINE b == backfill
             x == backfill'
             rest == b.rest \ {n}
  <1>1. Lists(b) /\ Cites(citations) /\ Read(b) /\ Written(b, citations) /\ b \in Backfill
    BY IndexParts DEF Lists
  <1>2. /\ b.stage = "upsert" /\ citations' = citations \cup {n}
        /\ x = [b EXCEPT !.rest = rest, !.stage = IF rest = {} THEN "next" ELSE "upsert",
                         !.current = IF rest = {} THEN {} ELSE b.current]
    BY DEF UpsertCitation
  <1>3. PICK k \in b.listed : /\ b.current = {k}
                              /\ b.rest \subseteq Provisions(k)
                              /\ Provisions(k) \ b.rest \subseteq citations
    BY <1>1, <1>2 DEF Written
  <1>4. Cites(citations')
    <2>1. n \in Provisions(k) /\ n \in nodes
      BY <1>3 DEF Provisions, NodesOf
    <2> QED  BY <1>1, <1>2, <2>1 DEF Cites, Provisions
  <1>5. b = [stage |-> b.stage, listed |-> b.listed, todo |-> b.todo,
             current |-> b.current, rest |-> b.rest, failed |-> b.failed]
        /\ b.failed \in BOOLEAN
    BY <1>1 DEF Backfill
  <1>6. Provisions(k) \ rest \subseteq citations'
    BY <1>2, <1>3
  <1> HIDE DEF rest
  <1>7. rest \subseteq b.rest
    BY DEF rest
  <1>8. citations \subseteq citations'
    BY <1>2
  <1>9. CASE rest = {}
    <2>1. x = [stage |-> "next", listed |-> b.listed, todo |-> b.todo,
               current |-> {}, rest |-> {}, failed |-> b.failed]
      BY <1>2, <1>5, <1>9
    <2>2. x \in Backfill
      BY <1>1, <1>5, <2>1, BackfillFields
    <2>3. Provisions(k) \subseteq citations'
      BY <1>6, <1>9
    <2>4. Lists(x) /\ Read(x)
      BY <1>1, <2>1, <2>2 DEF Lists, Read
    <2>5. Written(x, citations')
      BY <1>1, <1>3, <1>8, <2>1, <2>3 DEF Written
    <2> HIDE DEF x
    <2> QED  BY <1>4, <2>4, <2>5, IndexParts_Next DEF x
  <1>10. CASE rest # {}
    <2>1. x = [stage |-> "upsert", listed |-> b.listed, todo |-> b.todo,
               current |-> b.current, rest |-> rest, failed |-> b.failed]
      BY <1>2, <1>5, <1>10
    <2>2. x \in Backfill
      BY <1>1, <1>5, <1>7, <2>1, BackfillFields
    <2>3. Lists(x) /\ Read(x)
      BY <1>1, <1>7, <2>1, <2>2 DEF Lists, Read
    <2>4. Written(x, citations')
      BY <1>1, <1>3, <1>6, <1>7, <1>8, <2>1 DEF Written
    <2> HIDE DEF x
    <2> QED  BY <1>4, <2>3, <2>4, IndexParts_Next DEF x
  <1> QED  BY <1>9, <1>10

LEMMA IndexFail ==
    ASSUME IndexInv, UNCHANGED <<versions, nodes>>,
           NEW k \in backfill.todo \cup backfill.current, FailVersion(k)
    PROVE  IndexInv'
  <1> DEFINE b == backfill
             x == backfill'
  <1>1. Lists(b) /\ Cites(citations) /\ Read(b) /\ Written(b, citations) /\ b \in Backfill
    BY IndexParts DEF Lists
  <1>2. /\ citations' = citations
        /\ x = [b EXCEPT !.stage = "next", !.todo = b.todo \ {k}, !.current = {}, !.rest = {},
                         !.failed = TRUE]
    BY DEF FailVersion
  <1>3. x = [stage |-> "next", listed |-> b.listed, todo |-> b.todo \ {k},
             current |-> {}, rest |-> {}, failed |-> TRUE]
    BY <1>1, <1>2 DEF Backfill
  <1>4. x \in Backfill
    BY <1>1, <1>3, BackfillFields
  <1>5. Lists(x) /\ Read(x) /\ Written(x, citations)
    BY <1>1, <1>3, <1>4 DEF Lists, Read, Written
  <1> HIDE DEF x
  <1> QED  BY <1>1, <1>2, <1>5, IndexParts_Next DEF x

LEMMA IndexEnd ==
    ASSUME IndexInv, UNCHANGED <<versions, nodes>>, EndBackfill
    PROVE  IndexInv'
  <1> DEFINE b == backfill
             x == backfill'
  <1>1. Lists(b) /\ Cites(citations) /\ Read(b) /\ Written(b, citations) /\ b \in Backfill
    BY IndexParts DEF Lists
  <1>2. /\ citations' = citations /\ b.stage = "next" /\ b.todo = {}
        /\ x = [b EXCEPT !.stage = "done"]
    BY DEF EndBackfill
  <1>3. /\ x = [stage |-> "done", listed |-> b.listed, todo |-> b.todo,
               current |-> b.current, rest |-> b.rest, failed |-> b.failed]
        /\ b.failed \in BOOLEAN
    BY <1>1, <1>2 DEF Backfill
  <1>4. x \in Backfill
    BY <1>1, <1>3, BackfillFields
  <1>5. Lists(x) /\ Read(x) /\ Written(x, citations)
    BY <1>1, <1>2, <1>3, <1>4 DEF Lists, Read, Written
  <1> HIDE DEF x
  <1> QED  BY <1>1, <1>2, <1>5, IndexParts_Next DEF x

LEMMA IndexStep ==
    ASSUME RowsAndNodes, IndexInv, [Next]_vars
    PROVE  IndexInv'
  <1>1. CASE UNCHANGED backfill
    BY <1>1, IndexBeside
  <1>2. ASSUME UNCHANGED <<versions, nodes>>, backfill' = NoBackfill, UNCHANGED citations
        PROVE  IndexInv'
    <2>1. backfill' \in Backfill
      BY <1>2 DEF NoBackfill, Backfill
    <2>2. Lists(backfill') /\ Read(backfill') /\ Written(backfill', citations')
      BY <1>2, <2>1 DEF NoBackfill, Lists, Read, Written
    <2> QED  BY <1>2, <2>2, IndexParts, IndexParts_Next
  <1> QED
    BY <1>1, <1>2, IndexMoves, IndexStart, IndexRead, IndexCount, IndexUpsert, IndexFail,
       IndexEnd

(***************************************************************************)
(* When a backfill ends without errors, every version it listed is         *)
(* indexed, whatever was left half done before, and whatever is published  *)
(* or migrated meanwhile.                                                  *)
(***************************************************************************)
THEOREM Migration_BackfillCompletes == Spec => []BackfillCompletes
  <1>1. Init => IndexInv
    BY IndexInv_Init
  <1>2. (RowsAndNodes /\ IndexInv) /\ [Next]_vars => IndexInv'
    BY IndexStep
  <1>3. IndexInv => BackfillCompletes
    <2> SUFFICES ASSUME IndexInv, backfill.stage = "done", ~backfill.failed,
                        NEW k \in backfill.listed, NEW n \in NodesOf(k)
                 PROVE  n \in citations <=> n.locator # Root
      BY DEF BackfillCompletes
    <2>1. k \in Behind
      BY DEF IndexInv, Behind
    <2>2. Provisions(k) \subseteq citations /\ \A m \in citations : m.locator # Root
      BY <2>1 DEF IndexInv
    <2> QED  BY <2>2 DEF Provisions
  <1> QED  BY <1>1, <1>2, <1>3, Migration_RowsAndNodes, PTL DEF Spec

-----------------------------------------------------------------------------
(* The types.                                                              *)

RestTypeOK ==
    /\ sources \in [Sources -> {"none", "ingest", "legacy"}]
    /\ audits \in [DOMAIN LegacyDocuments -> Nat]
    /\ runs \in [{"migration", "backfill"} -> 0..MaxRuns]
    /\ faults \in 0..MaxFaults

LEMMA RestStep ==
    ASSUME RestTypeOK, [Next]_vars
    PROVE  RestTypeOK'
  <1> USE LegacyAssumption
  <1>1. MaxRuns \in Nat /\ MaxFaults \in Nat
    OBVIOUS
  <1>2. sources' \in [Sources -> {"none", "ingest", "legacy"}]
    <2>1. \/ sources' = sources \/ sources' = UpsertSource
          \/ sources' = [sources EXCEPT ![IngestSource] = "ingest"]
      BY DEF Next, vars, corpusVars, StartMigration, MigrateArchive, FailArchive,
             ReadDocuments, MigrateDocument, SkipDocument, EndMigration, StartBackfill,
             ReadNodes, CountCitations, UpsertCitation, FailVersion, EndBackfill, Stop,
             EnsureSource, Ingest
    <2> QED  BY <2>1 DEF RestTypeOK, UpsertSource
  <1>3. audits' \in [DOMAIN LegacyDocuments -> Nat]
    <2>1. audits' = audits \/ \E i \in DOMAIN LegacyDocuments :
                                    audits' = [audits EXCEPT ![i] = @ + 1]
      BY TurnOfDocument DEF Next, vars, corpusVars, StartMigration, MigrateArchive,
             FailArchive, ReadDocuments, MigrateDocument, SkipDocument, EndMigration,
             StartBackfill, ReadNodes, CountCitations, UpsertCitation, FailVersion,
             EndBackfill, Stop, EnsureSource, Ingest
    <2> QED  BY <2>1 DEF RestTypeOK
  <1>4. runs' \in [{"migration", "backfill"} -> 0..MaxRuns]
    <2>1. runs' = runs \/ \E s \in {"migration", "backfill"} :
                            runs[s] < MaxRuns /\ runs' = [runs EXCEPT ![s] = @ + 1]
      BY DEF Next, vars, bounds, StartMigration, MigrateArchive, FailArchive,
             ReadDocuments, MigrateDocument, SkipDocument, EndMigration, StartBackfill,
             ReadNodes, CountCitations, UpsertCitation, FailVersion, EndBackfill, Stop,
             EnsureSource, Ingest
    <2> QED  BY <1>1, <2>1 DEF RestTypeOK
  <1>5. faults' \in 0..MaxFaults
    <2>1. faults' = faults \/ (faults < MaxFaults /\ faults' = faults + 1)
      BY DEF Next, vars, bounds, StartMigration, MigrateArchive, FailArchive,
             ReadDocuments, MigrateDocument, SkipDocument, EndMigration, StartBackfill,
             ReadNodes, CountCitations, UpsertCitation, FailVersion, EndBackfill, Stop,
             EnsureSource, Ingest
    <2> QED  BY <1>1, <2>1 DEF RestTypeOK
  <1> QED  BY <1>2, <1>3, <1>4, <1>5 DEF RestTypeOK

(***************************************************************************)
(* Every reachable state of the two scripts and the tables is well-typed.  *)
(***************************************************************************)
THEOREM Migration_TypeOK == Spec => []TypeOK
  <1>1. Init => RestTypeOK /\ TablesInv /\ NodesInv /\ ReportInv /\ IndexInv
    <2>1. Init => RestTypeOK
      BY LegacyAssumption DEF Init, RestTypeOK
    <2> QED  BY <2>1, TablesInv_Init, NodesInv_Init, ReportInv_Init, IndexInv_Init
  <1>2. (RestTypeOK /\ TablesInv /\ NodesInv /\ ReportInv /\ IndexInv) /\ [Next]_vars
            => (RestTypeOK /\ TablesInv /\ NodesInv /\ ReportInv /\ IndexInv)'
    BY RestStep, TablesStep, NodesStep, ReportStep, IndexStep DEF RowsAndNodes
  <1>3. RestTypeOK /\ TablesInv /\ NodesInv /\ ReportInv /\ IndexInv => TypeOK
    BY DEF TypeOK, RestTypeOK, TablesInv, NodesInv, ReportInv, IndexInv, Row
  <1> QED  BY <1>1, <1>2, <1>3, PTL DEF Spec
=============================================================================
