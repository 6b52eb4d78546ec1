---------------------------- MODULE LegacyMigration ----------------------------
(***************************************************************************)
(* The two scripts that bring the corpus of the legacy product into the    *)
(* engine: migrate-legacy-tore-data, one transaction for each document,    *)
(* and backfill-citation-index, one statement for each citation.  Both are *)
(* stopped, fail and are run again, on rows the live ingest publishes to   *)
(* as well (its publication being one step, as CorpusHistory has it).      *)
(*                                                                         *)
(* A document is a source and a canonical URL.  Only runs with --commit    *)
(* are modelled: a dry run writes nothing.                                 *)
(***************************************************************************)
EXTENDS CorpusTables, Sequences, FiniteSets

CONSTANTS
    LegacyParser,     \* tore-legacy-import-v1
    Sources,          \* keys of legal_sources: jurisdiction, type and base URL
    IngestSource,     \* the key of the ingest's own row
    SourceOf,         \* the source of a document
    LegacyArchives,   \* legal_source_archives, in the order of their dates:
                      \* the source each maps to
    LegacyDocuments,  \* legal_knowledge_documents, in the order of theirs
    Limits,           \* values of --limit
    Faults,           \* what may go wrong
    MaxFaults,        \* bound on the faults of a behaviour
    MaxRuns           \* bound on the runs of each script

\* A statement or transaction fails; the process ends.
Fault == {"error", "stop"}

\* legal_knowledge_articles: a number is not unique, and may be missing.
Article == [id: Nat, number: Nat \cup {Unknown}, order: Nat]

LegacyDocument == [archive: DOMAIN LegacyArchives, doc: Documents, hash: Hashes,
                   number: Nat, from: Bound, to: Bound, articles: SUBSET Article]

(***************************************************************************)
(* What the scripts assume of the legacy tables: ids are unique, bytes of  *)
(* a document are listed once, and are those of its archive.               *)
(***************************************************************************)
ASSUME LegacyAssumption ==
    /\ LegacyParser \notin Parsers
    /\ IngestSource \in Sources /\ SourceOf \in [Documents -> Sources]
    /\ LegacyArchives \in Seq(Sources)
    /\ LegacyDocuments \in Seq(LegacyDocument)
    /\ \A i \in DOMAIN LegacyDocuments : LET l == LegacyDocuments[i] IN
        /\ SourceOf[l.doc] = LegacyArchives[l.archive]
        /\ IsFiniteSet(l.articles)
        /\ \A a, b \in l.articles : a.id = b.id => a = b
        /\ \A j \in DOMAIN LegacyDocuments :
            LET m == LegacyDocuments[j] IN
            /\ i # j => l.doc # m.doc \/ l.hash # m.hash
            /\ l.archive = m.archive => l.hash = m.hash
    /\ Limits \subseteq Nat /\ Faults \subseteq Fault
    /\ MaxFaults \in Nat /\ MaxRuns \in Nat

\* An act has finitely many nodes.
ASSUME TreesAssumption == \A a \in Hashes \X Parsers : IsFiniteSet(Parsed[a].tree)

VARIABLES
    sources,    \* legal_sources: who created the row of a key, and gave it its id
    documents,  \* legal_documents: the status its row has
    versions,   \* legal_document_versions
    nodes,      \* legal_nodes
    citations,  \* citation_entries: the nodes that have one
    audits,     \* engine_audit_logs: legacy_backfill rows of each legacy document
    migration,  \* the running migration script
    backfill,   \* the running backfill script
    runs,       \* how often each script was started: bounds the model only
    faults      \* how many faults there were: bounds the model only

vars == <<sources, documents, versions, nodes, citations, audits, migration,
          backfill, runs, faults>>
corpusVars == <<sources, documents, versions, nodes, audits>>
bounds     == <<runs, faults>>

Corpus == INSTANCE CorpusHistory WITH corpus <- versions

Key(v) == <<v.doc, v.number>>

\* A locator of the migration: article-N, and a suffix where that is taken.
LegacyLocator == Seq(Nat)

Node == [of: Documents \X Nat, locator: Locators \cup LegacyLocator]

LegacyRow == [doc: Documents, number: Nat, from: Bound, to: Bound, hash: Hashes,
              parser: {LegacyParser}, status: {"PUBLISHED", "SUPERSEDED"}]

\* next: the archive or document whose turn it is; mapped: the archives that
\* have their engine rows; errors: the archives and documents that failed.
Migration == [stage: {"idle", "archives", "documents", "done"}, limit: Nat, next: Nat,
              mapped: SUBSET DOMAIN LegacyArchives, errors: SUBSET ({"archive", "document"} \X Nat)]

\* listed: the versions it read; todo: those still to come; rest: the nodes of
\* the current one that it has still to cite.
Backfill == [stage: {"idle", "next", "count", "upsert", "done"},
             listed: SUBSET (Documents \X Nat), todo: SUBSET (Documents \X Nat),
             current: SUBSET (Documents \X Nat), rest: SUBSET Node, failed: BOOLEAN]

NoMigration == [stage |-> "idle", limit |-> 0, next |-> 1, mapped |-> {}, errors |-> {}]
NoBackfill  == [stage |-> "idle", listed |-> {}, todo |-> {}, current |-> {},
                rest |-> {}, failed |-> FALSE]

TypeOK ==
    /\ sources \in [Sources -> {"none", "ingest", "legacy"}]
    /\ documents \in [Documents -> {"none", "UNKNOWN", "IN_FORCE"}]
    /\ versions \subseteq Version \cup LegacyRow
    /\ nodes \subseteq Node /\ citations \subseteq nodes
    /\ audits \in [DOMAIN LegacyDocuments -> Nat]
    /\ migration \in Migration
    /\ backfill \in Backfill
    /\ runs \in [{"migration", "backfill"} -> 0..MaxRuns]
    /\ faults \in 0..MaxFaults

Init ==
    /\ sources = [k \in Sources |-> "none"]
    /\ documents = [d \in Documents |-> "none"]
    /\ versions = {} /\ nodes = {} /\ citations = {}
    /\ audits = [i \in DOMAIN LegacyDocuments |-> 0]
    /\ migration = NoMigration /\ backfill = NoBackfill
    /\ runs = [s \in {"migration", "backfill"} |-> 0]
    /\ faults = 0

\* The nodes of a version that are cited: all but the root of a parsed tree.
NodesOf(k) == {n \in nodes : n.of = k}

Provisions(k) == {n \in NodesOf(k) : n.locator # Root}

-----------------------------------------------------------------------------
(***************************************************************************)
(* assignSourceLocators: the articles are sorted by order, then id; those  *)
(* that share a base locator are told apart by their ids, but for the      *)
(* first, which keeps it.                                                  *)
(***************************************************************************)
BaseLocator(a) == IF a.number # Unknown THEN a.number ELSE a.order

SortsBefore(b, a) == b.order < a.order \/ (b.order = a.order /\ b.id < a.id)

SourceLocator_NumberOnly(a, articles) == <<BaseLocator(a)>>

SourceLocator(a, articles) ==
    IF \E b \in articles : BaseLocator(b) = BaseLocator(a) /\ SortsBefore(b, a)
    THEN <<BaseLocator(a), a.id>>
    ELSE <<BaseLocator(a)>>

-----------------------------------------------------------------------------
(* The migration.                                                          *)

StartMigration(limit) ==
    /\ migration.stage \in {"idle", "done"} /\ runs["migration"] < MaxRuns
    /\ migration' = [NoMigration EXCEPT !.stage = "archives", !.limit = limit]
    /\ runs' = [runs EXCEPT !["migration"] = @ + 1]
    /\ UNCHANGED <<corpusVars, citations, backfill, faults>>

Turn(rows) == migration.next <= migration.limit /\ migration.next \in DOMAIN rows

\* The source is upserted by its key.
UpsertSource ==
    [sources EXCEPT ![LegacyArchives[migration.next]] = IF @ = "none" THEN "legacy" ELSE @]

\* The upserts of the source and of the archive record.
MigrateArchive ==
    /\ migration.stage = "archives" /\ Turn(LegacyArchives)
    /\ sources' = UpsertSource
    /\ migration' = [migration EXCEPT !.mapped = @ \cup {migration.next}, !.next = @ + 1]
    /\ UNCHANGED <<documents, versions, nodes, audits, citations, backfill, bounds>>

\* Either upsert fails, the second with the source's row in place.
FailArchive ==
    /\ migration.stage = "archives" /\ Turn(LegacyArchives)
    /\ "error" \in Faults /\ faults < MaxFaults
    /\ sources' \in {sources, UpsertSource}
    /\ migration' = [migration EXCEPT !.errors = @ \cup {<<"archive", migration.next>>},
                                      !.next = @ + 1]
    /\ faults' = faults + 1
    /\ UNCHANGED <<documents, versions, nodes, audits, citations, backfill, runs>>

ReadDocuments ==
    /\ migration.stage = "archives" /\ ~Turn(LegacyArchives)
    /\ migration' = [migration EXCEPT !.stage = "documents", !.next = 1]
    /\ UNCHANGED <<corpusVars, citations, backfill, bounds>>

NewLegacyVersion(l) ==
    [doc |-> l.doc, number |-> l.number, from |-> l.from, to |-> l.to,
     hash |-> l.hash, parser |-> LegacyParser, status |-> "PUBLISHED"]

\* The rows of the document's own version, if it was migrated before.
Migrated(l) ==
    {v \in versions : v.doc = l.doc /\ v.hash = l.hash /\ v.parser = LegacyParser}

Admissible(l) == Migrated(l) # {} \/ ConstraintsAllow(versions, NewLegacyVersion(l))

Reported_Silently(i) == [migration EXCEPT !.next = @ + 1]

Reported(i) == [migration EXCEPT !.errors = @ \cup {<<"document", i>>}, !.next = @ + 1]

\* The transaction of a document commits: what is there is left as it is, but
\* for the audit row, which is created each time.
UpsertedVersion_Rewrites(l) == NewLegacyVersion(l)

UpsertedVersion(l) ==
    IF Migrated(l) = {} THEN NewLegacyVersion(l) ELSE CHOOSE v \in Migrated(l) : TRUE

MigrateDocument ==
    LET i   == migration.next
        l   == LegacyDocuments[i]
        row == UpsertedVersion(l)
    IN  /\ migration.stage = "documents" /\ Turn(LegacyDocuments)
        /\ l.archive \in migration.mapped /\ Admissible(l)
        /\ documents' = [documents EXCEPT ![l.doc] = IF @ = "none" THEN "UNKNOWN" ELSE @]
        /\ versions' = Overlaid(versions, {row})
        /\ audits' = [audits EXCEPT ![i] = @ + 1]
        /\ nodes' = nodes \cup {[of |-> Key(row), locator |-> SourceLocator(a, l.articles)]
                                : a \in l.articles}
        /\ migration' = [migration EXCEPT !.next = i + 1]
        /\ UNCHANGED <<sources, citations, backfill, bounds>>

\* No archive, a constraint, or any statement of the transaction: it rolls back.
SkipDocument ==
    LET l == LegacyDocuments[migration.next]
        refused == l.archive \notin migration.mapped \/ ~Admissible(l)
    IN  /\ migration.stage = "documents" /\ Turn(LegacyDocuments)
        /\ refused \/ ("error" \in Faults /\ faults < MaxFaults)
        /\ migration' = Reported(migration.next)
        /\ faults' = IF refused THEN faults ELSE faults + 1
        /\ UNCHANGED <<corpusVars, citations, backfill, runs>>

EndMigration ==
    /\ migration.stage = "documents" /\ ~Turn(LegacyDocuments)
    /\ migration' = [migration EXCEPT !.stage = "done"]
    /\ UNCHANGED <<corpusVars, citations, backfill, bounds>>

-----------------------------------------------------------------------------
(* The backfill.                                                           *)

\* The versions, by date of creation; --limit takes some, as a stop would.
StartBackfill ==
    LET all == {Key(v) : v \in versions} IN
    /\ backfill.stage \in {"idle", "done"} /\ runs["backfill"] < MaxRuns
    /\ backfill' = [NoBackfill EXCEPT !.stage = "next", !.listed = all, !.todo = all]
    /\ runs' = [runs EXCEPT !["backfill"] = @ + 1]
    /\ UNCHANGED <<corpusVars, citations, migration, faults>>

\* The nodes of the next version; one without any is passed over.
ReadNodes(k) ==
    /\ backfill.stage = "next" /\ k \in backfill.todo
    /\ backfill' = [backfill EXCEPT !.todo = @ \ {k}, !.rest = Provisions(k),
            !.current = IF Provisions(k) = {} THEN {} ELSE {k},
            !.stage = IF Provisions(k) = {} THEN "next" ELSE "count"]
    /\ UNCHANGED <<corpusVars, citations, migration, bounds>>

FullyIndexed_AnyCitation(k, found) == citations \cap NodesOf(k) # {}

FullyIndexed(k, found) == Cardinality(citations \cap NodesOf(k)) = Cardinality(found)

CountCitations ==
    \E k \in backfill.current :
        /\ backfill.stage = "count"
        /\ backfill' = IF FullyIndexed(k, backfill.rest)
                       THEN [backfill EXCEPT !.stage = "next", !.current = {}, !.rest = {}]
                       ELSE [backfill EXCEPT !.stage = "upsert"]
        /\ UNCHANGED <<corpusVars, citations, migration, bounds>>

UpsertCitation(n) ==
    /\ backfill.stage = "upsert" /\ n \in backfill.rest
    /\ citations' = citations \cup {n}
    /\ LET rest == backfill.rest \ {n} IN
       backfill' = [backfill EXCEPT !.rest = rest,
                        !.stage = IF rest = {} THEN "next" ELSE "upsert",
                        !.current = IF rest = {} THEN {} ELSE @]
    /\ UNCHANGED <<corpusVars, migration, bounds>>

\* A failed query is reported, and the next version taken.
FailVersion(k) ==
    /\ "error" \in Faults /\ faults < MaxFaults
    /\ \/ backfill.stage = "next" /\ k \in backfill.todo
       \/ backfill.stage \in {"count", "upsert"} /\ k \in backfill.current
    /\ backfill' = [backfill EXCEPT !.stage = "next", !.todo = @ \ {k}, !.current = {},
                                    !.rest = {}, !.failed = TRUE]
    /\ faults' = faults + 1
    /\ UNCHANGED <<corpusVars, citations, migration, runs>>

EndBackfill ==
    /\ backfill.stage = "next" /\ backfill.todo = {}
    /\ backfill' = [backfill EXCEPT !.stage = "done"]
    /\ UNCHANGED <<corpusVars, citations, migration, bounds>>

\* Either process ends anywhere: what it has committed stays.
Stop ==
    /\ "stop" \in Faults /\ faults < MaxFaults
    /\ \/ /\ migration.stage \in {"archives", "documents"}
          /\ migration' = NoMigration /\ UNCHANGED backfill
       \/ /\ backfill.stage \in {"next", "count", "upsert"}
          /\ backfill' = NoBackfill /\ UNCHANGED migration
    /\ faults' = faults + 1
    /\ UNCHANGED <<corpusVars, citations, runs>>

-----------------------------------------------------------------------------
(* The live ingest.                                                        *)

\* ensureSource creates the row under its own id.  Where the migration has one
\* under that key, the insert fails, and with it every run of the ingest.
EnsureSource ==
    /\ sources[IngestSource] = "none"
    /\ sources' = [sources EXCEPT ![IngestSource] = "ingest"]
    /\ UNCHANGED <<documents, versions, nodes, audits, citations, migration, backfill, bounds>>

\* publish, with the nodes and citations of its transaction.
Ingest(d, h, p, now) ==
    LET key  == <<d, NextNumber(VersionsOf(versions, d))>>
        tree == {[of |-> key, locator |-> l] : l \in Parsed[<<h, p>>].tree}
    IN  /\ sources[IngestSource] = "ingest" /\ SourceOf[d] = IngestSource
        /\ Corpus!Publish(d, h, p, now)
        /\ documents' = [documents EXCEPT ![d] = "IN_FORCE"]
        /\ nodes' = nodes \cup tree
        /\ citations' = citations \cup {n \in tree : n.locator # Root}
        /\ UNCHANGED <<sources, audits, migration, backfill, bounds>>

-----------------------------------------------------------------------------
Next ==
    \/ \E limit \in Limits : StartMigration(limit)
    \/ MigrateArchive \/ FailArchive \/ ReadDocuments
    \/ MigrateDocument \/ SkipDocument \/ EndMigration
    \/ StartBackfill
    \/ \E k \in backfill.todo : ReadNodes(k)
    \/ CountCitations
    \/ \E n \in backfill.rest : UpsertCitation(n)
    \/ \E k \in backfill.todo \cup backfill.current : FailVersion(k)
    \/ EndBackfill
    \/ Stop
    \/ EnsureSource
    \/ \E d \in Documents, h \in Hashes, p \in Parsers, now \in Times : Ingest(d, h, p, now)

Spec == Init /\ [][Next]_vars

-----------------------------------------------------------------------------
(***************************************************************************)
(* No article is lost: a migrated version has a node of its own for each   *)
(* article of its legacy document, even where two display the same number  *)
(* (assignSourceLocators; the upsert by locator would drop the second).    *)
(***************************************************************************)
EveryArticleHasItsNode ==
    \A i \in DOMAIN LegacyDocuments : \A v \in Migrated(LegacyDocuments[i]) :
        Cardinality(NodesOf(Key(v))) = Cardinality(LegacyDocuments[i].articles)

(***************************************************************************)
(* A run that reports no error has migrated every document it was to       *)
(* migrate (the report: "an empty array means every document that was      *)
(* attempted either fully committed or fully rolled back").                *)
(***************************************************************************)
CleanRunMigratesAll ==
    migration.stage = "done" /\ migration.errors = {} =>
        \A i \in DOMAIN LegacyDocuments :
            i <= migration.limit => Migrated(LegacyDocuments[i]) # {}

(***************************************************************************)
(* A migration that is run again, perhaps years of publications later,     *)
(* brings back no version the ingest has superseded, and takes no act out  *)
(* of force (update: {} in both upserts).                                  *)
(***************************************************************************)
NothingIsRevived ==
    [][ /\ \A v \in versions : v.status = "SUPERSEDED" => v \in versions'
        /\ \A d \in Documents : documents[d] = "IN_FORCE" => documents'[d] = "IN_FORCE" ]_vars

(***************************************************************************)
(* When a backfill ends without errors, the versions it listed are indexed *)
(* as publishing indexes them, whatever earlier runs left half done: every *)
(* node has its citation, but the root of a parsed tree has none.          *)
(***************************************************************************)
BackfillCompletes ==
    backfill.stage = "done" /\ ~backfill.failed =>
        \A k \in backfill.listed :
            \A n \in NodesOf(k) : n \in citations <=> n.locator # Root

(***************************************************************************)
(* Not so of the code, whose audit row is created and not upserted: that   *)
(* the migration, run again, duplicates nothing (the script's comment on   *)
(* its writes, docs/architecture/legal-data-identity.md:31).               *)
(***************************************************************************)
RerunDuplicatesNothing == \A i \in DOMAIN LegacyDocuments : audits[i] <= 1
=============================================================================
