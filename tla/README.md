# A verified model of the legal data engine

TLA+ modules for the Tore legal data engine: the ingest that turns pages of
LegalInfo into versions of acts, the archive of the original bytes, the
retrieval that answers from the corpus, the crawler with its own archive, the
HTTP clients of both, and the scripts that bring in the legacy corpus. TLC
checks the modules on small instances, TLAPS proves the main properties for
every instance. `PROJECT.json` maps each definition to the lines it models, and
lists the runs, the mutants that show each property can fail, the findings, the
hazards and the theorems.

    tlc -workers 2 -config PublicationRace.cfg MCPublication.tla
    tlapm PublicationProofs.tla

## The system

| part | state | operations | hard behaviour |
|---|---|---|---|
| ingest service (`application/ingest`) | rows of documents, versions, nodes, citations, reviews | `run`, `ingestOne`, `publish`, `retainOrCreateReview`, `acceptPendingReviews`, `republishFromArchive` | several CLI processes on one READ COMMITTED database; lists read before and used after other commits; retries by running again |
| archive (`application/archive`, `infrastructure/archive`) | files by hash, `archive_records` | `store`, `putIfAbsent`, `get` | file and record are not written together; concurrent writers; a process stopped in a write |
| corpus retrieval (`application/legal-corpus`, `application/citations`) | none of its own | `retrieve`, `verify` | a request is several queries, publications come in between |
| effective intervals (`domain/services/document-version.ts`, the exclusion constraint) | none | comparison of intervals | closed in the program, half-open in the database; unknown bounds |
| parser and gate (`parsers`, `publication-gate.ts`, `application/evaluation`) | while it reads: the tree and the current chapter, article, paragraph, clause | `parse`, `assessPublicationGate`, `assessParseConfidence`, `evaluateVersionStructure` | four current provisions kept apart; the meaning of a number depends on earlier lines; clashing locators |
| HTTP clients (`infrastructure/http`, `apps/scraper/src/http`, `client.ts`) | the limiter's next time, the rules of robots.txt | download, request | redirects and attempts nested in each other, pauses, a limiter that is replaced |
| ingest run (`run`, `republishFromArchive`, `ingest_jobs`) | one job row, the counters | create, mark, the loop over acts | killed anywhere; answers that are lost; counters in memory, versions in the database |
| crawler (`apps/scraper`) | checkpoint file, jobs, crawl results | discovery, downloads | stop and resume, interrupt handler, results in several statements |
| blob store and raw archive (`packages/storage`) | files, catalogue rows | `put`, `archive` | a failed writer unlinks, catalogue apart from bytes |
| legacy migration, citation backfill (`scripts`) | the same tables | one transaction per act; upserts | interrupted and run again, next to rows of the ingest |
| evaluation, audits | none | read-only reports | - |
| citation normaliser | none | pure functions on text | - |
| workers, api, parser apps, remote blob stores | none | stubs | - |

The CLI's `run` discovers acts, downloads each (HttpClients), stores its bytes in
the archive (ArchiveStore), parses and gates them (ParsedTree, PublicationGate),
and then asks for a review or publishes (Publication); IngestRun is the loop
around that. Retrieval reads what committed transactions left (Retrieval reads
the abstract history that Publication is shown to implement, so the two
compose). The crawler is a second, older pipeline with tables and a store of its
own: discovery lists documents, downloads fetch each in two formats and archive
the bytes. The migration and the backfill write the tables of the ingest.

## Modules

- **VersionTimeline** - intervals: `IntervalAccepted` (`assertDocumentVersion`),
  `IntervalsOverlap` (closed, the program), `RangesOverlap` (half-open, the
  constraint), `CoversInstant` (as-of). An instant is a natural number; -1 stands
  for null.
- **CorpusTables** - the rows of `legal_document_versions` and what `publish`
  computes from a list of them: `NextNumber`, `Canonicalization`, `Superseded`,
  `NewVersion`, and `ConstraintsAllow`, the keys of the table. What the parser
  makes of bytes is the constant `Parsed`: the verdict of gate and confidence,
  the date it reads, the locators of the tree. The hash of a version stands for
  its content hash and its archive record, as one record holds each hash.
- **CorpusHistory** - the abstract specification: a publication is one step on
  the committed rows.
- **Publication** - the ingest. A worker is one process on one act; `work[w]` are
  the locals of `ingestOne` and `publish`, the other variables the committed
  tables. Every database statement whose place matters is an action: the
  statements of `publish` from `FindDocument` to `Commit`, those of
  `retainOrCreateReview` each committed by itself. A transaction's writes stay
  in its job (`closed`, `pending`) until `Commit`; row locks and the wait for an
  uncommitted insert of the same key are the guards `DocumentLocked`,
  `VersionLocked`, `ReviewLocked` and `InsertPending`, which model PostgreSQL and
  are marked external. `Abandon` is any exception or the end of the process at
  any point; the transaction rolls back. `persistWith`'s nodes and citations are
  written in one step with the commit, as only this transaction touches rows of
  its new version.
- **ArchiveStore** - the archive. The file of a hash is absent, partial or
  whole, between the exclusive creation and the last write it is partial. Find,
  open, write, create record, read back and parse are steps of their own, for
  the ingest and for `republishFromArchive`. `Fail` ends a run at any step.
- **Retrieval** - extends CorpusHistory with one client request at a time, query
  by query: by node id, by document (version, then tree), by citations (for each
  a query for the rows and one for their versions), by question, and `verify`.
  `current` and `steady` are history variables: the versions published at some,
  and at every, moment of the request.
- **BlobArchive** - the crawler's archive: the exclusive write with its fsync,
  the comparison with a file that exists (size, then checksum), the unlink after
  a failed write, the catalogue row and its unique checksum, the attachment to a
  document or crawl result. Each file operation and each query is an action.
- **Download** - extends BlobArchive with `downloadOneDocument`: the job, the
  page, the PDF it may link, and for each format crawl result, archive call,
  reference and counters, then availability, import log and the job's end, each
  statement an action that may fail; the catch block is `Abort`. `Relist` is
  discovery's update of the same row. The selection of documents is left out.
- **Discovery** - `runDiscovery`: pages in the order of the crawl, the
  checkpoint (truncated, then written, before the page's documents are stored),
  the job's row, the urls seen, resumption from checkpoint or latest job, and
  the signal handler, whose update of the row runs beside the crawl. `signalled`
  is a history variable. The site does not change during a crawl. The page
  limit, the choice of categories and the import log's rows are left out.
- **IngestRun** - extends Publication with one CLI process: `run` and
  `republishFromArchive`, the row of `ingest_jobs`, the loop over the acts, the
  counters and the audit rows of failures. What happens to one act is
  Publication's worker. Each statement may fail, and may have been carried out
  although its answer is lost; `Killed` ends the process anywhere and `Fetch` or
  `Republish` starts the next. `run.base` (versions before) is a history value.
- **ParsedTree** - the parser as a machine over the lines of a document, an
  action for each branch of its loop. A line is its kind, the number it names,
  the path below it and what it says. A node's text is the set of the lines it
  was put together from, whose order and words the document gives. `AppendText`
  leaves a line out whose words the text includes already; that test, over the
  characters of the joined lines in the code, is the parameter `Includes`.
- **PublicationGate** - the checks of the tree (`assessParseConfidence`,
  `evaluateVersionStructure`, `assessPublicationGate`), and the reference they
  are compared with: a reader who keeps his place in the document but no tree
  (`Standing`, `Place`, `InArticle`, `HasPlace`, `NamedTwice`), and who can tell
  whether a line repeats what is said under it before (`SaidBefore`).
- **HttpClients** - the engine's downloader and the crawler's client, which
  share their shape: a request of several attempts, each a chain of redirects.
  Time is what is left of the limiter's interval and of a pause; `since` is a
  history variable.
- **LegacyMigration** - `migrate-legacy-tore-data` and `backfill-citation-index`
  with `--commit`, next to the ingest, whose publication is the one step of
  CorpusHistory. A document's transaction is one action, refused by a missing
  archive or a constraint, or rolled back by an error; the backfill's queries
  and upserts are actions of their own. A locator is a base and, where that is
  taken, the article's id. The mapping of types and the parsing of dates are
  data; the legacy tables are constants and do not change between runs.
- **MC...** - instances for TLC. **...Proofs** - theorems.

Modelled together, deliberately: in Publication the parse and the gate, pure
functions and there the one constant `Parsed` (ParsedTree and PublicationGate say
what they compute); nodes and citations of a commit; the second look `placeholderDocument` takes
before it creates (the insert that follows is a step, and decides). Left out:
titles, texts, ids other than keys, log lines.

## Runs

| run | instance | what it shows |
|---|---|---|
| publication_race | 2 workers, 1 act, 2 bytes, 2 builds, 2 clock readings | types, one current version, documents in force, nodes and citations, what may become of a version, refinement of CorpusHistory |
| publication_liveness | 2 workers, 3 bytes of which one is refused | every run ends |
| ingest_run | 3 runs of up to 2 acts, killed and failing anywhere, fetching or republishing, dry or not | counters and job row agree with the corpus; reviews: no copies, none reopened, publishing closes them |
| archive_failures | 3 workers, 2 hashes, 1 failure, fair | only whole, indexed bytes are parsed; records have files; whole bytes stay; unless something fails, bytes handed to the store get archived |
| archive_restart | 1 worker, 1 failure | **violation**: a stop in a write poisons the hash |
| parsed_tree | every document of up to 5 lines out of 13 | the structure can fail by clashing locators only; a document is accepted exactly when its lines say so; in what is accepted each line is in its place, but those whose words the provision's earlier lines include and those that have no place (before the first article, or between the heading of a chapter or an annex and the next article) |
| http_clients | each client, 4 URLs, 5 redirects, 3 or 4 attempts, fair | nothing forbidden is fetched, the crawler keeps its pace, attempts start over, requests end |
| retrieval_race | 2 acts, 2 bytes, 2 builds, 11 requests | answers are of versions current during the request, documents are one text, as-of answers hold, a valid citation is unambiguous |
| retrieval_node | the node requests | **violation**: a node id returns superseded law as current |
| download_faults | 2 processes, 1 document, 2 jobs, 2 faults of any kind but fsync, fair | catalogued files are whole, never change and are what references point to; a completed job has recorded what it counts; availability is backed by an archived format; every job ends if nothing fails |
| discovery_resume | 1 process run again and again, 2 jobs, 2 faults or signals, fair | a completed job has skipped nothing; counters never exceed the results; the crawl completes |
| migration | each script twice, 3 legacy documents of 2 acts, 1 fault, ingest of one of the acts | each article has its node; a clean report means all is migrated; nothing superseded is revived; the backfill completes what others left |

**Bounds.** Two workers are enough for the races on a row, as every guard
compares a worker with one other; three in the archive, where one writes while
one creates the record and one reads. Two bytes and two builds give every
relation between successive versions: other bytes, the same bytes by another
build (a canonicalization), bytes that one build refuses and the other accepts,
and a return to earlier bytes. The parsed dates 1 and 2 against clock readings 1
and 2 include a version that takes effect after the moment it is closed, whose
update the code refuses. The version table is finite by itself: bytes and build
are enacted at most once. Reviews grow only when a new one is found missing, so
they are finite with one worker; with two, one copy for each worker and bytes is
the most. `MaxRuns` and `MaxActs` bound the CLI: the second run meets what a
killed one left, the third a review that was closed, and two acts are the least
for a loop in which one fails and the next does not. `MaxFailures` and
`MaxAuthorities` bound failures and the length of an answer. `MaxFaults`, `MaxJobs` and `MaxRuns` bound the faults, jobs and script
runs of a behaviour: two faults let one hit what another left, two jobs are two
downloads of one document or a crawl resumed next to a new one, and the second
run of a script is the one that meets the first's rows. The legacy documents of
the migration are chosen for its cases: two articles with one number, a missing
number, a closed and an open version of the act the ingest publishes too, an
archive that comes later than its document. `MaxLines`: five lines are enough
for two articles with a numbered line each and one that returns to the first,
and for a sub-clause below a clause that has been left; the lines include both
styles of numbering, a chapter, an annex and an article with a spelled and
inserted number. Lines say one or two words that are in each other, in the heading
of their article, or in two of its lines together, so that a line is dropped for each
of these reasons, and is kept again in another provision. `MaxRedirects` is that of the code; three attempts of the
crawler and four of the engine have pauses of 1, 2 and 4 ticks on both sides of
the interval of 2 or 3, and a further one would repeat the longest case. Workers
are symmetric in publication_race only, whose properties name none; no liveness
is checked under symmetry.

**Fairness.** In Publication it is strong for each worker's next step: four
steps wait for a row of another transaction, may be enabled and disabled as
others come and go, and PostgreSQL serves its lock queue in order. In the
archive and in Download nothing waits and weak fairness, a process that keeps
running, is enough. In Discovery it is weak for each process's steps, for the
handler's, and for beginning again with `--resume`: the crawl completes if
somebody resumes it. In HttpClients it is weak for time and for the client's
step: a fetch is answered or times out, and nobody has to ask. Elsewhere nothing
makes time pass; faults, signals, `Killed` and `Abandon` are never required.
IngestRun, ParsedTree, Retrieval and LegacyMigration state no liveness. Deadlock is
checked everywhere but where the system comes to rest: discovery_resume, when
the crawls are completed, migration, when the scripts have been run, ingest_run,
after the last run, and parsed_tree, where a document ends.

## Findings

1. `LocalFilesystemByteStore.writeIfAbsent` takes an existing file for the same
   bytes. After a stop in the middle of a write the next store of the bytes
   creates the record of a partial file; reading it back fails the hash check of
   every later ingest (archive_restart), although the storage says its bytes
   survive a restart. What is not lost: no such bytes are ever parsed
   (ParsedBytesAreArchived, proved).
2. `POST /v1/retrieve` by `nodeId` without `asOf` returns nodes of superseded
   versions (retrieval_node); README.md:77 promises the current snapshot. Every
   other kind of request keeps that promise (CurrentByDocumentOrCitation).

Also seen, and not stated by a run:

*Archives and scripts.* `LocalBlobStore.writeExclusive` unlinks the file when
`handle.sync()` fails (local-blob-store.ts:94), also when another put has
meanwhile found it, compared it and returned `reused: true`, which
local-blob-store.test.ts:29-37 expects of an immutable blob; the catalogue row
then points at nothing. download_faults leaves a failing fsync out: with "sync"
in `MostFaults`, `CatalogIsWhole` is violated. `migrate-legacy-tore-data` creates
its audit row in every transaction, while the script and
docs/architecture/legal-data-identity.md:31 call every write an upsert:
`RerunDuplicatesNothing` does not hold of LegacyMigration. If the migration
creates the source row of the ingest first, `ensureSource` fails on its unique
key and no ingest can run. A migrated version with a higher number than the
ingest's is returned as current, whatever its interval.

*Ingest.* With two processes, `ReviewSave` writes PENDING over a review another
process has accepted meanwhile (the review properties are therefore stated for
one process). Bytes the source returns to are "unchanged"; an act with a future
date cannot be updated before it. `markRunning` stands before the try block: if it
fails the job stays PENDING. Law ids given twice are ingested twice.

*Parser.* The comment at legalinfo-html.parser.ts:200-202 speaks of the current
article; the code looks for paragraph N in article N wherever the document has one
and in the current article only otherwise. A spelled article heading loses its
inserted number. The annex heading needs `\b` after a Cyrillic letter, which the
expression does not see, so an ordinary annex heading is not recognised; two that
are recognised in one chapter always clash, as both are numbered by the children
of the root. `appendText` compares characters: a note that is there twice, or "5"
after "15", is dropped from a provision, and nothing in the version that the gate
accepts shows it. Text between a chapter or annex heading and the next article, and
before the first article, is dropped as well; `TextIsInPlace` says of both which
lines they are. A container made for a deeper line has no text, which
the citation round trip of the evaluation reports of laws the gate accepts.

*HTTP.* The README (line 97) speaks of rate-limited access with 4000 ms; the
engine's limiter spaces downloads, its redirects and attempts follow each other
at once. The engine tries `maxRetries` times again, the crawler `maxRetries` times
in all, and only the crawler retries a broken connection. The limiter is replaced
after robots.txt, so the first fetch after it does not wait.

*Crawler.* Two runs on one job overwrite each other's counters, so that
`NothingIsSkipped` fails for two (the run has one); a stop loses the counts of
what the resumed run skips as seen.

## Proofs

Each theorem holds for every value of the constants that the named assumptions
of the modules allow.

| module | shows |
|---|---|
| CorpusTablesProofs | intervals: closed-disjoint implies range-disjoint, one instant is covered by overlapping versions only, adjacent versions are where the two notions differ; rows: the next number is fresh and contiguous, a publication keeps `HasHistory` |
| PublicationProofs | `TypeOK`, `OneCurrentVersion`, `NumbersContiguous`, `InForceMeansPublished`, `VersionsOnlySuperseded`, `EveryNodeIsCited`, `ReparseInventsNoDates`, and `Spec => ImplementsHistory` |
| RetrievalProofs | `OneCurrentVersion` and `NumbersContiguous` of the abstract history; `CurrentByDocumentOrCitation`, `AsOfAnswersHold`, `DocumentAnswerIsOneText`, `ValidIsUnambiguous` |
| IngestRunProofs | `CountersMatchCorpus`, `SucceededIsComplete`, `OneOpenReviewPerBytes`, `ReviewsFollowPublication`, and `RunSpec => ImplementsHistory` |
| FetchArchiveParseProofs | HTTP: `OnlyPermittedIsFetched`, `FetchesAreSpaced`, `AttemptsStartOver`; archive: `TypeOK`, `ParsedBytesAreArchived`, `RecordHasFile`, `WholeForEver`; parser and gate: `ClashIsTheOnlyFault`, `TextIsInPlace`, `VerdictFollowsLines`, and the places the parser keeps (three components without common state, in one module) |
| DownloadProofs | `TypeOK`, `CompletedIsRecorded`, `CountersMatchResults`, `AvailabilityIsBacked`; `Immutable` and `CatalogIsWhole` if no fsync fails |
| DiscoveryProofs | `TypeOK`, `CountersAreBacked` for any number of processes, `NothingIsSkipped` for one at a time |
| LegacyMigrationProofs | `TypeOK`, `NothingIsRevived`, `EveryArticleHasItsNode`, `CleanRunMigratesAll`, `BackfillCompletes` |

**Publication.** None of the invariants is inductive: that a commit is right
depends on what the transaction read many statements before. `IInv` adds for
each job what its stage has established (`JobSound`). The core is `Listed`: the
listed versions are those of the document, *or* a committed version has the
number the transaction computed. Any commit on the document turns the first case
into the second or keeps the second. At `InsertVersion` the unique key (document,
number) excludes the second case, so the list is up to date (`AllowedIsFresh`),
and from the write of the document's row on no one else commits on it
(`Exclusive`), so it still is at `Commit`: the commit is `History!Publish`.
`EnactedHasHistory` then carries `HasHistory`, from which the invariants
follow. `HasHistory` says that a document with versions has a published one,
because the next number (a maximum plus one) is only then defined. A node or a
citation is only ever written with the version of its key, which is new, so that
`EveryNodeIsCited` can be lost by a commit alone.

**Retrieval.** `ReadInv` rests on what becomes of a committed row (`Held`): it is
superseded at most once, from an open end, and keeps everything else. So what an
earlier query has read stays true of the row with the same key (`Backed`), and an
answer is good when it is added (`Good`) for as long as it is kept. `Windows`
ties the history variables to the corpus: all that is published now is in
`current`, and `steady` is published now. A verdict is VALID when its node is the
only one found, and nothing published throughout was missed (`Covers`): that is
`ValidIsUnambiguous`.

**Ingest run.** `RunInv` adds to `IInv` of Publication: the one worker works
exactly while the run is at an act (`OneActAtATime`); acts to come, in hand and
reported add up to those found (`Tally`); SUCCEEDED is written only when none is
left (`JobFollowsRun`); and what the worker has read of the reviews is so until it
writes (`OwnReviews`). The last needs the one process of the instance: with two
it is false, and so are the review properties (see "Also seen"). A step of the run
is a step of its worker or leaves the version rows alone, so that the run, too,
implements the history (`StepIsPublication`).

**Archive.** `IInv` says what each stage has made sure of: a republishing run
that stores again has found the file whole, so that its unchecked second read is
safe; records and whole files only accumulate (`NextGrows`).

**Parser.** `TreeInv` says that each node but the root stands under an earlier
one of a type it may stand under (`Grown`), and that the four current provisions
are nodes of their types. Each branch builds on nodes of the tree as it was, and
`makeNode`, `appendText` and `ensure...` keep both (`MakeNode_Grown`,
`AppendText_Grown`, ...). A cycle would be a set of nodes whose parents are in it;
its least element has an earlier parent, so there is none. What is left of the
evaluation's verdict is the clash of locators. This holds for documents of any
lines and any length.

**Gate.** `TextIsInPlace` and `VerdictFollowsLines` compare the tree, which the
parser changes line by line, with a reader who is defined by a recursion over the
whole document. `GateInv` ties the two together: `Clash(nodes)` is equivalent to
`NamedTwice`, and as long as there is no clash, `Placed` holds: two nodes never have
one locator; the current provisions hang one below the other and are where the
reader stands; the articles and the paragraphs a line "n." has opened are those the
reader has met; every place he has been at is a node, and every node but the root
was named by a line; a node's text is the set of lines whose place it is, less
those whose words its earlier ones include; and children of the root are counted as the lines that open one (annexes are numbered by
that count). After a clash only the equivalence is claimed, and it stays: nodes keep
their locators (`Extends`), and places already passed do not change.
That last fact is what induction over the document would show. Two least elements
replace it: two recursions that agree on what a place is made of agree everywhere,
since otherwise there is a first line where they do not (`Follows_Agree`); and the
recursion has a value for each length, since otherwise there is a shortest one
without (`Follows_Exist`). The step is then one line at a time: `Place` of
the new line from `Standing` before it, and for each branch of the loop what it
makes current, which locators it adds and where its words go. The reader looks a
heading up among the earlier lines and the parser among its nodes; `ListsAgree` is
why they find the same. Whether a line repeats is decided when it is read and looks at
earlier lines only, so later ones do not change it (`Texts_Keep`), whatever `Includes`
is. A third least element, the first line of which it fails, shows that the reader has
a place exactly while an article is open (`Standing_Is`, `HasPlace_Is`). `GateInv` is not implied by the two properties and does not
hold without `TreeInv`; TLC found no violation of it on 402,234 states (all
documents of up to five lines over the 13 of the run) before it was proved.

**HTTP.** `HttpInv` has three parts: what is left of the limiter's interval and
what has passed add up to at least the interval, so a pass at 0 is late enough;
the url a request was made with is permitted and stays so, as the rules change
only with the request for robots.txt itself; before the first redirect of an
attempt the next fetch is that of the request. It holds for all hosts, rules,
delays and limits.

**Downloads.** A file under its exclusive creation has one writer, and what was
written or compared is whole (`FilesInv`); the writer alone unlinks it, before
anyone can have found it whole, unless the fsync fails. That hypothesis,
`"sync" \notin Faults`, is on the two theorems about the bytes only; without it
they are false (see "Also seen"). The rows hold with every fault: a job
that is RUNNING belongs to one process (`Owned`), whose locals agree with the job's
crawl results but for the format in hand (`Remembers`, `AtFormat`), and the
last statement before the job's end has left what the end claims (`Ending`).

**Discovery.** `BackedInv` bounds what is counted by what is there: stored is at
most the results, for the row and for every run, as the result is written before
the count. `SkipInv` is about what is claimed as done: by the checkpoint
file (`FileInv`), by a run (`ClaimInv`: completed categories, the pages
before its own, and what it has taken up of that page) and by a completed row
(`FinishedInv`). All of it has a result but for at most as many documents as were
counted as failed (`AtMost`); the order of the crawl (`OrderInv`) makes the claim
of a completed row the whole listing. A job hit by a signal is exempt, as in
the property. `SkipInv` needs one process at a time: it is false for two, which
overwrite each other's counters.

**Migration.** `TablesInv` says what the tables promise whatever the corpus held
before: keys are unique, a legacy document has one version of its bytes, and
numbers are bounded, so that the next one is fresh although migrated rows may
leave gaps. The rows then only ever change as `StepRows` says: each lives on under
its key, a superseded one unchanged, and any other row is new under its key. So
the nodes written with a version are its nodes for ever (`NodesInv`);
`SourceLocator` tells articles apart because their legacy ids do, so none
overwrites another's node. `ReportInv` carries what a run has found or written of
a document to its report. For the backfill, what it has read of a version is still so when it
writes (`IndexInv`), and a version with as many citations as nodes to cite has all of
them (`CountSuffices`): each citation is of a node, and no two are of the same.

**The assumptions.** Acts, bytes and builds exist (`ActsAssumption`,
`ArchiveAssumption`, `BlobAssumption`); the parser returns a well-formed result
whose tree has its root (`ParsedAssumption`) and finitely many nodes
(`TreesAssumption`); clock readings are instants (`TimesAssumption`); requests are
of the forms the API takes (`RequestsAssumption`); there is one ingest process
(`RunAssumption`); a line of a numbered kind has its numbers (`LinesAssumption`; of what
lines say and of the test `Includes` nothing is assumed);
robots.txt is on an allowed host and not disallowed, and there is a delay and an
attempt (`HttpAssumption`); an archived page is bytes, and the marks for "no
object" are not (`BlobAssumption`, `DownloadAssumption`); the pages of a category
are those before the first empty one (`DiscoveryAssumption`); legacy documents and
their articles have ids of their own, and the bytes of a document are in the list
of its archive once (`LegacyAssumption`: the ids are the keys of the
legacy tables, the rest is what the script relies on when it takes a version of the
same bytes for its own).

**Only model-checked.** `EveryRunEnds`, `BytesGetArchived`, `EveryJobEnds`,
`CrawlCompletes` and `EveryRequestEnds`: liveness is out of the prover's reach.
Every safety invariant and every action property that a passing run checks is also
a theorem.

## Not modelled

- `specialLawReasons` (publication-gate.ts): a table of expected counts for ten
  known laws. It is data, and without their texts nothing can contradict it.
- The regular expressions of the parser and of the citation normaliser, the
  extraction of lines from HTML, `normalize`: functions on characters. What the
  parser's expressions can tell of a line is the set `Line`.
- The citation round trip, the corpus report and the audit scripts read rows and
  print; their searches are on text.
- `runDownload` and the filters of discovery choose documents by columns of the
  listing; the models let any choice happen.
- `ssrf.ts` and the header, size and type checks of both clients: predicates on
  one response, `Refuse` and `Answer` stand for either outcome.
- Authentication, environment, contracts: checks of one request or start.
- S3 and Azure stores, workers, the API and parser apps: stubs.

## Plan

Done: all the modules above, their runs, and proofs of every safety property the runs check. Left: two CLI processes in
IngestRun, each with a job of its own, once it is settled what a review reopened
between them should be.
