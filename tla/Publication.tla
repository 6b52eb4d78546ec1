------------------------------ MODULE Publication ------------------------------
(***************************************************************************)
(* The ingest of LegalInfo acts into the corpus database                   *)
(* (src/src/application/ingest/ingest-legalinfo.service.ts), by processes  *)
(* that run at the same time on one PostgreSQL database.                   *)
(*                                                                         *)
(* One worker is one run of the CLI working on one act: it archives the    *)
(* bytes, parses them, and takes one of three ways: it asks for a review   *)
(* (statements of their own, no transaction), it stops (dry run), or it    *)
(* publishes in one transaction.  PrismaUnitOfWork opens the transaction   *)
(* at PostgreSQL's default level, READ COMMITTED: each statement sees the  *)
(* rows committed before it, and the transaction's own writes; an update   *)
(* or a conflicting insert waits for the transaction that has the row.     *)
(* Each statement whose place in the interleaving matters is an action.    *)
(***************************************************************************)
EXTENDS CorpusTables, Sequences, FiniteSets

CONSTANT Workers    \* ingest processes that share the database

ASSUME ActsAssumption == Documents # {} /\ Hashes # {} /\ Parsers # {}

VARIABLES
    docs,       \* legal_documents: the status of each canonical URL, or Absent
    versions,   \* legal_document_versions
    nodes,      \* legal_nodes: [doc, number, locator]
    citations,  \* citation_entries: [doc, number, locator], all VALID
    reviews,    \* parse_reviews of each document, in the order of createdAt
    archives,   \* archive_records, by hash
    clock,      \* the time new Date() returns
    work        \* what each worker is doing

vars == <<docs, versions, nodes, citations, reviews, archives, clock, work>>
database == <<docs, versions, nodes, citations, reviews, archives>>

Absent == "ABSENT"
DocStatus == {Absent, "DRAFT", "IN_FORCE"}

NodeRow == [doc: Documents, number: Nat, locator: Locators]
Review  == [hash: Hashes, status: {"PENDING", "ACCEPTED"}]

\* The stages of a worker: the statements of its run that are still to come.
\* In the Locking ones its transaction has written the document's row.
Reviewing == {"findOrCreate", "placeholder", "listReviews", "saveReview"}
Locking == {"insertVersion", "acceptReviews", "commit"}
Publishing == {"findDocument", "findSame", "listVersions", "supersede",
               "saveDocument"} \cup Locking
Stages == {"idle", "archive", "assess"} \cup Reviewing \cup Publishing

(***************************************************************************)
(* The variables of a run of ingestOne or republishFromArchive.            *)
(*   existing: the document was there when the transaction looked for it   *)
(*   seen:     the versions it listed                                      *)
(*   now:      the time it took for the intervals it closes                *)
(*   closed:   its uncommitted updates of versions                         *)
(*   pending:  the places of the review it will save, or has accepted      *)
(***************************************************************************)
Job == [stage: Stages, doc: Documents, hash: Hashes, parser: Parsers,
        dryRun: BOOLEAN, existing: BOOLEAN, seen: SUBSET Version,
        now: Instant, closed: SUBSET Version, pending: SUBSET Nat]

TypeOK ==
    /\ docs \in [Documents -> DocStatus]
    /\ versions \subseteq Version
    /\ nodes \subseteq NodeRow
    /\ citations \subseteq NodeRow
    /\ reviews \in [Documents -> Seq(Review)]
    /\ archives \subseteq Hashes
    /\ clock \in Times
    /\ work \in [Workers -> Job]

NewJob(d, h, p, dry) ==
    [stage |-> "archive", doc |-> d, hash |-> h, parser |-> p, dryRun |-> dry,
     existing |-> FALSE, seen |-> {}, now |-> 0, closed |-> {}, pending |-> {}]

\* Nothing of a run outlives it, so an idle worker's job is always this one.
Idle == [NewJob(CHOOSE d \in Documents : TRUE, CHOOSE h \in Hashes : TRUE,
                CHOOSE p \in Parsers : TRUE, FALSE) EXCEPT !.stage = "idle"]

Init ==
    /\ docs = [d \in Documents |-> Absent]
    /\ versions = {} /\ nodes = {} /\ citations = {}
    /\ reviews = [d \in Documents |-> <<>>]
    /\ archives = {}
    /\ clock \in Times
    /\ work = [w \in Workers |-> Idle]

-----------------------------------------------------------------------------
(* Steps of a worker.                                                      *)

At(w, stage) == work[w].stage = stage

Goto(w, stage) == work' = [work EXCEPT ![w].stage = stage]

\* The run is over: it returns an outcome, or its error reaches run(), which
\* counts a failure.  An open transaction is rolled back: its writes are only
\* in the job.
Finish(w) == work' = [work EXCEPT ![w] = Idle]

(***************************************************************************)
(* The CLI takes up an act and downloads it.  The source may serve any of  *)
(* its bytes, also ones it served before, so h is any hash.                *)
(***************************************************************************)
Start(w, d, h, p, dry) ==
    /\ At(w, "idle")
    /\ work' = [work EXCEPT ![w] = NewJob(d, h, p, dry)]
    /\ UNCHANGED <<database, clock>>

\* archive.store and the check of the stored bytes, dry run or not
\* (ArchiveStore.tla has the steps in between).
Archive(w) ==
    /\ At(w, "archive")
    /\ archives' = archives \cup {work[w].hash}
    /\ Goto(w, "assess")
    /\ UNCHANGED <<docs, versions, nodes, citations, reviews, clock>>

(***************************************************************************)
(* Parsing, publication gate and confidence.  A refused act goes to        *)
(* review even in a dry run; an accepted one is published unless it is a   *)
(* dry run.                                                                *)
(***************************************************************************)
Assess(w) ==
    LET j == work[w] IN
    /\ At(w, "assess")
    /\ \/ /\ ~Parsed[<<j.hash, j.parser>>].ok
          /\ Goto(w, "findOrCreate")
       \/ /\ Parsed[<<j.hash, j.parser>>].ok /\ j.dryRun
          /\ Finish(w)
       \/ /\ Parsed[<<j.hash, j.parser>>].ok /\ ~j.dryRun
          /\ Goto(w, "findDocument")
    /\ UNCHANGED <<database, clock>>

-----------------------------------------------------------------------------
(* retainOrCreateReview: three statements, each committed by itself.       *)

\* An uncommitted insert of the document's row by another worker.
InsertPending(w, d) ==
    \E x \in Workers \ {w} :
        work[x].stage \in Locking /\ work[x].doc = d /\ ~work[x].existing

(***************************************************************************)
(* The document of the review, or a DRAFT placeholder for it.              *)
(* placeholderDocument looks for the document again before it creates one; *)
(* what the second look sees decides, so the two are one read here, and    *)
(* the insert is the next statement (ReviewPlaceholder).                   *)
(***************************************************************************)
ReviewDocument(w) ==
    /\ At(w, "findOrCreate")
    /\ IF docs[work[w].doc] # Absent
       THEN Goto(w, "listReviews")
       ELSE Goto(w, "placeholder")
    /\ UNCHANGED <<database, clock>>

\* A placeholder saved by upsert on the URL.
ReviewPlaceholder_Upsert(w) ==
    /\ At(w, "placeholder")
    /\ ~InsertPending(w, work[w].doc)
    /\ docs' = [docs EXCEPT ![work[w].doc] = "DRAFT"]
    /\ Goto(w, "listReviews")
    /\ UNCHANGED <<versions, nodes, citations, reviews, archives, clock>>

\* The insert waits for another's insert of the same URL, and fails on the
\* unique (source, URL) when that has committed.
ReviewPlaceholder(w) ==
    LET d == work[w].doc IN
    /\ At(w, "placeholder")
    /\ ~InsertPending(w, d)
    /\ \/ /\ docs[d] = Absent
          /\ docs' = [docs EXCEPT ![d] = "DRAFT"]
          /\ Goto(w, "listReviews")
       \/ /\ docs[d] # Absent
          /\ Finish(w)
          /\ UNCHANGED docs
    /\ UNCHANGED <<versions, nodes, citations, reviews, archives, clock>>

\* The places of d's pending reviews of bytes h.
PendingAt_AnyStatus(d, h) == {k \in DOMAIN reviews[d] : reviews[d][k].hash = h}

PendingAt(d, h) ==
    {k \in DOMAIN reviews[d] :
        reviews[d][k].status = "PENDING" /\ reviews[d][k].hash = h}

\* Saves a new review without looking for a pending one.
ReviewList_NotLooking(w) ==
    /\ At(w, "listReviews")
    /\ Goto(w, "saveReview")
    /\ UNCHANGED <<database, clock>>

\* reviews.find: the first pending review of these bytes, if there is one.
ReviewList(w) ==
    LET j == work[w]
        found == {k \in PendingAt(j.doc, j.hash) :
                    \A i \in PendingAt(j.doc, j.hash) : k <= i}
    IN  /\ At(w, "listReviews")
        /\ work' = [work EXCEPT ![w].stage = "saveReview", ![w].pending = found]
        /\ UNCHANGED <<database, clock>>

\* A transaction that has accepted the review has its row.
ReviewLocked(w, d, k) ==
    \E x \in Workers \ {w} :
        At(x, "commit") /\ work[x].doc = d /\ k \in work[x].pending

(***************************************************************************)
(* Save the review that was found, or a new one: either way it is PENDING, *)
(* whatever has become of the found one since it was listed.               *)
(***************************************************************************)
ReviewSave(w) ==
    LET j == work[w]
        pending == [hash |-> j.hash, status |-> "PENDING"]
    IN  /\ At(w, "saveReview")
        /\ \A k \in j.pending : ~ReviewLocked(w, j.doc, k)
        /\ reviews' = [reviews EXCEPT ![j.doc] =
                IF j.pending = {} THEN Append(@, pending)
                ELSE [k \in DOMAIN @ |-> IF k \in j.pending THEN pending ELSE @[k]]]
        /\ Finish(w)
        /\ UNCHANGED <<docs, versions, nodes, citations, archives, clock>>

-----------------------------------------------------------------------------
(* publish: one transaction.                                               *)

\* Another transaction has written the row of document d.
DocumentLocked(w, d) ==
    \E x \in Workers \ {w} : work[x].stage \in Locking /\ work[x].doc = d

\* Another transaction has updated version v.
VersionLocked(w, v) ==
    \E x \in Workers \ {w} : \E u \in work[x].closed : SameRow(u, v)

\* The version this transaction adds, from what it has listed.
Added(j) == NewVersion(j.doc, j.seen, j.hash, j.parser)

\* What its statements see of legal_document_versions.
Visible(j) == Overlaid(versions, j.closed)

\* documents.findBySourceAndCanonicalUrl.  A new document has no versions to
\* list, and persistWith saves it next.
FindDocument(w) ==
    /\ At(w, "findDocument")
    /\ IF docs[work[w].doc] # Absent
       THEN work' = [work EXCEPT ![w].stage = "findSame", ![w].existing = TRUE]
       ELSE Goto(w, "saveDocument")
    /\ UNCHANGED <<database, clock>>

\* A version of these bytes by this build, published or superseded, makes the
\* ingest report "unchanged".
FindSame(w) ==
    LET j == work[w] IN
    /\ At(w, "findSame")
    /\ IF HasVersion(versions, j.doc, j.hash, j.parser)
       THEN Finish(w)
       ELSE Goto(w, "listVersions")
    /\ UNCHANGED <<database, clock>>

ListVersions(w) ==
    /\ At(w, "listVersions")
    /\ work' = [work EXCEPT ![w].stage = "supersede",
                            ![w].seen = VersionsOf(versions, work[w].doc),
                            ![w].now = clock]
    /\ UNCHANGED <<database, clock>>

\* The listed published versions the transaction has yet to supersede.
ToSupersede_Any(j) == {v \in j.seen : \A u \in j.closed : ~SameRow(u, v)}

ToSupersede(j) ==
    {v \in PublishedOf(j.seen) : \A u \in j.closed : ~SameRow(u, v)}

(***************************************************************************)
(* Save the next published version as superseded, with the values listed   *)
(* before: versions.save asserts its interval, then waits for the row.     *)
(***************************************************************************)
Supersede(w) ==
    LET j == work[w] IN
    /\ At(w, "supersede")
    /\ \E v \in ToSupersede(j) :
          LET u == Superseded(v, Canonicalization(j.seen, j.hash, j.parser), j.now) IN
          /\ \A x \in ToSupersede(j) : v.number <= x.number
          /\ \/ /\ ~IntervalAccepted(u)
                /\ Finish(w)
             \/ /\ IntervalAccepted(u)
                /\ ~VersionLocked(w, v)
                /\ work' = [work EXCEPT ![w].closed = @ \cup {u}]
    /\ UNCHANGED <<database, clock>>

\* persistWith lists the versions again and refuses an overlap.
CheckOverlap(w) ==
    LET j == work[w] IN
    /\ At(w, "supersede")
    /\ ToSupersede(j) = {}
    /\ IF VersionsDoNotOverlap(VersionsOf(Visible(j), j.doc) \cup {Added(j)})
       THEN Goto(w, "saveDocument")
       ELSE Finish(w)
    /\ UNCHANGED <<database, clock>>

\* documents.save: an update by id of a document that was found, an insert of
\* one that was not, which fails if its URL has been taken since.
SaveDocument(w) ==
    LET j == work[w] IN
    /\ At(w, "saveDocument")
    /\ \/ /\ j.existing \/ docs[j.doc] = Absent
          /\ ~DocumentLocked(w, j.doc)
          /\ Goto(w, "insertVersion")
       \/ /\ ~j.existing /\ docs[j.doc] # Absent
          /\ Finish(w)
    /\ UNCHANGED <<database, clock>>

\* A transaction that tries again the insert that was refused.
InsertVersion_Retries(w) ==
    /\ At(w, "insertVersion")
    /\ ConstraintsAllow(Visible(work[w]), Added(work[w]))
    /\ Goto(w, "acceptReviews")
    /\ UNCHANGED <<database, clock>>

\* versions.save: the constraints of the table decide.
InsertVersion(w) ==
    LET j == work[w] IN
    /\ At(w, "insertVersion")
    /\ IF ConstraintsAllow(Visible(j), Added(j))
       THEN Goto(w, "acceptReviews")
       ELSE Finish(w)
    /\ UNCHANGED <<database, clock>>

\* Accepts reviews of documents it has created only.
AcceptReviews_NewOnly(w) ==
    LET j == work[w] IN
    /\ At(w, "acceptReviews")
    /\ work' = [work EXCEPT ![w].stage = "commit",
            ![w].pending = IF j.existing THEN {} ELSE PendingAt(j.doc, j.hash)]
    /\ UNCHANGED <<database, clock>>

\* acceptPendingReviews: those of these bytes, and any if it is the only one.
AcceptReviews(w) ==
    LET j == work[w]
        only == {k \in DOMAIN reviews[j.doc] :
                    /\ Len(reviews[j.doc]) = 1
                    /\ reviews[j.doc][k].status = "PENDING"}
    IN  /\ At(w, "acceptReviews")
        /\ work' = [work EXCEPT ![w].stage = "commit",
                                ![w].pending = PendingAt(j.doc, j.hash) \cup only]
        /\ UNCHANGED <<database, clock>>

(***************************************************************************)
(* The rows of nodes and citations, as the transaction leaves them.        *)
(* replaceForVersion deletes those of the version and creates a row for    *)
(* each node of the tree; publishCitations then cites each node it finds,  *)
(* the DOCUMENT node apart.  No other worker's rows are touched, so the    *)
(* statements are taken together.                                          *)
(***************************************************************************)
OfVersion(row, v) == row.doc = v.doc /\ row.number = v.number

ReplaceForVersion(tables, v) ==
    [nodes     |-> {n \in tables.nodes : ~OfVersion(n, v)} \cup
                   {[doc |-> v.doc, number |-> v.number, locator |-> l] :
                        l \in Parsed[<<v.hash, v.parser>>].tree},
     citations |-> {c \in tables.citations : ~OfVersion(c, v)}]

PublishCitations(tables, v) ==
    [tables EXCEPT !.citations = @ \cup
        {n \in tables.nodes : OfVersion(n, v) /\ n.locator # Root}]

SaveTree_CitesFirst(tables, v) == ReplaceForVersion(PublishCitations(tables, v), v)

SaveTree(tables, v) == PublishCitations(ReplaceForVersion(tables, v), v)

\* The transaction ends: what it wrote becomes what the others read.
Commit(w) ==
    LET j      == work[w]
        tables == SaveTree([nodes |-> nodes, citations |-> citations], Added(j))
    IN  /\ At(w, "commit")
        /\ docs' = [docs EXCEPT ![j.doc] = "IN_FORCE"]
        /\ versions' = Visible(j) \cup {Added(j)}
        /\ nodes' = tables.nodes
        /\ citations' = tables.citations
        /\ reviews' = [reviews EXCEPT ![j.doc] =
                [k \in DOMAIN @ |-> IF k \in j.pending
                                    THEN [@[k] EXCEPT !.status = "ACCEPTED"] ELSE @[k]]]
        /\ Finish(w)
        /\ UNCHANGED <<archives, clock>>

-----------------------------------------------------------------------------
(* What may happen at any point of a run: an exception (a download, a      *)
(* parser or a database error, the transaction's timeout), or the end of   *)
(* the process.  PostgreSQL rolls an open transaction back.                *)
Abandon(w) ==
    /\ ~At(w, "idle")
    /\ Finish(w)
    /\ UNCHANGED <<database, clock>>

Tick ==
    /\ \E t \in Times : t > clock /\ clock' = t
    /\ UNCHANGED <<database, work>>

AskForReview(w) ==
    ReviewDocument(w) \/ ReviewPlaceholder(w) \/ ReviewList(w) \/ ReviewSave(w)

Publish(w) ==
    \/ FindDocument(w) \/ FindSame(w) \/ ListVersions(w) \/ Supersede(w)
    \/ CheckOverlap(w) \/ SaveDocument(w) \/ InsertVersion(w)
    \/ AcceptReviews(w) \/ Commit(w)

Proceed(w) == Archive(w) \/ Assess(w) \/ AskForReview(w) \/ Publish(w)

Next ==
    \/ \E w \in Workers :
        \/ \E d \in Documents, h \in Hashes, p \in Parsers, dry \in BOOLEAN :
                Start(w, d, h, p, dry)
        \/ Proceed(w)
        \/ Abandon(w)
    \/ Tick

Spec == Init /\ [][Next]_vars

(***************************************************************************)
(* A run that is not abandoned goes on.  Fairness is strong because of the *)
(* four steps that wait for a row another transaction has (Supersede,      *)
(* SaveDocument, ReviewPlaceholder, ReviewSave): PostgreSQL queues those   *)
(* who wait.  No worker has to start, and no time has to pass.             *)
(***************************************************************************)
Fairness == \A w \in Workers : SF_vars(Proceed(w))

FairSpec == Spec /\ Fairness

-----------------------------------------------------------------------------
(* Safety.                                                                 *)

(***************************************************************************)
(* The ingest implements the history of the corpus: each commit has the    *)
(* effect of computing the update from the rows committed at that moment,  *)
(* although the transaction listed them several statements earlier and     *)
(* other transactions committed in between (service.ts:479-575).           *)
(***************************************************************************)
History == INSTANCE CorpusHistory WITH corpus <- versions

ImplementsHistory == History!Spec

(***************************************************************************)
(* Whatever the interleaving, a document with versions has exactly one     *)
(* published version, the newest (service.ts:510-519, persistWith).        *)
(***************************************************************************)
OneCurrentVersion == History!OneCurrentVersion

(***************************************************************************)
(* Concurrent transactions that computed the same next number never both   *)
(* commit it, and one that rolls back leaves no gap (service.ts:520).      *)
(***************************************************************************)
NumbersContiguous == History!NumbersContiguous

(***************************************************************************)
(* A document is in force exactly when it has a version: the placeholder   *)
(* of a review never hides a law that another worker published, and no     *)
(* placeholder passes for one (placeholderDocument, service.ts:670-687).   *)
(***************************************************************************)
InForceMeansPublished ==
    \A d \in Documents : docs[d] = "IN_FORCE" <=> VersionsOf(versions, d) # {}

(***************************************************************************)
(* Every version that is in the table, current or not, has the nodes of    *)
(* its own parse and a citation of each but the root: replacing the nodes  *)
(* of one version deletes citations, never those just published            *)
(* (replaceForVersion, publishCitations).                                  *)
(***************************************************************************)
EveryNodeIsCited ==
    /\ \A v \in versions :
        LET tree == Parsed[<<v.hash, v.parser>>].tree IN
        /\ {n.locator : n \in {m \in nodes : OfVersion(m, v)}} = tree
        /\ {c.locator : c \in {m \in citations : OfVersion(m, v)}} = tree \ {Root}
    /\ \A n \in nodes \cup citations : \E v \in versions : OfVersion(n, v)

(***************************************************************************)
(* A committed version keeps its text, its number and its provenance; all  *)
(* that ever happens to it is to be superseded, once, when an open end may *)
(* be closed.  The update writes back every column it listed earlier, so   *)
(* a stale copy would undo another's change (service.ts:513-518).          *)
(***************************************************************************)
Preserved(v, u) ==
    /\ SameRow(u, v)
    /\ u.hash = v.hash /\ u.parser = v.parser /\ u.from = v.from
    /\ \/ u = v
       \/ /\ v.status = "PUBLISHED" /\ u.status = "SUPERSEDED"
          /\ v.to \in {Unknown, u.to}

VersionsOnlySuperseded ==
    [][\A v \in versions : \E u \in versions' : Preserved(v, u)]_vars

(***************************************************************************)
(* Parsing the same bytes again says nothing about time: when a version    *)
(* takes the place of one of the same bytes, neither of the two gets a     *)
(* bound it had not (service.ts:516, "canonicalization must not invent     *)
(* dates").                                                                *)
(***************************************************************************)
ReparseInventsNoDates ==
    [][\A v \in versions, u, n \in versions' :
        (/\ v.status = "PUBLISHED" /\ u.status = "SUPERSEDED" /\ SameRow(u, v)
         /\ n.status = "PUBLISHED" /\ n.doc = v.doc /\ n.hash = v.hash)
        => u.to = v.to /\ n.from = Unknown]_vars

(***************************************************************************)
(* Reviews, with one process at a time (and its restarts): bytes wait for  *)
(* at most one review of a document (retainOrCreateReview).                *)
(***************************************************************************)
OneOpenReviewPerBytes ==
    \A d \in Documents : \A i, k \in DOMAIN reviews[d] :
        (/\ reviews[d][i] = reviews[d][k]
         /\ reviews[d][i].status = "PENDING") => i = k

(***************************************************************************)
(* With one process at a time, a review that was accepted is never opened  *)
(* again, no review is lost, and publishing bytes closes the review they   *)
(* were waiting for (service.ts:722-739, 756-797).                         *)
(***************************************************************************)
ReviewsFollowPublication ==
    [][/\ \A d \in Documents : \A k \in DOMAIN reviews[d] :
            /\ k \in DOMAIN reviews'[d]
            /\ reviews'[d][k].hash = reviews[d][k].hash
            /\ reviews[d][k].status = "ACCEPTED" => reviews'[d][k].status = "ACCEPTED"
       /\ \A v \in versions' \ versions : v.status = "PUBLISHED" =>
            \A k \in DOMAIN reviews'[v.doc] :
                reviews'[v.doc][k].hash = v.hash => reviews'[v.doc][k].status = "ACCEPTED"]_vars

-----------------------------------------------------------------------------
(* Liveness.                                                               *)

(***************************************************************************)
(* Every run ends: no two transactions wait for each other's rows, and     *)
(* none that lost the race tries for ever (uow.run, service.ts:479).       *)
(***************************************************************************)
EveryRunEnds == \A w \in Workers : ~At(w, "idle") ~> At(w, "idle")
=============================================================================
