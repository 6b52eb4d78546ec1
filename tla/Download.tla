------------------------------- MODULE Download -------------------------------
(***************************************************************************)
(* The crawler's download of one document (downloadOneDocument): its page, *)
(* and the PDF the page links to.  Job, crawl results, references,         *)
(* availability and import log are written by statements of their own;     *)
(* several processes may download the same document.                       *)
(***************************************************************************)
EXTENDS BlobArchive, Sequences

CONSTANTS
    Pages,          \* the hashes that are of pages; the others are of PDFs
    LinksPdf,       \* the pages with a PDF source (extractPdfSource)
    MaxJobs         \* bound on the jobs of a behaviour

\* A crawl result that was never created; None is one without an object.
Missing == "missing"

ASSUME DownloadAssumption ==
    /\ Pages \subseteq Hashes /\ LinksPdf \subseteq Pages /\ MaxJobs \in Nat
    /\ Missing \notin Hashes \cup {None}

BytesOf(k) == IF k = "html" THEN Pages ELSE Hashes \ Pages

VARIABLES
    jobs,           \* crawl_jobs, in the order of creation, each with the
                    \* object of its crawl result for each format
    pdfAvailable,   \* documents.metadata_json.pdfAvailable
    logs,           \* import_logs
    run             \* what each process is doing

downloadVars == <<jobs, pdfAvailable, logs, run>>
vars == <<file, catalog, slot, put, faults, jobs, pdfAvailable, logs, run>>

Objects == Hashes \cup {None}
JobRow  == [doc: Documents, status: {"RUNNING", "COMPLETED", "FAILED"},
            downloaded: Nat, failed: Nat,
            result: [Kinds -> Objects \cup {Missing}]]
Log     == [doc: Documents, html: Objects, pdf: Objects]

(***************************************************************************)
(* A run's locals: its job's number, the format it is at, the bytes of the *)
(* response (None: unusable), what it archived, its counters.              *)
(***************************************************************************)
Stages == {"idle", "fetch", "result", "archive", "archiving", "availability",
           "log", "finish", "abort"}
Run == [stage: Stages, doc: Documents, job: Nat, kind: Kinds, response: Objects,
        html: Objects, pdf: Objects, downloaded: Nat, failed: Nat]

NewRun(stage, d, j) ==
    [stage |-> stage, doc |-> d, job |-> j, kind |-> "html", response |-> None,
     html |-> None, pdf |-> None, downloaded |-> 0, failed |-> 0]

NoRun == NewRun("idle", CHOOSE d \in Documents : TRUE, 0)

TypeOK ==
    /\ BlobTypeOK
    /\ jobs \in Seq(JobRow) /\ Len(jobs) <= MaxJobs
    /\ pdfAvailable \in [Documents -> {"listed", "yes", "no"}]
    /\ logs \subseteq Log
    /\ run \in [Processes -> Run]

Init ==
    /\ BlobInit
    /\ jobs = <<>>
    /\ pdfAvailable = [d \in Documents |-> "listed"]
    /\ logs = {}
    /\ run = [p \in Processes |-> NoRun]

-----------------------------------------------------------------------------
At(p, stage) == run[p].stage = stage

Goto(p, stage) == run' = [run EXCEPT ![p].stage = stage]

\* findDocument, by any of its keys, and createJob.
Begin(p, d) ==
    /\ At(p, "idle")
    /\ Len(jobs) < MaxJobs
    /\ jobs' = Append(jobs, [doc |-> d, status |-> "RUNNING", downloaded |-> 0,
                             failed |-> 0, result |-> [k \in Kinds |-> Missing]])
    /\ run' = [run EXCEPT ![p] = NewRun("fetch", d, Len(jobs) + 1)]
    /\ UNCHANGED <<blobVars, pdfAvailable, logs>>

(***************************************************************************)
(* The requests of one format, and what becomes of the response: the bytes *)
(* of a page or PDF; or, None, an error, a status other than 2xx or        *)
(* content that fails the validation.                                      *)
(***************************************************************************)
Fetch(p) ==
    /\ At(p, "fetch")
    /\ \E bytes \in BytesOf(run[p].kind) \cup {None} :
        run' = [run EXCEPT ![p].stage = "result", ![p].response = bytes]
    /\ UNCHANGED <<blobVars, jobs, pdfAvailable, logs>>

\* After the page its PDF, if the page was archived and has one.
AfterFormat(r) ==
    IF r.kind = "html" /\ r.html \in LinksPdf
    THEN [r EXCEPT !.stage = "fetch", !.kind = "pdf"]
    ELSE [r EXCEPT !.stage = IF r.html # None THEN "availability" ELSE "finish"]

\* createCrawlResult; a format without usable bytes ends here.
CrawlResult(p) ==
    /\ At(p, "result")
    /\ jobs' = [jobs EXCEPT ![run[p].job].result[run[p].kind] = None]
    /\ run' = [run EXCEPT ![p] =
                IF run[p].response = None
                THEN AfterFormat([run[p] EXCEPT !.failed = @ + 1])
                ELSE [run[p] EXCEPT !.stage = "archive"]]
    /\ UNCHANGED <<blobVars, pdfAvailable, logs>>

CallArchive(p) ==
    /\ At(p, "archive")
    /\ Archive(p, run[p].doc, run[p].kind, run[p].response)
    /\ Goto(p, "archiving")
    /\ UNCHANGED <<jobs, pdfAvailable, logs>>

\* Attaches the object to the document and leaves the crawl result alone.
AttachObject_DocumentOnly(p) == Attach(p) /\ UNCHANGED downloadVars

\* attachToDocument writes document and crawl result in one transaction.
AttachObject(p) ==
    /\ Attach(p)
    /\ jobs' = [jobs EXCEPT ![run[p].job].result[put[p].kind] = put[p].hash]
    /\ UNCHANGED <<pdfAvailable, logs, run>>

Archived(r) ==
    AfterFormat([r EXCEPT !.downloaded = @ + 1,
                          !.html = IF r.kind = "html" THEN r.response ELSE @,
                          !.pdf  = IF r.kind = "pdf" THEN r.response ELSE @])

\* What archive throws ends the run.
EndArchive_Uncaught(p) ==
    /\ At(p, "archiving")
    /\ Return(p)
    /\ run' = [run EXCEPT ![p] = IF On(p, "stored") THEN Archived(run[p]) ELSE NoRun]
    /\ UNCHANGED <<jobs, pdfAvailable, logs>>

\* archive returns or throws; everything thrown goes to the catch block.
EndArchive(p) ==
    /\ At(p, "archiving")
    /\ Return(p)
    /\ run' = [run EXCEPT ![p] = IF On(p, "stored") THEN Archived(run[p])
                                 ELSE [run[p] EXCEPT !.stage = "abort"]]
    /\ UNCHANGED <<jobs, pdfAvailable, logs>>

\* The flag says that the page links a PDF.
UpdateAvailability_Linked(p) ==
    /\ At(p, "availability")
    /\ pdfAvailable' = [pdfAvailable EXCEPT ![run[p].doc] =
                            IF run[p].html \in LinksPdf THEN "yes" ELSE "no"]
    /\ Goto(p, "log")
    /\ UNCHANGED <<blobVars, jobs, logs>>

\* updateDocumentAvailability: whatever discovery listed is overwritten.
UpdateAvailability(p) ==
    /\ At(p, "availability")
    /\ pdfAvailable' = [pdfAvailable EXCEPT ![run[p].doc] =
                            IF run[p].pdf # None THEN "yes" ELSE "no"]
    /\ Goto(p, "log")
    /\ UNCHANGED <<blobVars, jobs, logs>>

\* persistDiscoveredDocument of a changed listing, by a discovery.
Relist(d) ==
    /\ pdfAvailable' = [pdfAvailable EXCEPT ![d] = "listed"]
    /\ UNCHANGED <<blobVars, jobs, logs, run>>

WriteImportLog(p) ==
    /\ At(p, "log")
    /\ logs' = logs \cup {[doc |-> run[p].doc, html |-> run[p].html, pdf |-> run[p].pdf]}
    /\ Goto(p, "finish")
    /\ UNCHANGED <<blobVars, jobs, pdfAvailable>>

EndJob(p, status, failed) ==
    /\ jobs' = [jobs EXCEPT ![run[p].job].status = status,
                            ![run[p].job].downloaded = run[p].downloaded,
                            ![run[p].job].failed = failed]
    /\ run' = [run EXCEPT ![p] = NoRun]
    /\ UNCHANGED <<blobVars, pdfAvailable, logs>>

\* finishJob: a page is enough for COMPLETED.
Finish(p) ==
    /\ At(p, "finish")
    /\ EndJob(p, IF run[p].html # None THEN "COMPLETED" ELSE "FAILED", run[p].failed)

\* The catch block only sets the status.
Abort_Uncounted(p) == At(p, "abort") /\ EndJob(p, "FAILED", run[p].failed)

\* The catch block.
Abort(p) == At(p, "abort") /\ EndJob(p, "FAILED", run[p].failed + 1)

\* A statement of the run's own fails.  In the catch block it ends the run.
FailStatement(p) ==
    /\ MayFault("query") /\ Count
    /\ run[p].stage \in {"result", "availability", "log", "finish", "abort"}
    /\ run' = [run EXCEPT ![p] = IF At(p, "abort") THEN NoRun
                                 ELSE [run[p] EXCEPT !.stage = "abort"]]
    /\ UNCHANGED <<file, catalog, slot, put, jobs, pdfAvailable, logs>>

StopRun(p) ==
    /\ MayFault("stop") /\ Count /\ ~At(p, "idle")
    /\ run' = [run EXCEPT ![p] = NoRun]
    /\ put' = [put EXCEPT ![p] = NoCall]
    /\ UNCHANGED <<file, catalog, slot, jobs, pdfAvailable, logs>>

ArchiveStep(p) == Storing(p) /\ UNCHANGED downloadVars

ArchiveFails(p) == Failing(p) /\ UNCHANGED downloadVars

Step(p) == Fetch(p) \/ CrawlResult(p) \/ CallArchive(p) \/ ArchiveStep(p)
           \/ AttachObject(p) \/ EndArchive(p) \/ UpdateAvailability(p)
           \/ WriteImportLog(p) \/ Finish(p) \/ Abort(p)

Next ==
    \/ \E p \in Processes :
        \/ \E d \in Documents : Begin(p, d)
        \/ Step(p) \/ ArchiveFails(p) \/ FailStatement(p) \/ StopRun(p)
    \/ \E d \in Documents : Relist(d)

Spec == Init /\ [][Next]_vars

\* A process that was not stopped goes on; requests time out.
FairSpec == Spec /\ \A p \in Processes : WF_vars(Step(p))

-----------------------------------------------------------------------------
JobNumbers == DOMAIN jobs

Attached(j) == {k \in Kinds : jobs[j].result[k] \in Hashes}
Tried(j)    == {k \in Kinds : jobs[j].result[k] # Missing}

(***************************************************************************)
(* A job that is COMPLETED has archived the page and left an import log    *)
(* of exactly what its crawl results hold, and these hold objects of the   *)
(* catalogue (download-service.ts:159-176).                                *)
(***************************************************************************)
ResultOf(j, k) == IF k \in Attached(j) THEN jobs[j].result[k] ELSE None

CompletedIsRecorded ==
    \A j \in JobNumbers : jobs[j].status = "COMPLETED" =>
        /\ "html" \in Attached(j)
        /\ \A k \in Attached(j) : jobs[j].result[k] \in catalog
        /\ [doc |-> jobs[j].doc, html |-> ResultOf(j, "html"), pdf |-> ResultOf(j, "pdf")]
                \in logs

(***************************************************************************)
(* The counters of a job that has ended agree with its crawl results: what *)
(* it says was downloaded is attached to them, each format that was tried  *)
(* counts once, and an exception once more, so a job that was FAILED by    *)
(* one never looks like a clean run.                                       *)
(***************************************************************************)
CountersMatchResults ==
    \A j \in JobNumbers : jobs[j].status # "RUNNING" =>
        /\ jobs[j].downloaded = Cardinality(Attached(j))
        /\ jobs[j].failed >= Cardinality(Tried(j) \ Attached(j))
        /\ jobs[j].status = "FAILED" => jobs[j].failed > 0
        /\ jobs[j].status = "COMPLETED" =>
                jobs[j].failed = Cardinality(Tried(j) \ Attached(j))

(***************************************************************************)
(* A download says a PDF is available only of a document that refers to an *)
(* archived PDF, although the two are written apart and other downloads    *)
(* of the document come in between.                                        *)
(***************************************************************************)
AvailabilityIsBacked ==
    \A d \in Documents : pdfAvailable[d] = "yes" => slot[<<d, "pdf">>] # None

(***************************************************************************)
(* As long as no fault occurs, every job ends, also when another download  *)
(* of the same bytes makes its archive call throw.                         *)
(***************************************************************************)
EveryJobEnds ==
    \A j \in 1..MaxJobs :
        (j \in JobNumbers /\ jobs[j].status = "RUNNING")
            ~> (j \in JobNumbers /\ jobs[j].status # "RUNNING") \/ faults > 0
=============================================================================
