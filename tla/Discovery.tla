------------------------------- MODULE Discovery -------------------------------
(***************************************************************************)
(* The crawler's discovery (runDiscovery): it reads the index of the site, *)
(* category by category and page by page, and stores what each page lists. *)
(* A checkpoint file and the job's row let a later run resume it.  A run   *)
(* may be stopped anywhere, interrupted by a signal whose handler writes   *)
(* the row while the crawl goes on, and joined by another run.             *)
(*                                                                         *)
(* The site does not change during a crawl, and there is no page limit.    *)
(***************************************************************************)
EXTENDS Naturals, Sequences, FiniteSets, SequencesExt

CONSTANTS
    Runs,       \* processes
    Urls,       \* documents the site lists
    Site,       \* for each category and filter, in the order of the crawl,
                \* its pages, each a sequence of urls
    Faults,     \* what may go wrong
    MaxFaults,  \* bound on the faults of a behaviour
    MaxJobs     \* bound on its jobs

\* A request, file write or query fails; the process ends; SIGINT or SIGTERM.
Fault == {"error", "stop", "signal"}

\* The pages of a category are those before the first empty one.
ASSUME DiscoveryAssumption ==
    /\ Site \in Seq(Seq(Seq(Urls) \ {<<>>}))
    /\ Faults \subseteq Fault
    /\ MaxFaults \in Nat /\ MaxJobs \in Nat

Keys == DOMAIN Site

\* A page past the last one is empty, and ends the category.
Page(k, n) == IF n \in DOMAIN Site[k] THEN Site[k][n] ELSE <<>>

Counters == [found: Nat, stored: Nat, failed: Nat]
NoCounts == [found |-> 0, stored |-> 0, failed |-> 0]

JobRow == [status: {"RUNNING", "COMPLETED", "FAILED", "CANCELLED"}, counts: Counters]

\* The checkpoint: the keys that are done, and the page that was begun (key 0:
\* none).  NoFile is a missing, empty or truncated file, or job 0.
Checkpoint ==
    {c \in [job: Nat, completed: SUBSET Keys, key: Nat, page: Nat] :
        (c.key = 0 <=> c.page = 0) /\ c.key \notin c.completed}
NoFile == [job |-> 0, completed |-> {}, key |-> 0, page |-> 0]

VARIABLES
    jobs,       \* crawl_jobs
    results,    \* crawl_results: job and url
    docs,       \* documents: the urls that have a row
    file,       \* the checkpoint file
    run,        \* what each process is doing
    signalled,  \* the jobs a signal has hit: history, for the properties only
    faults      \* how many faults there were: bounds the model only

vars == <<jobs, results, docs, file, run, signalled, faults>>

Stages == {"idle", "find", "adopt", "seen", "next", "page", "truncate", "write",
           "doc", "findDoc", "save", "log", "result", "count", "complete",
           "clear", "fail", "ended"}

Outcomes == {"none", "inserted", "updated", "duplicate"}

(***************************************************************************)
(* A run's locals.  checkpoint: as read at the start, or what is being     *)
(* written.  signal: the counters a handler took with it, once there was a *)
(* signal ("sent"), and whether its update has arrived ("landed").         *)
(***************************************************************************)
Run == [stage: Stages, resume: BOOLEAN, job: Nat, checkpoint: Checkpoint,
        completed: SUBSET Keys, seen: SUBSET Urls, counts: Counters,
        key: Nat, page: Nat, todo: Seq(Urls), outcome: Outcomes,
        signal: {"none", "sent", "landed"}, taken: Counters]

NoRun == [stage |-> "idle", resume |-> FALSE, job |-> 0, checkpoint |-> NoFile,
          completed |-> {}, seen |-> {}, counts |-> NoCounts, key |-> 0,
          page |-> 0, todo |-> <<>>, outcome |-> "none", signal |-> "none",
          taken |-> NoCounts]

TypeOK ==
    /\ jobs \in Seq(JobRow) /\ Len(jobs) <= MaxJobs
    /\ results \subseteq (DOMAIN jobs) \X Urls
    /\ docs \subseteq Urls
    /\ file \in Checkpoint /\ file.job <= Len(jobs)
    /\ run \in [Runs -> Run]
    /\ signalled \subseteq DOMAIN jobs
    /\ faults \in 0..MaxFaults

Init ==
    /\ jobs = <<>> /\ results = {} /\ docs = {} 
    /\ file = NoFile
    /\ run = [r \in Runs |-> NoRun]
    /\ signalled = {}
    /\ faults = 0

-----------------------------------------------------------------------------
At(r, stage) == run[r].stage = stage

Goto(r, stage) == run' = [run EXCEPT ![r].stage = stage]

Set(r, locals) == run' = [run EXCEPT ![r] = locals]

tables == <<jobs, results, docs, signalled>>

Resumable(j) == jobs[j].status # "COMPLETED"

(***************************************************************************)
(* runDiscovery up to the loop.  With --resume it reads the checkpoint.    *)
(***************************************************************************)
Begin(r, resume) ==
    /\ At(r, "idle")
    /\ \/ Len(jobs) + Cardinality({q \in Runs : At(q, "find")}) < MaxJobs
       \/ resume /\ \E j \in DOMAIN jobs : Resumable(j)
    /\ Set(r, [NoRun EXCEPT !.stage = "find", !.resume = resume,
                            !.checkpoint = IF resume THEN file ELSE NoFile])
    /\ UNCHANGED <<tables, file, faults>>

\* startJob: the job of the checkpoint, else the latest, else a new one.
FindJob(r) ==
    LET j == run[r].checkpoint.job
        candidates == IF j # 0 /\ Resumable(j) THEN {j}
                      ELSE {i \in DOMAIN jobs : Resumable(i)}
    IN  /\ At(r, "find")
        /\ \/ /\ run[r].resume /\ candidates # {}
              /\ \E i \in candidates :
                    /\ \A k \in candidates : k <= i
                    /\ Set(r, [run[r] EXCEPT !.stage = "adopt", !.job = i])
              /\ UNCHANGED jobs
           \/ /\ ~run[r].resume \/ candidates = {}
              /\ Len(jobs) < MaxJobs
              /\ jobs' = Append(jobs, [status |-> "RUNNING", counts |-> NoCounts])
              /\ Set(r, [run[r] EXCEPT !.stage = "seen", !.job = Len(jobs) + 1])
        /\ UNCHANGED <<results, docs, file, signalled, faults>>

\* The update of startJob, and restoreProgress from the row it returns.
Adopt(r) ==
    /\ At(r, "adopt")
    /\ jobs' = [jobs EXCEPT ![run[r].job].status = "RUNNING"]
    /\ Set(r, [run[r] EXCEPT !.stage = "seen", !.counts = jobs[run[r].job].counts])
    /\ UNCHANGED <<results, docs, file, signalled, faults>>

\* A checkpoint of another job is not used.
LoadSeen(r) ==
    LET mine == run[r].checkpoint.job = run[r].job IN
    /\ At(r, "seen")
    /\ Set(r, [run[r] EXCEPT
                !.stage = "next",
                !.completed = IF mine THEN run[r].checkpoint.completed ELSE {},
                !.checkpoint = IF mine THEN @ ELSE NoFile,
                !.seen = {u \in Urls : <<run[r].job, u>> \in results}])
    /\ UNCHANGED <<tables, file, faults>>

-----------------------------------------------------------------------------
(* The loop over categories and pages.                                     *)

\* The next category that is not completed, from the page of the checkpoint.
NextKey(r) ==
    LET k == run[r].key + 1 IN
    /\ At(r, "next")
    /\ Set(r, IF k \notin Keys THEN [run[r] EXCEPT !.stage = "complete"]
              ELSE IF k \in run[r].completed THEN [run[r] EXCEPT !.key = k]
              ELSE [run[r] EXCEPT !.stage = "page", !.key = k,
                        !.page = IF run[r].checkpoint.key = k
                                 THEN run[r].checkpoint.page ELSE 1])
    /\ UNCHANGED <<tables, file, faults>>

\* ajaxList answers with a page.
FetchPage(r) ==
    /\ At(r, "page")
    /\ Set(r, [run[r] EXCEPT !.stage = "truncate", !.todo = Page(run[r].key, run[r].page)])
    /\ UNCHANGED <<tables, file, faults>>

(***************************************************************************)
(* writeCheckpoint truncates the file and writes it: before the documents  *)
(* of a page with that page, and with no page after the last.              *)
(***************************************************************************)
CategoryDone(r) == run[r].page = 0

TruncateCheckpoint(r) ==
    /\ At(r, "truncate")
    /\ file' = NoFile
    /\ Goto(r, "write")
    /\ UNCHANGED <<tables, faults>>

\* Points at the page after the one that begins.
WriteCheckpoint_NextPage(r) ==
    /\ At(r, "write")
    /\ file' = [job |-> run[r].job, completed |-> run[r].completed,
                key |-> IF CategoryDone(r) THEN 0 ELSE run[r].key,
                page |-> IF CategoryDone(r) THEN 0 ELSE run[r].page + 1]
    /\ Goto(r, IF CategoryDone(r) THEN "next" ELSE "doc")
    /\ UNCHANGED <<tables, faults>>

WriteCheckpoint(r) ==
    /\ At(r, "write")
    /\ file' = [job |-> run[r].job, completed |-> run[r].completed,
                key |-> IF CategoryDone(r) THEN 0 ELSE run[r].key,
                page |-> run[r].page]
    /\ Goto(r, IF CategoryDone(r) THEN "next" ELSE "doc")
    /\ UNCHANGED <<tables, faults>>

\* The document is counted as stored before it is.
NextDocument_CountsFirst(r) ==
    LET todo == run[r].todo IN
    /\ At(r, "doc")
    /\ Set(r, IF todo = <<>> THEN [run[r] EXCEPT !.stage = "count"]
              ELSE IF Head(todo) \in run[r].seen
                   THEN [run[r] EXCEPT !.todo = Tail(todo)]
                   ELSE [run[r] EXCEPT !.stage = "findDoc", !.counts.found = @ + 1,
                                       !.counts.stored = @ + 1])
    /\ UNCHANGED <<tables, file, faults>>

NextDocument(r) ==
    LET todo == run[r].todo IN
    /\ At(r, "doc")
    /\ Set(r, IF todo = <<>> THEN [run[r] EXCEPT !.stage = "count"]
              ELSE IF Head(todo) \in run[r].seen
                   THEN [run[r] EXCEPT !.todo = Tail(todo)]
                   ELSE [run[r] EXCEPT !.stage = "findDoc", !.counts.found = @ + 1])
    /\ UNCHANGED <<tables, file, faults>>

-----------------------------------------------------------------------------
(* persistDiscoveredDocument.                                              *)

\* A known document is a duplicate, or to be updated if its listing changed.
FindDocument(r) ==
    /\ At(r, "findDoc")
    /\ \E outcome \in IF Head(run[r].todo) \in docs
                     THEN {"duplicate", "updated"} ELSE {"inserted"} :
        Set(r, [run[r] EXCEPT !.stage = IF outcome = "duplicate" THEN "result" ELSE "save",
                              !.outcome = outcome])
    /\ UNCHANGED <<tables, file, faults>>

\* The page goes on with its next document.
Advance(r, locals) == Set(r, [locals EXCEPT !.stage = "doc", !.todo = Tail(@)])

Failed(locals) == [locals EXCEPT !.counts.failed = @ + 1]

\* What could not be stored is not counted.
Failed_Silently(locals) == locals

\* The unique key refuses a document that a run created meanwhile.
SaveDocument(r) ==
    LET u == Head(run[r].todo) IN
    /\ At(r, "save")
    /\ \/ /\ run[r].outcome = "inserted" /\ u \in docs
          /\ Advance(r, Failed(run[r]))
          /\ UNCHANGED docs
       \/ /\ run[r].outcome = "inserted" => u \notin docs
          /\ docs' = docs \cup {u}
          /\ Goto(r, "log")
    /\ UNCHANGED <<jobs, results, file, signalled, faults>>

\* The rows of import_logs are left out: the statement may fail.
WriteImportLog(r) ==
    /\ At(r, "log")
    /\ Goto(r, "result")
    /\ UNCHANGED <<tables, file, faults>>

\* The crawl result, once for each url and job; the document is counted.
SaveResult(r) ==
    LET u == Head(run[r].todo) IN
    /\ At(r, "result")
    /\ results' = results \cup {<<run[r].job, u>>}
    /\ Advance(r, [run[r] EXCEPT
                    !.seen = @ \cup {u},
                    !.counts.stored = IF run[r].outcome = "duplicate" THEN @ ELSE @ + 1])
    /\ UNCHANGED <<jobs, docs, file, signalled, faults>>

-----------------------------------------------------------------------------
SetCounts(r, status, counts) ==
    jobs' = [jobs EXCEPT ![run[r].job] = [status |-> status, counts |-> counts]]

\* An empty page does not end the category.
CountPage_Endless(r) ==
    /\ At(r, "count")
    /\ SetCounts(r, jobs[run[r].job].status, run[r].counts)
    /\ Set(r, [run[r] EXCEPT !.stage = "page",
                 !.page = IF @ \in DOMAIN Site[run[r].key] THEN @ + 1 ELSE @])
    /\ UNCHANGED <<results, docs, file, signalled, faults>>

(***************************************************************************)
(* The counters are written at the end of a page; an empty page completes  *)
(* the category.                                                           *)
(***************************************************************************)
CountPage(r) ==
    /\ At(r, "count")
    /\ SetCounts(r, jobs[run[r].job].status, run[r].counts)
    /\ Set(r, IF Page(run[r].key, run[r].page) # <<>>
              THEN [run[r] EXCEPT !.stage = "page", !.page = @ + 1]
              ELSE [run[r] EXCEPT !.stage = "truncate", !.page = 0,
                                  !.completed = @ \cup {run[r].key}])
    /\ UNCHANGED <<results, docs, file, signalled, faults>>

Complete(r) ==
    /\ At(r, "complete")
    /\ SetCounts(r, "COMPLETED", run[r].counts)
    /\ Goto(r, "clear")
    /\ UNCHANGED <<results, docs, file, signalled, faults>>

\* The run ends, at once unless a signal's handler is still at work.
End(r) == Set(r, IF run[r].signal = "none" THEN NoRun ELSE [run[r] EXCEPT !.stage = "ended"])

ClearCheckpoint(r) ==
    /\ At(r, "clear")
    /\ file' = NoFile
    /\ End(r)
    /\ UNCHANGED <<tables, faults>>

\* The catch block.
Fail(r) ==
    /\ At(r, "fail")
    /\ SetCounts(r, "FAILED", run[r].counts)
    /\ End(r)
    /\ UNCHANGED <<results, docs, file, signalled, faults>>

-----------------------------------------------------------------------------
MayFault(kind) == kind \in Faults /\ faults < MaxFaults /\ faults' = faults + 1

(***************************************************************************)
(* A step throws.  Within persistDiscoveredDocument it costs the document; *)
(* outside the try block, or in the catch block, it ends the run without a *)
(* trace; in the handler it is followed by the exit; else the catch block  *)
(* is next.  That the checkpoint cannot be cleared is not even noticed.    *)
(***************************************************************************)
Throw(r) ==
    /\ MayFault("error")
    /\ \/ /\ run[r].stage \in {"findDoc", "save", "log", "result"}
          /\ Advance(r, Failed(run[r]))
       \/ /\ run[r].stage \in {"page", "truncate", "write", "count", "complete"}
          /\ Goto(r, "fail")
       \/ /\ run[r].stage \in {"find", "adopt", "seen", "clear", "fail"}
          /\ End(r)
       \/ /\ run[r].signal = "sent"
          /\ Set(r, [run[r] EXCEPT !.signal = "landed"])
    /\ UNCHANGED <<tables, file>>

Stop(r) ==
    /\ MayFault("stop") /\ ~At(r, "idle")
    /\ Set(r, NoRun)
    /\ UNCHANGED <<tables, file>>

\* The handler takes the counters of the moment along.
Signal(r) ==
    /\ run[r].stage \notin {"idle", "find", "adopt", "seen", "ended"}
    /\ run[r].signal = "none"
    /\ MayFault("signal")
    /\ Set(r, [run[r] EXCEPT !.signal = "sent", !.taken = run[r].counts])
    /\ signalled' = signalled \cup {run[r].job}
    /\ UNCHANGED <<jobs, results, docs, file>>

Cancel(r) ==
    /\ run[r].signal = "sent"
    /\ SetCounts(r, "CANCELLED", run[r].taken)
    /\ Set(r, [run[r] EXCEPT !.signal = "landed"])
    /\ UNCHANGED <<results, docs, file, signalled, faults>>

\* process.exit(130), whatever the crawl is doing.
Exit(r) ==
    /\ run[r].signal = "landed"
    /\ Set(r, NoRun)
    /\ UNCHANGED <<tables, file, faults>>

Step(r) ==
    \/ FindJob(r) \/ Adopt(r) \/ LoadSeen(r)
    \/ NextKey(r) \/ FetchPage(r) \/ TruncateCheckpoint(r) \/ WriteCheckpoint(r)
    \/ NextDocument(r) \/ FindDocument(r) \/ SaveDocument(r)
    \/ WriteImportLog(r) \/ SaveResult(r) \/ CountPage(r)
    \/ Complete(r) \/ ClearCheckpoint(r) \/ Fail(r)

Disturb(r) == Throw(r) \/ Stop(r) \/ Signal(r)

Next == \E r \in Runs :
    \/ \E resume \in BOOLEAN : Begin(r, resume)
    \/ Step(r) \/ Cancel(r) \/ Exit(r) \/ Disturb(r)

Spec == Init /\ [][Next]_vars

\* Somebody resumes a crawl that has not completed, and the run goes on.
FairSpec ==
    /\ Spec
    /\ \A r \in Runs : WF_vars(Step(r)) /\ WF_vars(Exit(r)) /\ WF_vars(Cancel(r))
                       /\ WF_vars(Begin(r, TRUE))

-----------------------------------------------------------------------------
ResultsOf(j) == {u \in Urls : <<j, u>> \in results}

\* What the pages of a category list, and those before a page.
UpTo(k, page) == {u \in Urls : \E n \in DOMAIN Site[k] : n < page /\ u \in ToSet(Site[k][n])}

Category(k) == {u \in Urls : \E n \in DOMAIN Site[k] : u \in ToSet(Site[k][n])}

Listed == UNION {Category(k) : k \in Keys}

(***************************************************************************)
(* Of a crawl that has completed, however often it was stopped, failed and *)
(* was resumed, each document of the site has a crawl result or is counted *)
(* as failed: the checkpoint never runs ahead of what was done             *)
(* (service.ts:81-86, 108-114, 171-178).  Not so if a signal hit the job:  *)
(* the failures it counted may then be written over by older counters.     *)
(***************************************************************************)
NothingIsSkipped ==
    \A j \in DOMAIN jobs \ signalled : jobs[j].status = "COMPLETED" =>
        Cardinality(Listed \ ResultsOf(j)) <= jobs[j].counts.failed

(***************************************************************************)
(* A job never claims to have stored more documents than it has crawl      *)
(* results, and every result is of a stored document, also while runs      *)
(* restore each other's counters from the row, and a handler writes to it  *)
(* counters of the past                                                    *)
(* (service.ts:54-67, 122-135, 150-153, 270-282).                          *)
(***************************************************************************)
CountersAreBacked ==
    \A j \in DOMAIN jobs :
        /\ jobs[j].counts.stored <= Cardinality(ResultsOf(j))
        /\ ResultsOf(j) \subseteq docs

(***************************************************************************)
(* A crawl that is resumed as often as it takes completes.                 *)
(***************************************************************************)
CrawlCompletes == <>(\E j \in DOMAIN jobs : jobs[j].status = "COMPLETED")
=============================================================================
