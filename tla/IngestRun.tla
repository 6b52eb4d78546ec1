------------------------------- MODULE IngestRun -------------------------------
(***************************************************************************)
(* A run of the ingest CLI (IngestLegalInfoService.run and                 *)
(* republishFromArchive): the loop around the acts, its counters, and the  *)
(* row of ingest_jobs it keeps.  What happens to one act is Publication's  *)
(* worker, of which there is one: the CLI takes its acts in turn.  It may  *)
(* be killed and started again at any point.                               *)
(*                                                                         *)
(* Every statement on the database may fail, and may have been carried out *)
(* although its answer is lost (the connection breaks): the program sees   *)
(* an exception either way.                                                *)
(***************************************************************************)
EXTENDS Publication

CONSTANTS
    MaxRuns,    \* bound: how often the CLI is started
    MaxActs     \* bound: the acts a run discovers (--limit)

ASSUME RunAssumption ==
    (\E w \in Workers : Workers = {w}) /\ MaxRuns \in Nat /\ MaxActs \in Nat

VARIABLES
    jobs,   \* the statuses of the rows of ingest_jobs, in the order of creation
    run     \* the locals of the run; its job is the last of jobs

runVars == <<jobs, run>>
allVars == <<vars, runVars>>

Self == CHOOSE w \in Workers : TRUE

Outcomes == {"published", "unchanged", "reviews", "ready", "failures"}
Over == {"returned", "threw", "killed"}

(***************************************************************************)
(*   acts:    the discovered acts that are still to come                   *)
(*   found:   how many were discovered                                     *)
(*   count:   IngestRunResult's counters; "ready" stands for the dry run's *)
(*            outcomes, which have no counter of their own                 *)
(*   audited: its "ingest.failed" rows in audit_logs                       *)
(*   base:    how many versions there were before (history)                *)
(***************************************************************************)
Run == [phase: {"create", "discover", "next", "act", "report", "fail"} \cup Over,
        type: {"FETCH", "PARSE"}, parser: Parsers, dryRun: BOOLEAN,
        hash: Hashes, acts: Seq(Documents), found: Nat, processed: Nat,
        count: [Outcomes -> Nat], audited: Nat, base: Nat]

NewRun(type, h, p, dry, acts) ==
    [phase |-> "create", type |-> type, parser |-> p, dryRun |-> dry, hash |-> h,
     acts |-> acts, found |-> Len(acts), processed |-> 0,
     count |-> [o \in Outcomes |-> 0], audited |-> 0, base |-> Cardinality(versions)]

RunInit ==
    /\ Init
    /\ jobs = <<>>
    /\ run = [NewRun("FETCH", CHOOSE h \in Hashes : TRUE, CHOOSE p \in Parsers : TRUE,
                     FALSE, <<>>) EXCEPT !.phase = "returned"]

-----------------------------------------------------------------------------
(* Helpers.                                                                *)

In(phase) == run.phase = phase

GoOn(phase) == run' = [run EXCEPT !.phase = phase]

\* An update of the run's job that was carried out, or not.
Mark(status) == jobs' = [jobs EXCEPT ![Len(jobs)] = status]

\* Leaves what failed out of processed.
Counted_Unprocessed(outcome) ==
    [run EXCEPT !.processed = IF outcome = "failures" THEN @ ELSE @ + 1,
                !.count[outcome] = @ + 1]

\* result.processed and the counter of the outcome.
Counted(outcome) ==
    [run EXCEPT !.processed = @ + 1, !.count[outcome] = @ + 1]

-----------------------------------------------------------------------------
(* The run.                                                                *)

\* ingestJobs.create, with the metadata of the run.  Nothing is left of the
\* locals of the run before.
Fetch(p, dry) ==
    /\ run.phase \in Over /\ Len(jobs) < MaxRuns
    /\ jobs' = Append(jobs, "PENDING")
    /\ run' = NewRun("FETCH", run.hash, p, dry, <<>>)
    /\ UNCHANGED vars

\* republishFromArchive has found the bytes and their record before it creates
\* its job (ArchiveStore.tla has these steps).
Republish(d, h, p, dry) ==
    /\ run.phase \in Over /\ Len(jobs) < MaxRuns
    /\ h \in archives
    /\ jobs' = Append(jobs, "PENDING")
    /\ run' = NewRun("PARSE", h, p, dry, <<d>>)
    /\ UNCHANGED vars

\* ingestJobs.markRunning, outside the try block: an error leaves the job.
MarkRunning ==
    /\ In("create")
    /\ \/ Mark("RUNNING") /\ GoOn(IF run.type = "FETCH" THEN "discover" ELSE "next")
       \/ (Mark("RUNNING") \/ UNCHANGED jobs) /\ GoOn("threw")
    /\ UNCHANGED vars

\* connector.discover: the acts of --url, of the law ids, or of the listing,
\* up to the limit; nothing keeps an act from being there twice.
Discover ==
    /\ In("discover")
    /\ \/ \E n \in 0..MaxActs : \E s \in [1..n -> Documents] :
            run' = [run EXCEPT !.phase = "next", !.acts = s, !.found = n]
       \/ GoOn("fail")
    /\ UNCHANGED <<vars, jobs>>

\* ingestOne begins with the download; the bytes may be any.
TakeUp(h) ==
    /\ In("next") /\ run.type = "FETCH" /\ run.acts # <<>>
    /\ Start(Self, Head(run.acts), h, run.parser, run.dryRun)
    /\ run' = [run EXCEPT !.phase = "act", !.acts = Tail(@)]
    /\ UNCHANGED jobs

\* The download, or the row before it, fails: no job of the worker begins.
DownloadFails ==
    /\ In("next") /\ run.type = "FETCH" /\ run.acts # <<>>
    /\ run' = [Counted("failures") EXCEPT !.phase = "report", !.acts = Tail(@)]
    /\ UNCHANGED <<vars, jobs>>

\* republishFromArchive parses the archived bytes.
Reparse ==
    /\ In("next") /\ run.type = "PARSE" /\ run.acts # <<>>
    /\ work' = [work EXCEPT ![Self] =
                  [NewJob(Head(run.acts), run.hash, run.parser, run.dryRun)
                      EXCEPT !.stage = "assess"]]
    /\ run' = [run EXCEPT !.phase = "act", !.acts = <<>>]
    /\ UNCHANGED <<database, clock, jobs>>

\* Reports bytes that were there as published.
Outcome_Republished(stage) ==
    CASE stage = "assess"                 -> "ready"
      [] stage \in {"findSame", "commit"} -> "published"
      [] stage = "saveReview"             -> "reviews"
      [] OTHER                            -> "failures"

\* What ingestOne reports when the worker's job ends at this stage.  At any
\* other it ends with an exception.
Outcome(stage) ==
    CASE stage = "assess"     -> "ready"
      [] stage = "findSame"   -> "unchanged"
      [] stage = "saveReview" -> "reviews"
      [] stage = "commit"     -> "published"
      [] OTHER                -> "failures"

(***************************************************************************)
(* The outcome reaches the loop, unless the answer of the last statement   *)
(* is lost or the audit row after it (of the stage, the review or the      *)
(* finished dry run) cannot be written: then what has been done counts as  *)
(* a failure.  republishFromArchive counts no failure, it throws.          *)
(***************************************************************************)
ActEnds(outcome) ==
    IF outcome # "failures" THEN run' = [Counted(outcome) EXCEPT !.phase = "next"]
    ELSE IF run.type = "FETCH" THEN run' = [Counted(outcome) EXCEPT !.phase = "report"]
    ELSE GoOn("fail")

Work ==
    LET stage == work[Self].stage IN
    /\ In("act")
    /\ \/ /\ Proceed(Self)
          /\ IF work'[Self].stage # "idle" THEN UNCHANGED run
             ELSE \E outcome \in {Outcome(stage), "failures"} : ActEnds(outcome)
       \/ /\ Abandon(Self)
          /\ ActEnds("failures")
    /\ UNCHANGED jobs

\* The audit row of a failure; without it the run gives up.
Report ==
    /\ In("report")
    /\ \/ run' = [run EXCEPT !.phase = "next", !.audited = @ + 1]
       \/ \E n \in 0..1 : run' = [run EXCEPT !.phase = "fail", !.audited = @ + n]
    /\ UNCHANGED <<vars, jobs>>

\* After the last act, if the loop was not left.
MarkSucceeded ==
    /\ In("next") /\ run.acts = <<>>
    /\ \/ Mark("SUCCEEDED") /\ GoOn("returned")
       \/ (Mark("SUCCEEDED") \/ UNCHANGED jobs) /\ GoOn("fail")
    /\ UNCHANGED vars

MarkFailed ==
    /\ In("fail")
    /\ Mark("FAILED") \/ UNCHANGED jobs
    /\ GoOn("threw")
    /\ UNCHANGED vars

\* The end of the process; PostgreSQL rolls back what was open.
Killed ==
    /\ run.phase \notin Over
    /\ Finish(Self)
    /\ GoOn("killed")
    /\ UNCHANGED <<database, clock, jobs>>

RunNext ==
    \/ \E p \in Parsers, dry \in BOOLEAN :
        \/ Fetch(p, dry)
        \/ \E d \in Documents, h \in Hashes : Republish(d, h, p, dry)
    \/ MarkRunning \/ Discover
    \/ \E h \in Hashes : TakeUp(h)
    \/ DownloadFails \/ Reparse \/ Work \/ Report
    \/ MarkSucceeded \/ MarkFailed \/ Killed
    \/ Tick /\ UNCHANGED runVars

RunSpec == RunInit /\ [][RunNext]_allVars

-----------------------------------------------------------------------------
(* Properties.                                                             *)

(***************************************************************************)
(* The counters against the corpus: whatever fails, is killed or loses its *)
(* answer, a run never reports more publications than it made; each it     *)
(* made beyond that is among the failures it reports (a run that does not  *)
(* return may keep one to itself).  A dry run makes none (service.ts:118-  *)
(* 129, 299-307, 437-446).                                                 *)
(***************************************************************************)
CountersMatchCorpus ==
    LET made   == Cardinality(versions) - run.base
        silent == IF run.phase \in {"fail", "threw", "killed"} THEN 1 ELSE 0
    IN  /\ run.count["published"] <= made
        /\ made <= run.count["published"] + run.count["failures"] + silent
        /\ run.dryRun => made = 0

\* The outcomes a run has reported.
Reported == run.count["published"] + run.count["unchanged"] + run.count["reviews"]
                + run.count["ready"] + run.count["failures"]

(***************************************************************************)
(* A job that says SUCCEEDED is that of a run which has taken up every act *)
(* it discovered, counted each once, and left an audit row for each that   *)
(* failed; a run that returns has such a job (service.ts:106-166).         *)
(***************************************************************************)
SucceededIsComplete ==
    jobs # <<>> =>
        /\ jobs[Len(jobs)] = "SUCCEEDED" =>
            /\ run.acts = <<>>
            /\ run.processed = run.found /\ Reported = run.found
            /\ run.audited = run.count["failures"]
        /\ run.phase = "returned" => jobs[Len(jobs)] = "SUCCEEDED"
=============================================================================
