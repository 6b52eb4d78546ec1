---------------------------- MODULE DownloadProofs ----------------------------
(***************************************************************************)
(* What the crawler's downloads leave behind, for any number of processes, *)
(* documents and bytes, and any faults.                                    *)
(*                                                                         *)
(* The files: a file that is being written has one writer, who is the only *)
(* one to undo it, so what is whole stays (FilesInv); a failing fsync is   *)
(* the exception, and the theorems about the files exclude it.             *)
(*                                                                         *)
(* The rows: a job is written by one run at a time (Owned); at each stage  *)
(* the run's locals agree with the crawl results of its job, but for the   *)
(* format it is storing (Matching); so the last statement writes counters  *)
(* and a status that the results bear out.                                 *)
(***************************************************************************)
EXTENDS Download, FiniteSetTheorems, SequenceTheorems, TLAPS

-----------------------------------------------------------------------------
(* The files.                                                              *)

\* One process writes a file at a time; what was written or compared is whole.
FilesInv ==
    /\ BlobTypeOK
    /\ \A p \in Processes : On(p, "write") => file[put[p].hash] = "partial"
    /\ \A p, q \in Processes :
            (On(p, "write") /\ On(q, "write") /\ put[p].hash = put[q].hash) => p = q
    /\ \A p \in Processes :
            put[p].step \in {"sync", "find", "create", "attach", "stored"} =>
                file[put[p].hash] = "whole"
    /\ \A h \in catalog : file[h] = "whole"

-----------------------------------------------------------------------------
(* The catalogue, with or without whole files behind it.                   *)

CatalogInv ==
    /\ \A s \in Documents \X Kinds : slot[s] \in catalog \cup {None}
    /\ \A p \in Processes :
        /\ put[p].step \in {"attach", "stored"} => put[p].hash \in catalog
        /\ On(p, "stored") => slot[<<put[p].doc, put[p].kind>>] # None

-----------------------------------------------------------------------------
(* The runs.                                                               *)

Live(p) == ~At(p, "idle")

\* The object of a format that the run has archived.
Own(r, k) == IF k = "html" THEN r.html ELSE r.pdf

One(b) == IF b THEN 1 ELSE 0

\* The crawl result exists, whether the object will is not known yet.
InFlight(r, k) == r.stage \in {"archive", "archiving"} /\ r.kind = k

\* The formats that were tried, without an object.
Lost(r, res) ==
    One(res["html"] = None /\ ~InFlight(r, "html")) + One(res["pdf"] = None /\ ~InFlight(r, "pdf"))

\* The call of a process is its run's.
CallOf(p) ==
    /\ On(p, "none") <=> ~At(p, "archiving")
    /\ At(p, "archiving") =>
        put[p].doc = run[p].doc /\ put[p].kind = run[p].kind /\ put[p].hash = run[p].response

JobOf(p) ==
    Live(p) => /\ run[p].job \in JobNumbers
               /\ jobs[run[p].job].status = "RUNNING" /\ jobs[run[p].job].doc = run[p].doc

\* A job that runs is one process's.
Owned ==
    \A p, q \in Processes : (Live(p) /\ Live(q) /\ run[p].job = run[q].job) => p = q

Formats == {"fetch", "result", "archive", "archiving"}

\* The format a run is at.
AtFormat(r, res, stored) ==
    /\ r.stage \in Formats =>
        /\ Own(r, r.kind) = None
        /\ r.kind = "html" => res["pdf"] = Missing
        /\ r.kind = "pdf" => r.html # None
    /\ r.stage \in {"fetch", "result"} => res[r.kind] = Missing
    /\ r.stage = "archive" => res[r.kind] = None
    /\ r.stage = "archiving" => res[r.kind] = IF stored THEN r.response ELSE None
    /\ r.stage \in {"archive", "archiving"} => r.response \in Hashes

\* What the run remembers of the formats behind it.
Remembers(r, res) ==
    /\ \A k \in Kinds : ~InFlight(r, k) => Own(r, k) = IF res[k] \in Hashes THEN res[k] ELSE None
    /\ r.downloaded = One(r.html # None) + One(r.pdf # None)
    /\ IF r.stage = "abort" THEN r.failed + 1 >= Lost(r, res) ELSE r.failed = Lost(r, res)

\* What is left to write at the end.
Ending(r) ==
    /\ r.stage \in {"availability", "log"} => r.html # None
    /\ r.stage = "finish" => IF r.html # None
                             THEN [doc |-> r.doc, html |-> r.html, pdf |-> r.pdf] \in logs
                             ELSE r.failed > 0
    /\ r.pdf # None => slot[<<r.doc, "pdf">>] # None

RunOf(p) ==
    /\ CallOf(p) /\ JobOf(p)
    /\ Live(p) => /\ AtFormat(run[p], jobs[run[p].job].result, On(p, "stored"))
                  /\ Remembers(run[p], jobs[run[p].job].result)
                  /\ Ending(run[p])

\* Results are of the catalogue.
Results ==
    \A j \in JobNumbers : \A k \in Kinds : jobs[j].result[k] \in catalog \cup {None, Missing}

\* CompletedIsRecorded and CountersMatchResults, of one job.
JobIsRight(j) ==
    /\ jobs[j].status = "COMPLETED" =>
        /\ "html" \in Attached(j)
        /\ \A k \in Attached(j) : jobs[j].result[k] \in catalog
        /\ [doc |-> jobs[j].doc, html |-> ResultOf(j, "html"), pdf |-> ResultOf(j, "pdf")]
                \in logs
    /\ jobs[j].status # "RUNNING" =>
        /\ jobs[j].downloaded = Cardinality(Attached(j))
        /\ jobs[j].failed >= Cardinality(Tried(j) \ Attached(j))
        /\ jobs[j].status = "FAILED" => jobs[j].failed > 0
        /\ jobs[j].status = "COMPLETED" => jobs[j].failed = Cardinality(Tried(j) \ Attached(j))

DownloadInv ==
    /\ TypeOK
    /\ CatalogInv
    /\ \A p \in Processes : RunOf(p)
    /\ Owned
    /\ Results
    /\ AvailabilityIsBacked
    /\ \A j \in JobNumbers : JobIsRight(j)

-----------------------------------------------------------------------------
(* Updates of one process, of one job.                                     *)

LEMMA PutOne ==
    ASSUME BlobTypeOK, NEW p \in Processes, NEW c \in Call, put' = [put EXCEPT ![p] = c]
    PROVE  /\ put' \in [Processes -> Call] /\ put'[p] = c
           /\ \A q \in Processes : q # p => put'[q] = put[q]
  BY DEF BlobTypeOK

LEMMA Proceeds ==
    ASSUME BlobTypeOK, NEW p \in Processes, NEW s \in Steps \cup {"none", "stored", "failed"},
           Proceed(p, s)
    PROVE  /\ put' \in [Processes -> Call] /\ put'[p].step = s
           /\ put'[p].doc = put[p].doc /\ put'[p].kind = put[p].kind
           /\ put'[p].hash = put[p].hash
           /\ \A q \in Processes : q # p => put'[q] = put[q]
  <1>1. PICK c : c = [put[p] EXCEPT !.step = s]
    OBVIOUS
  <1>2. put[p] \in Call
    BY DEF BlobTypeOK
  <1>3. c \in Call /\ c.step = s /\ c.doc = put[p].doc /\ c.kind = put[p].kind
        /\ c.hash = put[p].hash
    BY <1>1, <1>2 DEF Call
  <1>4. put' = [put EXCEPT ![p] = c]
    BY <1>1 DEF Proceed
  <1> QED  BY <1>3, <1>4, PutOne

LEMMA NoCallIsCall == NoCall \in Call /\ NoCall.step = "none"
  <1>1. (CHOOSE d \in Documents : TRUE) \in Documents /\ (CHOOSE h \in Hashes : TRUE) \in Hashes
    BY BlobAssumption
  <1> QED  BY <1>1 DEF NoCall, Call, Kinds

LEMMA RunOne ==
    ASSUME run \in [Processes -> Run], NEW p \in Processes, NEW r \in Run,
           run' = [run EXCEPT ![p] = r]
    PROVE  /\ run' \in [Processes -> Run] /\ run'[p] = r
           /\ \A q \in Processes : q # p => run'[q] = run[q]
  OBVIOUS

LEMMA NoRunIsRun == NoRun \in Run /\ NoRun.stage = "idle"
  <1>1. (CHOOSE d \in Documents : TRUE) \in Documents
    BY BlobAssumption
  <1> QED  BY <1>1 DEF NoRun, NewRun, Run, Stages, Kinds, Objects

LEMMA GoesTo ==
    ASSUME run \in [Processes -> Run], NEW p \in Processes, NEW s \in Stages, Goto(p, s)
    PROVE  /\ run' \in [Processes -> Run] /\ run'[p] = [run[p] EXCEPT !.stage = s]
           /\ \A q \in Processes : q # p => run'[q] = run[q]
  <1>1. PICK r : r = [run[p] EXCEPT !.stage = s]
    OBVIOUS
  <1>2. r \in Run
    <2>1. run[p] \in Run
      OBVIOUS
    <2> QED  BY <1>1, <2>1 DEF Run
  <1>3. run' = [run EXCEPT ![p] = r]
    BY <1>1 DEF Goto
  <1> QED  BY <1>1, <1>2, <1>3, RunOne

LEMMA JobOne ==
    ASSUME jobs \in Seq(JobRow), NEW j \in JobNumbers, NEW row \in JobRow,
           jobs' = [jobs EXCEPT ![j] = row]
    PROVE  /\ jobs' \in Seq(JobRow) /\ Len(jobs') = Len(jobs) /\ JobNumbers' = JobNumbers
           /\ jobs'[j] = row
           /\ \A i \in JobNumbers : i # j => jobs'[i] = jobs[i]
  BY DEF JobNumbers

LEMMA JobResult ==
    ASSUME jobs \in Seq(JobRow), NEW j \in JobNumbers, NEW k \in Kinds,
           NEW x \in Objects \cup {Missing},
           jobs' = [jobs EXCEPT ![j].result[k] = x]
    PROVE  /\ jobs' \in Seq(JobRow) /\ Len(jobs') = Len(jobs) /\ JobNumbers' = JobNumbers
           /\ jobs'[j].result = [jobs[j].result EXCEPT ![k] = x]
           /\ jobs'[j].doc = jobs[j].doc /\ jobs'[j].status = jobs[j].status
           /\ \A i \in JobNumbers : i # j => jobs'[i] = jobs[i]
  <1>1. jobs[j] \in JobRow
    BY DEF JobNumbers
  <1>2. PICK res : res = [jobs[j].result EXCEPT ![k] = x]
    OBVIOUS
  <1>3. res \in [Kinds -> Objects \cup {Missing}]
    BY <1>1, <1>2 DEF JobRow
  <1>4. PICK row : row = [jobs[j] EXCEPT !.result = res]
    OBVIOUS
  <1>5. row \in JobRow /\ row.result = res /\ row.doc = jobs[j].doc
        /\ row.status = jobs[j].status
    BY <1>1, <1>3, <1>4 DEF JobRow
  <1>6. jobs' = [jobs EXCEPT ![j] = row]
    BY <1>2, <1>4
  <1> QED  BY <1>2, <1>5, <1>6, JobOne

-----------------------------------------------------------------------------
(* The steps of the archive, whoever calls it.                             *)

Stopped(p) ==
    /\ put' \in {put, [put EXCEPT ![p] = NoCall]}
    /\ faults < MaxFaults /\ Count
    /\ UNCHANGED <<file, catalog, slot>>

BlobStep(p) ==
    \/ \E d \in Documents, k \in Kinds, h \in Hashes : Archive(p, d, k, h)
    \/ Return(p) \/ Storing(p) \/ Attach(p) \/ Failing(p) \/ Stopped(p)

BlobNext == (\E p \in Processes : BlobStep(p)) \/ UNCHANGED blobVars

\* What a step does to the calls: only one moves, and only so.
LEMMA CallMoves ==
    ASSUME BlobTypeOK, NEW p \in Processes, BlobStep(p)
    PROVE  /\ put' \in [Processes -> Call]
           /\ \A q \in Processes : q # p => put'[q] = put[q]
           /\ faults' \in 0..MaxFaults
  <1>0. put[p] \in Call /\ faults \in 0..MaxFaults /\ MaxFaults \in Nat
    BY BlobAssumption DEF BlobTypeOK
  <1>1. CASE \E d \in Documents, k \in Kinds, h \in Hashes : Archive(p, d, k, h)
    <2>1. PICK d \in Documents, k \in Kinds, h \in Hashes : Archive(p, d, k, h)
      BY <1>1
    <2>2. PICK c : c = [step |-> "open", doc |-> d, kind |-> k, hash |-> h]
      OBVIOUS
    <2>3. c \in Call
      BY <2>2 DEF Call, Steps
    <2> QED  BY <1>0, <2>1, <2>2, <2>3, PutOne DEF Archive
  <1>2. CASE Return(p)
    BY <1>0, <1>2, PutOne, NoCallIsCall DEF Return
  <1>3. CASE Storing(p) \/ Attach(p)
    <2>1. PICK s \in Steps \cup {"none", "stored", "failed"} : Proceed(p, s)
      BY <1>3 DEF Storing, Open, Write, Sync, Stat, Reread, FindByChecksum, CreateObject,
                  Attach, Steps
    <2>2. faults' = faults
      BY <1>3 DEF Storing, Open, Write, Sync, Stat, Reread, FindByChecksum, CreateObject, Attach
    <2> QED  BY <1>0, <2>1, <2>2, Proceeds
  <1>4. CASE Failing(p)
    <2>1. PICK s \in Steps \cup {"none", "stored", "failed"} : Proceed(p, s)
      BY <1>4 DEF Failing, FailWrite, UndoWrite, FailQuery
    <2>2. faults' = faults + 1 /\ faults < MaxFaults
      BY <1>4 DEF Failing, FailWrite, FailQuery, MayFault, Count
    <2> QED  BY <1>0, <2>1, <2>2, Proceeds
  <1>5. CASE Stopped(p)
    <2>1. faults' \in 0..MaxFaults
      BY <1>0, <1>5 DEF Stopped, Count
    <2> QED  BY <1>5, <2>1, PutOne, NoCallIsCall DEF Stopped, BlobTypeOK
  <1> QED  BY <1>1, <1>2, <1>3, <1>4, <1>5 DEF BlobStep

LEMMA BlobTypes == BlobTypeOK /\ BlobNext => BlobTypeOK'
  <1> SUFFICES ASSUME BlobTypeOK, BlobNext PROVE BlobTypeOK'
    OBVIOUS
  <1>1. ASSUME NEW p \in Processes, BlobStep(p) PROVE BlobTypeOK'
    <2>1. put' \in [Processes -> Call] /\ faults' \in 0..MaxFaults
      BY <1>1, CallMoves
    <2>2. put[p].hash \in Hashes /\ put[p].doc \in Documents /\ put[p].kind \in Kinds
      BY DEF BlobTypeOK, Call
    <2>3. file' \in [Hashes -> Content]
      BY <1>1, <2>2 DEF BlobTypeOK, BlobStep, Archive, Return, Storing, Attach, Failing, Stopped,
         Open, Write, Sync, Stat, Reread, FindByChecksum, CreateObject, FailWrite, UndoWrite,
         FailQuery, Content
    <2>4. catalog' \subseteq Hashes
      BY <1>1, <2>2 DEF BlobTypeOK, BlobStep, Archive, Return, Storing, Attach, Failing, Stopped,
         Open, Write, Sync, Stat, Reread, FindByChecksum, CreateObject, FailWrite, UndoWrite,
         FailQuery
    <2>5. slot' \in [Documents \X Kinds -> Hashes \cup {None}]
      BY <1>1, <2>2 DEF BlobTypeOK, BlobStep, Archive, Return, Storing, Attach, Failing, Stopped,
         Open, Write, Sync, Stat, Reread, FindByChecksum, CreateObject, FailWrite, UndoWrite,
         FailQuery
    <2> QED  BY <2>1, <2>3, <2>4, <2>5 DEF BlobTypeOK
  <1>2. CASE UNCHANGED blobVars
    BY <1>2 DEF BlobTypeOK, blobVars
  <1> QED  BY <1>1, <1>2 DEF BlobNext

\* The rows only grow, and a reference is never taken back.
LEMMA CatalogGrows ==
    ASSUME BlobTypeOK, CatalogInv, BlobNext
    PROVE  /\ CatalogInv' /\ catalog \subseteq catalog'
           /\ \A s \in Documents \X Kinds : slot[s] # None => slot'[s] # None
  <1>1. ASSUME NEW p \in Processes, BlobStep(p)
        PROVE  /\ CatalogInv' /\ catalog \subseteq catalog'
               /\ \A s \in Documents \X Kinds : slot[s] # None => slot'[s] # None
    <2>0. /\ \A q \in Processes : q # p => put'[q] = put[q]
          /\ put[p] \in Call /\ catalog \subseteq Hashes
          /\ put[p].hash \in Hashes /\ <<put[p].doc, put[p].kind>> \in Documents \X Kinds
      BY <1>1, CallMoves DEF BlobTypeOK, Call
    <2>1. catalog' \in {catalog, catalog \cup {put[p].hash}}
      BY <1>1 DEF BlobStep, Archive, Return, Storing, Attach, Failing, Stopped, Open, Write, Sync,
         Stat, Reread, FindByChecksum, CreateObject, FailWrite, UndoWrite, FailQuery
    <2>2. \/ slot' = slot /\ put'[p].step # "stored"
          \/ /\ On(p, "attach") /\ Proceed(p, "stored") /\ catalog' = catalog
             /\ slot' = [slot EXCEPT ![<<put[p].doc, put[p].kind>>] = put[p].hash]
          \/ Stopped(p)
      <3>1. CASE Attach(p)
        BY <3>1 DEF Attach
      <3>2. CASE \E d \in Documents, k \in Kinds, h \in Hashes : Archive(p, d, k, h)
        BY <3>2 DEF Archive, BlobTypeOK
      <3>3. CASE Return(p)
        BY <3>3, NoCallIsCall DEF Return, BlobTypeOK
      <3>4. CASE Storing(p) \/ Failing(p)
        <4>1. PICK s \in (Steps \cup {"failed"}) : Proceed(p, s) /\ slot' = slot
          BY <3>4 DEF Storing, Open, Write, Sync, Stat, Reread, FindByChecksum, CreateObject,
             Failing, FailWrite, UndoWrite, FailQuery, Steps
        <4> QED  BY <4>1, Proceeds DEF Steps
      <3> QED  BY <1>1, <3>1, <3>2, <3>3, <3>4 DEF BlobStep
    <2>3. put'[p].step = "attach" => put'[p].hash \in catalog'
      <3>1. CASE FindByChecksum(p) \/ CreateObject(p)
        BY <3>1, <2>0, Proceeds DEF FindByChecksum, CreateObject, Steps
      <3>2. CASE Stopped(p)
        BY <3>2, NoCallIsCall DEF Stopped, BlobTypeOK, CatalogInv
      <3>3. CASE ~(FindByChecksum(p) \/ CreateObject(p) \/ Stopped(p))
        <4>1. CASE \E d \in Documents, k \in Kinds, h \in Hashes : Archive(p, d, k, h)
          BY <4>1 DEF Archive, BlobTypeOK
        <4>2. CASE Return(p)
          BY <4>2, NoCallIsCall DEF Return, BlobTypeOK
        <4>3. CASE Storing(p) \/ Failing(p) \/ Attach(p)
          <5>1. PICK s \in (Steps \cup {"stored", "failed"}) \ {"attach"} : Proceed(p, s)
            BY <3>3, <4>3 DEF Storing, Open, Write, Sync, Stat, Reread,
               Failing, FailWrite, UndoWrite, FailQuery, Attach, Steps
          <5> QED  BY <5>1, Proceeds
        <4> QED  BY <1>1, <3>3, <4>1, <4>2, <4>3 DEF BlobStep
      <3> QED  BY <3>1, <3>2, <3>3
    <2>4. catalog \subseteq catalog'
      BY <2>1
    <2>5. CASE slot' = slot /\ put'[p].step # "stored"
      BY <2>0, <2>3, <2>4, <2>5 DEF CatalogInv, On
    <2>6. CASE /\ On(p, "attach") /\ Proceed(p, "stored") /\ catalog' = catalog
               /\ slot' = [slot EXCEPT ![<<put[p].doc, put[p].kind>>] = put[p].hash]
      <3>1. put'[p].hash = put[p].hash /\ put'[p].doc = put[p].doc /\ put'[p].kind = put[p].kind
        BY <2>6, Proceeds
      <3>2. put[p].hash \in catalog /\ put[p].hash # None
        BY <2>0, <2>6, BlobAssumption DEF CatalogInv, On
      <3>3. slot'[<<put[p].doc, put[p].kind>>] = put[p].hash
            /\ \A s \in Documents \X Kinds :
                 slot'[s] = IF s = <<put[p].doc, put[p].kind>> THEN put[p].hash ELSE slot[s]
        BY <2>0, <2>6 DEF BlobTypeOK
      <3>4. \A s \in Documents \X Kinds : slot'[s] \in catalog' \cup {None}
        BY <2>6, <3>2, <3>3 DEF CatalogInv
      <3>5. \A s \in Documents \X Kinds : slot[s] # None => slot'[s] # None
        BY <3>2, <3>3
      <3>6. \A q \in Processes :
              /\ put'[q].step \in {"attach", "stored"} => put'[q].hash \in catalog'
              /\ put'[q].step = "stored" => slot'[<<put'[q].doc, put'[q].kind>>] # None
        <4> TAKE q \in Processes
        <4>1. CASE q = p
          BY <4>1, <2>6, <3>1, <3>2, <3>3
        <4>2. CASE q # p
          <5>1. <<put[q].doc, put[q].kind>> \in Documents \X Kinds
            BY DEF BlobTypeOK, Call
          <5> QED  BY <4>2, <5>1, <2>0, <2>6, <3>5 DEF CatalogInv, On
        <4> QED  BY <4>1, <4>2
      <3> QED  BY <2>4, <3>4, <3>5, <3>6 DEF CatalogInv, On
    <2>7. CASE Stopped(p)
      BY <2>0, <2>7, NoCallIsCall DEF Stopped, BlobTypeOK, CatalogInv, On
    <2> QED  BY <2>2, <2>5, <2>6, <2>7
  <1>2. CASE UNCHANGED blobVars
    BY <1>2 DEF CatalogInv, blobVars, On
  <1> QED  BY <1>1, <1>2 DEF BlobNext

(***************************************************************************)
(* Whoever undoes a write is the writer of a file that was not whole yet;  *)
(* a failing fsync would undo one that is, on which others may have built. *)
(***************************************************************************)
LEMMA FilesStay ==
    ASSUME "sync" \notin Faults, FilesInv, BlobNext
    PROVE  FilesInv' /\ \A h \in Hashes : file[h] = "whole" => file'[h] = "whole"
  <1>0. BlobTypeOK /\ BlobTypeOK'
    BY BlobTypes DEF FilesInv
  <1>1. ASSUME NEW p \in Processes, BlobStep(p)
        PROVE  FilesInv' /\ \A h \in Hashes : file[h] = "whole" => file'[h] = "whole"
    <2>0. /\ \A q \in Processes : q # p => put'[q] = put[q]
          /\ put[p] \in Call /\ put[p].hash \in Hashes /\ file \in [Hashes -> Content]
          /\ \A q \in Processes : put[q].hash \in Hashes
      BY <1>0, <1>1, CallMoves DEF BlobTypeOK, Call
    <2> DEFINE h == put[p].hash
    <2>1. \A q \in Processes : (q # p /\ On(q, "write") /\ put[q].hash = h) => ~On(p, "write")
      BY DEF FilesInv
    <2>2. \/ On(p, "open") /\ file[h] = "absent" /\ file' = [file EXCEPT ![h] = "partial"]
             /\ Proceed(p, "write") /\ catalog' = catalog
          \/ On(p, "write") /\ file' = [file EXCEPT ![h] = "whole"]
             /\ Proceed(p, "sync") /\ catalog' = catalog
          \/ On(p, "write") /\ file' \in {file, [file EXCEPT ![h] = "absent"]}
             /\ Proceed(p, "failed") /\ catalog' = catalog
          \/ file' = file /\ put'[p].step \notin {"write", "sync"}
             /\ (put'[p].step \in {"find", "create", "attach", "stored"} =>
                    file[h] = "whole" /\ put'[p].hash = h)
             /\ (catalog' = catalog \/ (catalog' = catalog \cup {h} /\ file[h] = "whole"))
          \/ Stopped(p)
      <3>1. CASE \E d \in Documents, k \in Kinds, x \in Hashes : Archive(p, d, k, x)
        BY <1>0, <3>1 DEF Archive, BlobTypeOK
      <3>2. CASE Return(p)
        BY <1>0, <3>2, NoCallIsCall DEF Return, BlobTypeOK
      <3>3. CASE Open(p)
        BY <1>0, <3>3, Proceeds DEF Open, Steps
      <3>4. CASE Write(p)
        BY <3>4 DEF Write
      <3>5. CASE Sync(p) \/ Stat(p) \/ Reread(p)
        <4>1. PICK s \in {"find", "reread", "failed"} : Proceed(p, s)
          BY <3>5 DEF Sync, Stat, Reread
        <4>2. /\ put'[p].step = s /\ put'[p].hash = h
          BY <1>0, <4>1, Proceeds DEF Steps
        <4>3. file' = file /\ catalog' = catalog
          BY <3>5 DEF Sync, Stat, Reread
        <4>4. s = "find" => file[h] = "whole"
          <5>1. CASE Sync(p)
            BY <5>1 DEF Sync, FilesInv, On
          <5>2. CASE Stat(p)
            BY <5>2, <4>2, Proceeds, <1>0 DEF Stat, Steps
          <5>3. CASE Reread(p)
            BY <5>3, <4>2, Proceeds, <1>0 DEF Reread, Steps
          <5> QED  BY <3>5, <5>1, <5>2, <5>3
        <4> QED  BY <4>2, <4>3, <4>4
      <3>6. CASE FindByChecksum(p) \/ CreateObject(p) \/ Attach(p)
        <4>1. PICK s \in {"create", "attach", "stored"} : Proceed(p, s)
          BY <3>6 DEF FindByChecksum, CreateObject, Attach
        <4>2. put'[p].step = s /\ put'[p].hash = h
          BY <1>0, <4>1, Proceeds DEF Steps
        <4>3. file' = file /\ catalog' \in {catalog, catalog \cup {h}}
          BY <3>6 DEF FindByChecksum, CreateObject, Attach
        <4>4. file[h] = "whole"
          BY <3>6 DEF FindByChecksum, CreateObject, Attach, FilesInv, On
        <4> QED  BY <4>2, <4>3, <4>4
      <3>7. CASE Failing(p)
        BY <1>0, <3>7, Proceeds DEF Failing, FailWrite, UndoWrite, FailQuery
      <3> QED  BY <1>1, <3>1, <3>2, <3>3, <3>4, <3>5, <3>6, <3>7 DEF BlobStep, Storing
    <2> HIDE DEF h
    <2>h. h \in Hashes /\ h = put[p].hash
      BY <2>0 DEF h
    <2>3. CASE On(p, "open") /\ file[h] = "absent" /\ file' = [file EXCEPT ![h] = "partial"]
               /\ Proceed(p, "write") /\ catalog' = catalog
      <3>1. put'[p].step = "write" /\ put'[p].hash = h
        BY <1>0, <2>3, <2>h, Proceeds DEF Steps
      <3>2. \A x \in Hashes : file'[x] = IF x = h THEN "partial" ELSE file[x]
        BY <2>0, <2>3
      <3>3. \A x \in Hashes : file[x] = "whole" => file'[x] = "whole"
        BY <2>3, <3>2
      <3>4. \A q \in Processes : put[q].step = "write" => put[q].hash # h
        BY <2>3 DEF FilesInv, On
      <3>5. \A q \in Processes : put'[q].step = "write" => file'[put'[q].hash] = "partial"
        BY <2>0, <3>1, <3>2, <2>h DEF FilesInv, On
      <3>6. \A q, r \in Processes :
              (put'[q].step = "write" /\ put'[r].step = "write" /\ put'[q].hash = put'[r].hash)
                => q = r
        BY <2>0, <3>1, <3>4 DEF FilesInv, On
      <3>7. \A q \in Processes :
              put'[q].step \in {"sync", "find", "create", "attach", "stored"} =>
                file'[put'[q].hash] = "whole"
        BY <2>0, <3>1, <3>3 DEF FilesInv
      <3>8. \A x \in catalog' : file'[x] = "whole"
        BY <1>0, <2>3, <3>3 DEF FilesInv, BlobTypeOK
      <3> QED  BY <1>0, <3>3, <3>5, <3>6, <3>7, <3>8 DEF FilesInv, On
    <2>4. CASE On(p, "write") /\ file' = [file EXCEPT ![h] = "whole"]
               /\ Proceed(p, "sync") /\ catalog' = catalog
      <3>1. put'[p].step = "sync" /\ put'[p].hash = h
        BY <1>0, <2>4, <2>h, Proceeds DEF Steps
      <3>2. \A x \in Hashes : file'[x] = IF x = h THEN "whole" ELSE file[x]
        BY <2>0, <2>4
      <3>3. \A x \in Hashes : file[x] = "whole" => file'[x] = "whole"
        BY <3>2
      <3>4. \A q \in Processes : (q # p /\ put[q].step = "write") => put[q].hash # h
        BY <2>1, <2>4, <2>h DEF On, h
      <3> QED  BY <1>0, <2>0, <2>h, <2>4, <3>1, <3>2, <3>3, <3>4 DEF FilesInv, On, BlobTypeOK
    <2>5. CASE On(p, "write") /\ file' \in {file, [file EXCEPT ![h] = "absent"]}
               /\ Proceed(p, "failed") /\ catalog' = catalog
      <3>1. put'[p].step = "failed"
        BY <1>0, <2>5, Proceeds
      <3>2. \A x \in Hashes : file'[x] = file[x] \/ (x = h /\ file[x] = "partial")
        BY <2>0, <2>5, <2>h DEF FilesInv
      <3>3. \A x \in Hashes : file[x] = "whole" => file'[x] = "whole"
        BY <3>2
      <3>4. \A q \in Processes : (q # p /\ put[q].step = "write") => put[q].hash # h
        BY <2>1, <2>5, <2>h DEF On, h
      <3> QED  BY <1>0, <2>0, <2>5, <3>1, <3>2, <3>3, <3>4 DEF FilesInv, On, BlobTypeOK
    <2>6. CASE /\ file' = file /\ put'[p].step \notin {"write", "sync"}
               /\ (put'[p].step \in {"find", "create", "attach", "stored"} =>
                    file[h] = "whole" /\ put'[p].hash = h)
               /\ (catalog' = catalog \/ (catalog' = catalog \cup {h} /\ file[h] = "whole"))
      BY <1>0, <2>0, <2>6 DEF FilesInv, On
    <2>7. CASE Stopped(p)
      BY <1>0, <2>0, <2>7, NoCallIsCall DEF FilesInv, On, Stopped, BlobTypeOK
    <2> QED  BY <2>2, <2>3, <2>4, <2>5, <2>6, <2>7 DEF h
  <1>2. CASE UNCHANGED blobVars
    BY <1>0, <1>2 DEF FilesInv, blobVars, On
  <1> QED  BY <1>1, <1>2 DEF BlobNext

-----------------------------------------------------------------------------
(* A step of one run leaves the others, and the jobs that are not its own, *)
(* as they are.                                                            *)

LEMMA KindsCount ==
    ASSUME NEW S \in SUBSET Kinds
    PROVE  Cardinality(S) = One("html" \in S) + One("pdf" \in S)
  <1>1. Cardinality({}) = 0 /\ Cardinality({"html"}) = 1 /\ Cardinality({"pdf"}) = 1
    BY FS_EmptySet, FS_Singleton
  <1>2. Cardinality({"html", "pdf"}) = 2
    <2>1. PICK T, x : T = {"html"} /\ x = "pdf"
      OBVIOUS
    <2>2. IsFiniteSet(T) /\ Cardinality(T) = 1 /\ x \notin T
      BY <2>1, FS_Singleton
    <2>3. Cardinality(T \cup {x}) = 2
      BY <2>2, FS_AddElement
    <2>4. T \cup {x} = {"html", "pdf"}
      BY <2>1
    <2> QED  BY <2>3, <2>4
  <1>3. S \in {{}, {"html"}, {"pdf"}, {"html", "pdf"}}
    BY DEF Kinds
  <1> QED  BY <1>1, <1>2, <1>3 DEF One

LEMMA DownloadIsBlob == DownloadInv /\ [Next]_vars => BlobNext
  <1> SUFFICES ASSUME DownloadInv, [Next]_vars PROVE BlobNext
    OBVIOUS
  <1>1. ASSUME NEW p \in Processes,
               \/ \E d \in Documents : Begin(p, d)
               \/ Step(p) \/ ArchiveFails(p) \/ FailStatement(p) \/ StopRun(p)
        PROVE  BlobStep(p) \/ UNCHANGED blobVars
    <2>1. CASE CallArchive(p)
      <3>1. run[p] \in Run /\ run[p].stage = "archive" /\ RunOf(p)
        BY <2>1 DEF CallArchive, At, DownloadInv, TypeOK
      <3>2. run[p].doc \in Documents /\ run[p].kind \in Kinds
        BY <3>1 DEF Run
      <3>3. run[p].response \in Hashes
        BY <3>1 DEF RunOf, AtFormat, Live, At
      <3> QED  BY <2>1, <3>2, <3>3 DEF CallArchive, BlobStep
    <2>2. CASE \/ \E d \in Documents : Begin(p, d)
               \/ Fetch(p) \/ CrawlResult(p) \/ UpdateAvailability(p) \/ WriteImportLog(p)
               \/ Finish(p) \/ Abort(p)
      BY <2>2 DEF Begin, Fetch, CrawlResult, UpdateAvailability, WriteImportLog, Finish, Abort, EndJob
    <2>3. CASE ArchiveStep(p) \/ AttachObject(p) \/ EndArchive(p) \/ ArchiveFails(p)
      BY <2>3 DEF ArchiveStep, AttachObject, EndArchive, ArchiveFails, BlobStep
    <2>4. CASE FailStatement(p)
      BY <2>4 DEF FailStatement, MayFault, BlobStep, Stopped
    <2>5. CASE StopRun(p)
      BY <2>5 DEF StopRun, MayFault, BlobStep, Stopped
    <2> QED  BY <1>1, <2>1, <2>2, <2>3, <2>4, <2>5 DEF Step
  <1>2. CASE \E d \in Documents : Relist(d)
    BY <1>2 DEF Relist, BlobNext
  <1>3. CASE UNCHANGED vars
    BY <1>3 DEF vars, blobVars, BlobNext
  <1> QED  BY <1>1, <1>2, <1>3 DEF Next, BlobNext

LEMMA ArchiveGrows ==
    ASSUME DownloadInv, BlobNext
    PROVE  /\ BlobTypeOK' /\ CatalogInv' /\ catalog \subseteq catalog'
           /\ \A s \in Documents \X Kinds : slot[s] # None => slot'[s] # None
  BY BlobTypes, CatalogGrows DEF DownloadInv, TypeOK

LEMMA Elsewhere ==
    ASSUME DownloadInv, BlobNext, TypeOK', NEW p \in Processes,
           \A q \in Processes : q # p => put'[q] = put[q] /\ run'[q] = run[q],
           logs \subseteq logs', JobNumbers \subseteq JobNumbers',
           \A j \in JobNumbers : jobs'[j] = jobs[j] \/ (Live(p) /\ j = run[p].job),
           \A j \in JobNumbers' : jobs'[j].status # "RUNNING" =>
                (j \in JobNumbers /\ jobs'[j] = jobs[j]) \/ JobIsRight(j)',
           RunOf(p)',
           Live(p)' => (Live(p) /\ run'[p].job = run[p].job) \/ run'[p].job \notin JobNumbers,
           Results', AvailabilityIsBacked'
    PROVE  DownloadInv'
  <1>1. /\ CatalogInv' /\ catalog \subseteq catalog'
        /\ \A s \in Documents \X Kinds : slot[s] # None => slot'[s] # None
    BY ArchiveGrows
  <1>2. ASSUME NEW q \in Processes, q # p PROVE RunOf(q)'
    <2>1. put'[q] = put[q] /\ run'[q] = run[q] /\ RunOf(q)
      BY <1>2 DEF DownloadInv
    <2>2. CallOf(q)'
      BY <2>1 DEF RunOf, CallOf, On, At
    <2>3. CASE ~Live(q)
      BY <2>1, <2>2, <2>3 DEF RunOf, JobOf, Live, At
    <2>4. CASE Live(q)
      <3>1. run[q].job \in JobNumbers /\ (Live(p) => run[q].job # run[p].job)
        BY <1>2, <2>1, <2>4 DEF RunOf, JobOf, DownloadInv, Owned
      <3>2. jobs'[run[q].job] = jobs[run[q].job]
        BY <3>1
      <3>3. JobOf(q)'
        BY <2>1, <2>4, <3>1, <3>2 DEF RunOf, JobOf, Live
      <3>4. run[q] \in Run
        BY DEF DownloadInv, TypeOK
      <3>5. <<run[q].doc, "pdf">> \in Documents \X Kinds
        BY <3>4 DEF Run, Kinds
      <3>6. Ending(run[q])'
        BY <1>1, <2>1, <2>4, <3>5 DEF RunOf, Ending
      <3> QED  BY <2>1, <2>2, <2>4, <3>2, <3>3, <3>6 DEF RunOf, On, Ending
    <2> QED  BY <2>3, <2>4
  <1>3. Owned'
    <2> SUFFICES ASSUME NEW q \in Processes, NEW r \in Processes,
                        Live(q)', Live(r)', run'[q].job = run'[r].job, q # r
                 PROVE  FALSE
      BY DEF Owned
    <2>1. \A x \in Processes : x # p /\ Live(x)' =>
              Live(x) /\ run'[x] = run[x] /\ run[x].job \in JobNumbers
      BY DEF DownloadInv, RunOf, JobOf, Live, At
    <2> QED  BY <2>1 DEF DownloadInv, Owned
  <1>4. ASSUME NEW j \in JobNumbers' PROVE JobIsRight(j)'
    <2>1. CASE jobs'[j].status = "RUNNING"
      BY <2>1 DEF JobIsRight
    <2>2. CASE j \in JobNumbers /\ jobs'[j] = jobs[j]
      <3>1. JobIsRight(j)
        BY <2>2 DEF DownloadInv
      <3>2. Attached(j)' = Attached(j) /\ Tried(j)' = Tried(j)
            /\ \A k : ResultOf(j, k)' = ResultOf(j, k)
        BY <2>2 DEF Attached, Tried, ResultOf
      <3> QED  BY <1>1, <2>2, <3>1, <3>2 DEF JobIsRight
    <2> QED  BY <2>1, <2>2
  <1> QED  BY <1>1, <1>2, <1>3, <1>4 DEF DownloadInv

-----------------------------------------------------------------------------
(* The end of a format.                                                    *)

LEMMA AfterFormatKeeps ==
    ASSUME NEW r \in Run, NEW res \in [Kinds -> Objects \cup {Missing}],
           \A k \in Kinds : Own(r, k) = IF res[k] \in Hashes THEN res[k] ELSE None,
           r.downloaded = One(r.html # None) + One(r.pdf # None),
           r.failed = One(res["html"] = None) + One(res["pdf"] = None),
           r.kind = "html" => res["pdf"] = Missing,
           r.kind = "pdf" => r.html # None,
           res[r.kind] # Missing,
           r.pdf # None => slot[<<r.doc, "pdf">>] # None,
           NEW s, s = AfterFormat(r), NEW stored \in BOOLEAN
    PROVE  /\ s \in Run /\ s.stage \in {"fetch", "availability", "finish"}
           /\ s.job = r.job /\ s.doc = r.doc
           /\ AtFormat(s, res, stored) /\ Remembers(s, res) /\ Ending(s)
  <1>1. /\ r.html \in Objects /\ r.pdf \in Objects /\ r.kind \in {"html", "pdf"}
        /\ r.downloaded \in Nat /\ r.failed \in Nat
    BY DEF Run, Kinds
  <1>2. /\ r.html = IF res["html"] \in Hashes THEN res["html"] ELSE None
        /\ r.pdf = IF res["pdf"] \in Hashes THEN res["pdf"] ELSE None
        /\ res["html"] \in Objects \cup {Missing} /\ res["pdf"] \in Objects \cup {Missing}
    BY DEF Own, Kinds
  <1>3. None \notin Hashes /\ Missing \notin Hashes /\ Missing # None /\ LinksPdf \subseteq Hashes
    BY BlobAssumption, DownloadAssumption
  <1>4. CASE r.kind = "html" /\ r.html \in LinksPdf
    <2>1. s = [r EXCEPT !.stage = "fetch", !.kind = "pdf"]
      BY <1>4 DEF AfterFormat
    <2>2. s \in Run
      BY <2>1 DEF Run, Stages, Kinds
    <2>3. /\ s.stage = "fetch" /\ s.kind = "pdf" /\ s.job = r.job /\ s.doc = r.doc
          /\ s.html = r.html /\ s.pdf = r.pdf
          /\ s.downloaded = r.downloaded /\ s.failed = r.failed
      BY <2>1 DEF Run
    <2>4. res["pdf"] = Missing /\ r.html # None
      BY <1>3, <1>4
    <2>5. AtFormat(s, res, stored)
      BY <1>2, <1>3, <2>3, <2>4 DEF AtFormat, Formats, Own
    <2>6. Remembers(s, res)
      BY <1>2, <2>3, <2>4 DEF Remembers, Own, InFlight, Lost, Kinds
    <2>7. Ending(s)
      BY <2>3 DEF Ending
    <2> QED  BY <2>2, <2>3, <2>5, <2>6, <2>7
  <1>5. CASE ~(r.kind = "html" /\ r.html \in LinksPdf)
    <2>1. s = [r EXCEPT !.stage = IF r.html # None THEN "availability" ELSE "finish"]
      BY <1>5 DEF AfterFormat
    <2>2. s \in Run
      BY <2>1 DEF Run, Stages
    <2>3. /\ s.stage = (IF r.html # None THEN "availability" ELSE "finish")
          /\ s.kind = r.kind /\ s.job = r.job /\ s.doc = r.doc
          /\ s.html = r.html /\ s.pdf = r.pdf
          /\ s.downloaded = r.downloaded /\ s.failed = r.failed
      BY <2>1 DEF Run
    <2>4. AtFormat(s, res, stored)
      BY <2>3 DEF AtFormat, Formats
    <2>5. Remembers(s, res)
      BY <1>2, <2>3 DEF Remembers, Own, InFlight, Lost, Kinds
    <2>6. r.html = None => r.failed > 0
      <3>1. SUFFICES ASSUME r.html = None PROVE r.failed > 0
        OBVIOUS
      <3>2. res["html"] = None
        BY <1>1, <1>2, <1>3, <3>1 DEF Objects
      <3> QED  BY <3>2 DEF One
    <2>7. Ending(s)
      BY <2>3, <2>6 DEF Ending
    <2> QED  BY <2>2, <2>3, <2>4, <2>5, <2>7
  <1> QED  BY <1>4, <1>5

\* The parts of a live run.
LEMMA LiveRun ==
    ASSUME DownloadInv, NEW p \in Processes, Live(p)
    PROVE  /\ run[p] \in Run /\ put[p] \in Call
           /\ run[p].job \in JobNumbers /\ jobs[run[p].job] \in JobRow
           /\ jobs[run[p].job].result \in [Kinds -> Objects \cup {Missing}]
           /\ jobs[run[p].job].status = "RUNNING" /\ jobs[run[p].job].doc = run[p].doc
           /\ AtFormat(run[p], jobs[run[p].job].result, On(p, "stored"))
           /\ Remembers(run[p], jobs[run[p].job].result)
           /\ Ending(run[p]) /\ CallOf(p)
           /\ run \in [Processes -> Run] /\ jobs \in Seq(JobRow) /\ Len(jobs) <= MaxJobs
  <1>1. run[p] \in Run /\ put[p] \in Call /\ jobs \in Seq(JobRow) /\ RunOf(p)
        /\ run \in [Processes -> Run] /\ Len(jobs) <= MaxJobs
    BY DEF DownloadInv, TypeOK, BlobTypeOK
  <1>2. run[p].job \in JobNumbers
    BY <1>1 DEF RunOf, JobOf
  <1>3. jobs[run[p].job] \in JobRow
    BY <1>1, <1>2 DEF JobNumbers
  <1> QED  BY <1>1, <1>2, <1>3 DEF RunOf, JobOf, JobRow

\* A step that moves neither the jobs nor the archive.
LEMMA RunMoves ==
    ASSUME DownloadInv, NEW p \in Processes, NEW r \in Run, Live(p),
           run' = [run EXCEPT ![p] = r], UNCHANGED <<put, catalog, slot, jobs>>,
           r.stage \notin {"idle", "archiving"}, run[p].stage # "archiving",
           r.job = run[p].job, r.doc = run[p].doc,
           AtFormat(r, jobs[r.job].result, FALSE), Remembers(r, jobs[r.job].result), Ending(r)',
           BlobNext, logs \subseteq logs', logs' \subseteq Log,
           pdfAvailable' \in [Documents -> {"listed", "yes", "no"}], AvailabilityIsBacked'
    PROVE  DownloadInv'
  <1>1. run' \in [Processes -> Run] /\ run'[p] = r
        /\ \A q \in Processes : q # p => run'[q] = run[q]
    BY LiveRun, RunOne
  <1>2. TypeOK'
    BY <1>1, ArchiveGrows DEF DownloadInv, TypeOK
  <1>3. On(p, "none") /\ CallOf(p)
    BY LiveRun DEF CallOf, At
  <1>4. AtFormat(r, jobs[r.job].result, On(p, "stored"))
    BY <1>3 DEF On
  <1>5. RunOf(p)'
    BY <1>1, <1>3, <1>4, LiveRun DEF RunOf, CallOf, JobOf, Live, At, On, JobNumbers
  <1>6. Results'
    BY DEF DownloadInv, Results, JobNumbers
  <1> QED  BY <1>1, <1>2, <1>5, <1>6, Elsewhere DEF JobNumbers

-----------------------------------------------------------------------------
(* The steps of a run.                                                     *)

LEMMA FetchKeeps ==
    ASSUME DownloadInv, BlobNext, NEW p \in Processes, Fetch(p) PROVE DownloadInv'
  <1>1. PICK bytes \in BytesOf(run[p].kind) \cup {None} :
            run' = [run EXCEPT ![p].stage = "result", ![p].response = bytes]
    BY DEF Fetch
  <1>2. Live(p) /\ run[p].stage = "fetch" /\ UNCHANGED <<blobVars, jobs, pdfAvailable, logs>>
    BY DEF Fetch, At, Live
  <1>3. bytes \in Objects
    BY DownloadAssumption DEF BytesOf, Objects
  <1>4. PICK r : r = [run[p] EXCEPT !.stage = "result", !.response = bytes]
    OBVIOUS
  <1>5. /\ r \in Run /\ r.stage = "result" /\ r.job = run[p].job /\ r.doc = run[p].doc
        /\ r.kind = run[p].kind /\ r.html = run[p].html /\ r.pdf = run[p].pdf
        /\ r.downloaded = run[p].downloaded /\ r.failed = run[p].failed
    BY <1>2, <1>3, <1>4, LiveRun DEF Run, Stages
  <1>6. run' = [run EXCEPT ![p] = r]
    BY <1>1, <1>4
  <1>7. AtFormat(r, jobs[r.job].result, FALSE) /\ Remembers(r, jobs[r.job].result)
    BY <1>2, <1>5, LiveRun DEF AtFormat, Remembers, Formats, Own, InFlight, Lost
  <1>8. Ending(r)'
    BY <1>2, <1>5, LiveRun DEF Ending, blobVars
  <1>9. AvailabilityIsBacked'
    BY <1>2 DEF DownloadInv, AvailabilityIsBacked, blobVars
  <1> QED
    BY <1>2, <1>5, <1>6, <1>7, <1>8, <1>9, RunMoves DEF blobVars, DownloadInv, TypeOK

LEMMA UpdateAvailabilityKeeps ==
    ASSUME DownloadInv, BlobNext, NEW p \in Processes, UpdateAvailability(p) PROVE DownloadInv'
  <1>1. Live(p) /\ run[p].stage = "availability" /\ UNCHANGED <<blobVars, jobs, logs>>
        /\ pdfAvailable' = [pdfAvailable EXCEPT ![run[p].doc] =
                                IF run[p].pdf # None THEN "yes" ELSE "no"]
    BY DEF UpdateAvailability, At, Live
  <1>2. PICK r : r = [run[p] EXCEPT !.stage = "log"]
    OBVIOUS
  <1>3. /\ r \in Run /\ r.stage = "log" /\ r.job = run[p].job /\ r.doc = run[p].doc
        /\ r.kind = run[p].kind /\ r.html = run[p].html /\ r.pdf = run[p].pdf
        /\ r.downloaded = run[p].downloaded /\ r.failed = run[p].failed
    BY <1>1, <1>2, LiveRun DEF Run, Stages
  <1>4. run' = [run EXCEPT ![p] = r]
    BY <1>2 DEF UpdateAvailability, Goto
  <1>5. AtFormat(r, jobs[r.job].result, FALSE) /\ Remembers(r, jobs[r.job].result)
    BY <1>1, <1>3, LiveRun DEF AtFormat, Remembers, Formats, Own, InFlight, Lost
  <1>6. Ending(run[p]) /\ run[p].doc \in Documents
    BY <1>1, LiveRun DEF Run
  <1>7. Ending(r)'
    BY <1>1, <1>3, <1>6 DEF Ending, blobVars
  <1>8. pdfAvailable \in [Documents -> {"listed", "yes", "no"}] /\ AvailabilityIsBacked
    BY DEF DownloadInv, TypeOK
  <1>9. AvailabilityIsBacked'
    BY <1>1, <1>6, <1>8 DEF AvailabilityIsBacked, Ending, blobVars
  <1>10. pdfAvailable' \in [Documents -> {"listed", "yes", "no"}]
    BY <1>1, <1>8
  <1> QED
    BY <1>1, <1>3, <1>4, <1>5, <1>7, <1>9, <1>10, RunMoves DEF blobVars, DownloadInv, TypeOK

LEMMA WriteImportLogKeeps ==
    ASSUME DownloadInv, BlobNext, NEW p \in Processes, WriteImportLog(p) PROVE DownloadInv'
  <1>1. Live(p) /\ run[p].stage = "log" /\ UNCHANGED <<blobVars, jobs, pdfAvailable>>
        /\ logs' = logs \cup {[doc |-> run[p].doc, html |-> run[p].html, pdf |-> run[p].pdf]}
    BY DEF WriteImportLog, At, Live
  <1>2. PICK r : r = [run[p] EXCEPT !.stage = "finish"]
    OBVIOUS
  <1>3. /\ r \in Run /\ r.stage = "finish" /\ r.job = run[p].job /\ r.doc = run[p].doc
        /\ r.kind = run[p].kind /\ r.html = run[p].html /\ r.pdf = run[p].pdf
        /\ r.downloaded = run[p].downloaded /\ r.failed = run[p].failed
    BY <1>1, <1>2, LiveRun DEF Run, Stages
  <1>4. run' = [run EXCEPT ![p] = r]
    BY <1>2 DEF WriteImportLog, Goto
  <1>5. AtFormat(r, jobs[r.job].result, FALSE) /\ Remembers(r, jobs[r.job].result)
    BY <1>1, <1>3, LiveRun DEF AtFormat, Remembers, Formats, Own, InFlight, Lost
  <1>6. Ending(run[p]) /\ run[p] \in Run
    BY <1>1, LiveRun
  <1>7. Ending(r)'
    BY <1>1, <1>3, <1>6 DEF Ending, blobVars
  <1>8. logs \subseteq Log /\ AvailabilityIsBacked
    BY DEF DownloadInv, TypeOK
  <1>9. logs' \subseteq Log
    BY <1>1, <1>6, <1>8 DEF Log, Run
  <1>10. AvailabilityIsBacked'
    BY <1>1, <1>8 DEF AvailabilityIsBacked, blobVars
  <1> QED
    BY <1>1, <1>3, <1>4, <1>5, <1>7, <1>9, <1>10, RunMoves DEF blobVars, DownloadInv, TypeOK

\* A run that ends leaves nothing to say of its process.
LEMMA RunEnds ==
    ASSUME DownloadInv, BlobNext, TypeOK', NEW p \in Processes, Live(p),
           run' = [run EXCEPT ![p] = NoRun], On(p, "none")',
           \A q \in Processes : q # p => put'[q] = put[q],
           JobNumbers' = JobNumbers,
           NEW i, i = run[p].job, \A j \in JobNumbers : j # i => jobs'[j] = jobs[j],
           jobs'[i].result = jobs[i].result, jobs'[i] = jobs[i] \/ JobIsRight(i)',
           logs' = logs, pdfAvailable' = pdfAvailable
    PROVE  DownloadInv'
  <1>1. run'[p].stage = "idle" /\ \A q \in Processes : q # p => run'[q] = run[q]
    BY LiveRun, RunOne, NoRunIsRun
  <1>2. RunOf(p)'
    BY <1>1 DEF RunOf, CallOf, JobOf, Live, At
  <1>3. Results'
    <2>1. \A j \in JobNumbers : jobs'[j].result = jobs[j].result
      OBVIOUS
    <2> QED  BY <2>1, ArchiveGrows DEF DownloadInv, Results
  <1>4. AvailabilityIsBacked'
    <2>1. \A d \in Documents : <<d, "pdf">> \in Documents \X Kinds
      BY DEF Kinds
    <2> QED  BY <2>1, ArchiveGrows DEF DownloadInv, AvailabilityIsBacked
  <1>5. ~Live(p)'
    BY <1>1 DEF Live, At
  <1> QED  BY <1>1, <1>2, <1>3, <1>4, <1>5, Elsewhere

LEMMA FailStatementKeeps ==
    ASSUME DownloadInv, BlobNext, NEW p \in Processes, FailStatement(p) PROVE DownloadInv'
  <1>1. /\ run[p].stage \in {"result", "availability", "log", "finish", "abort"} /\ Live(p)
        /\ UNCHANGED <<file, catalog, slot, put, jobs, pdfAvailable, logs>>
    BY DEF FailStatement, Live, At
  <1>2. CASE At(p, "abort")
    <2>1. run' = [run EXCEPT ![p] = NoRun]
      BY <1>2 DEF FailStatement
    <2>2. run' \in [Processes -> Run]
      BY <1>1, <2>1, LiveRun, RunOne, NoRunIsRun
    <2>3. TypeOK'
      BY <1>1, <2>2, ArchiveGrows DEF DownloadInv, TypeOK
    <2>4. On(p, "none")'
      BY <1>1, <1>2, LiveRun DEF CallOf, On, At
    <2>5. JobNumbers' = JobNumbers /\ \A j \in JobNumbers : jobs'[j] = jobs[j]
      BY <1>1 DEF JobNumbers
    <2>6. logs' = logs /\ pdfAvailable' = pdfAvailable
          /\ \A q \in Processes : q # p => put'[q] = put[q]
      BY <1>1
    <2>7. PICK i : i = run[p].job
      OBVIOUS
    <2>8. i \in JobNumbers
      BY <1>1, <2>7, LiveRun
    <2> QED  BY <1>1, <2>1, <2>3, <2>4, <2>5, <2>6, <2>7, <2>8, RunEnds
  <1>3. CASE ~At(p, "abort")
    <2>1. PICK r : r = [run[p] EXCEPT !.stage = "abort"]
      OBVIOUS
    <2>2. /\ r \in Run /\ r.stage = "abort" /\ r.job = run[p].job /\ r.doc = run[p].doc
          /\ r.kind = run[p].kind /\ r.html = run[p].html /\ r.pdf = run[p].pdf
          /\ r.downloaded = run[p].downloaded /\ r.failed = run[p].failed
      BY <1>1, <2>1, LiveRun DEF Run, Stages
    <2>3. run' = [run EXCEPT ![p] = r]
      BY <1>3, <2>1 DEF FailStatement
    <2>4. run[p].failed \in Nat
      BY <1>1, LiveRun DEF Run
    <2>5. AtFormat(r, jobs[r.job].result, FALSE)
      BY <2>2 DEF AtFormat, Formats
    <2>6. Remembers(r, jobs[r.job].result)
      BY <1>1, <1>3, <2>2, <2>4, LiveRun DEF Remembers, Own, InFlight, Lost, At
    <2>7. Ending(r)'
      BY <1>1, <2>2, LiveRun DEF Ending
    <2>8. AvailabilityIsBacked'
      BY <1>1 DEF DownloadInv, AvailabilityIsBacked
    <2> QED
      BY <1>1, <2>2, <2>3, <2>5, <2>6, <2>7, <2>8, RunMoves DEF DownloadInv, TypeOK
  <1> QED  BY <1>2, <1>3

LEMMA StopRunKeeps ==
    ASSUME DownloadInv, BlobNext, NEW p \in Processes, StopRun(p) PROVE DownloadInv'
  <1>1. Live(p) /\ run' = [run EXCEPT ![p] = NoRun] /\ put' = [put EXCEPT ![p] = NoCall]
        /\ UNCHANGED <<file, catalog, slot, jobs, pdfAvailable, logs>>
    BY DEF StopRun, Live
  <1>2. run' \in [Processes -> Run]
    BY <1>1, LiveRun, RunOne, NoRunIsRun
  <1>3. TypeOK'
    BY <1>1, <1>2, ArchiveGrows DEF DownloadInv, TypeOK
  <1>4. On(p, "none")' /\ \A q \in Processes : q # p => put'[q] = put[q]
    BY <1>1, PutOne, NoCallIsCall DEF On, DownloadInv, TypeOK
  <1>5. JobNumbers' = JobNumbers /\ \A j \in JobNumbers : jobs'[j] = jobs[j]
    BY <1>1 DEF JobNumbers
  <1>6. logs' = logs /\ pdfAvailable' = pdfAvailable
    BY <1>1
  <1>7. PICK i : i = run[p].job
    OBVIOUS
  <1>8. i \in JobNumbers
    BY <1>1, <1>7, LiveRun
  <1> QED  BY <1>1, <1>3, <1>4, <1>5, <1>6, <1>7, <1>8, RunEnds

LEMMA BeginKeeps ==
    ASSUME DownloadInv, BlobNext, NEW p \in Processes, NEW d \in Documents, Begin(p, d)
    PROVE  DownloadInv'
  <1>1. PICK row : row = [doc |-> d, status |-> "RUNNING", downloaded |-> 0, failed |-> 0,
                          result |-> [k \in Kinds |-> Missing]]
    OBVIOUS
  <1>2. At(p, "idle") /\ Len(jobs) < MaxJobs /\ jobs' = Append(jobs, row)
        /\ run' = [run EXCEPT ![p] = NewRun("fetch", d, Len(jobs) + 1)]
        /\ UNCHANGED <<blobVars, pdfAvailable, logs>>
    BY <1>1 DEF Begin
  <1>3. jobs \in Seq(JobRow) /\ run \in [Processes -> Run] /\ Len(jobs) \in Nat
    BY DEF DownloadInv, TypeOK
  <1>4. row \in JobRow /\ row.status = "RUNNING" /\ row.doc = d
        /\ row.result["html"] = Missing /\ row.result["pdf"] = Missing
    BY <1>1 DEF JobRow, Kinds
  <1>5. /\ jobs' \in Seq(JobRow) /\ Len(jobs') = Len(jobs) + 1 /\ jobs'[Len(jobs) + 1] = row
        /\ \A j \in JobNumbers : jobs'[j] = jobs[j]
        /\ JobNumbers' = JobNumbers \cup {Len(jobs) + 1} /\ Len(jobs) + 1 \notin JobNumbers
    BY <1>2, <1>3, <1>4 DEF JobNumbers
  <1>6. PICK r : r = NewRun("fetch", d, Len(jobs) + 1)
    OBVIOUS
  <1>7. /\ r \in Run /\ r.stage = "fetch" /\ r.job = Len(jobs) + 1 /\ r.doc = d
        /\ r.kind = "html" /\ r.html = None /\ r.pdf = None
        /\ r.downloaded = 0 /\ r.failed = 0
    BY <1>3, <1>6 DEF NewRun, Run, Stages, Kinds, Objects
  <1>8. run' \in [Processes -> Run] /\ run'[p] = r
        /\ \A q \in Processes : q # p => run'[q] = run[q]
    BY <1>2, <1>3, <1>6, <1>7, RunOne
  <1>9. MaxJobs \in Nat /\ Missing \notin Hashes /\ Missing # None
    BY DownloadAssumption
  <1>10. TypeOK'
    BY <1>2, <1>3, <1>5, <1>8, <1>9, ArchiveGrows DEF DownloadInv, TypeOK
  <1>11. On(p, "none")' /\ put' = put
    BY <1>2 DEF DownloadInv, RunOf, CallOf, At, On, blobVars
  <1>12. RunOf(p)'
    <2>1. AtFormat(r, row.result, FALSE) /\ Remembers(r, row.result) /\ Ending(r)'
      BY <1>4, <1>7, <1>9 DEF AtFormat, Remembers, Ending, Formats, Own, InFlight, Lost, One, Kinds
    <2>2. AtFormat(r, row.result, On(p, "stored")')
      BY <1>7, <1>4, <1>9 DEF AtFormat, Formats, Own
    <2> QED
      BY <1>4, <1>5, <1>7, <1>8, <1>11, <2>1, <2>2 DEF RunOf, CallOf, JobOf, At, On
  <1>13. Results'
    <2> SUFFICES ASSUME NEW j \in JobNumbers', NEW k \in Kinds
                 PROVE  jobs'[j].result[k] \in catalog' \cup {None, Missing}
      BY DEF Results
    <2>1. CASE j \in JobNumbers
      BY <1>2, <1>5, <2>1 DEF DownloadInv, Results, blobVars
    <2>2. CASE j = Len(jobs) + 1
      BY <1>4, <1>5, <2>2 DEF Kinds
    <2> QED  BY <1>5, <2>1, <2>2
  <1>14. AvailabilityIsBacked'
    BY <1>2 DEF DownloadInv, AvailabilityIsBacked, blobVars
  <1> QED
    BY <1>2, <1>4, <1>5, <1>7, <1>8, <1>10, <1>11, <1>12, <1>13, <1>14, Elsewhere

\* The last statement: the row says what the run's locals say.
LEMMA EndJobKeeps ==
    ASSUME DownloadInv, BlobNext, NEW p \in Processes,
           NEW status \in {"COMPLETED", "FAILED"}, NEW failed \in Nat,
           run[p].stage \in {"finish", "abort"}, EndJob(p, status, failed),
           IF status = "COMPLETED"
           THEN run[p].stage = "finish" /\ run[p].html # None /\ failed = run[p].failed
           ELSE failed > 0 /\ failed >= Lost(run[p], jobs[run[p].job].result)
    PROVE  DownloadInv'
  <1>1. Live(p) /\ UNCHANGED <<blobVars, pdfAvailable, logs>>
        /\ run' = [run EXCEPT ![p] = NoRun]
    BY DEF EndJob, Live, At
  <1>2. PICK i, r, res : i = run[p].job /\ r = run[p] /\ res = jobs[i].result
    OBVIOUS
  <1>3. /\ i \in JobNumbers /\ jobs[i] \in JobRow /\ r \in Run /\ jobs[i].doc = r.doc
        /\ res \in [Kinds -> Objects \cup {Missing}]
        /\ Remembers(r, res) /\ Ending(r) /\ CallOf(p)
    BY <1>1, <1>2, LiveRun
  <1>4. PICK row : row = [jobs[i] EXCEPT !.status = status, !.downloaded = r.downloaded,
                                         !.failed = failed]
    OBVIOUS
  <1>5. /\ row \in JobRow /\ row.status = status /\ row.downloaded = r.downloaded
        /\ row.failed = failed /\ row.result = res /\ row.doc = r.doc
    <2>1. r.downloaded \in Nat
      BY <1>3 DEF Run
    <2> QED  BY <1>2, <1>3, <1>4, <2>1 DEF JobRow
  <1>6. jobs' = [jobs EXCEPT ![i] = row]
    BY <1>2, <1>4 DEF EndJob
  <1>7. /\ jobs' \in Seq(JobRow) /\ Len(jobs') = Len(jobs) /\ JobNumbers' = JobNumbers
        /\ jobs'[i] = row
        /\ \A j \in JobNumbers : j # i => jobs'[j] = jobs[j]
    BY <1>1, <1>3, <1>5, <1>6, JobOne, LiveRun
  <1>8. TypeOK'
    <2>1. run' \in [Processes -> Run]
      BY <1>1, LiveRun, RunOne, NoRunIsRun
    <2> QED  BY <1>1, <1>7, <2>1, ArchiveGrows DEF DownloadInv, TypeOK
  <1>9. On(p, "none")' /\ put' = put
    BY <1>1, <1>3 DEF CallOf, At, On, blobVars
  <1>10. /\ r.html = IF res["html"] \in Hashes THEN res["html"] ELSE None
         /\ r.pdf = IF res["pdf"] \in Hashes THEN res["pdf"] ELSE None
         /\ Lost(r, res) = One(res["html"] = None) + One(res["pdf"] = None)
    BY <1>2, <1>3 DEF Remembers, Own, InFlight, Lost, Kinds
  <1>11. /\ None \notin Hashes /\ Missing \notin Hashes /\ Missing # None
         /\ "html" \in Kinds /\ "pdf" \in Kinds
         /\ res["html"] \in Objects \cup {Missing} /\ res["pdf"] \in Objects \cup {Missing}
    BY <1>3, BlobAssumption, DownloadAssumption DEF Kinds
  <1>12. JobIsRight(i)'
    <2> DEFINE A == {k \in Kinds : res[k] \in Hashes}
               N == {k \in Kinds : res[k] # Missing} \ A
    <2>1. Attached(i)' = A /\ (Tried(i) \ Attached(i))' = N
      BY <1>5, <1>7 DEF Attached, Tried
    <2>2. ("html" \in A <=> r.html # None) /\ ("pdf" \in A <=> r.pdf # None)
      BY <1>10, <1>11
    <2>3. ("html" \in N <=> res["html"] = None) /\ ("pdf" \in N <=> res["pdf"] = None)
      BY <1>11 DEF Objects
    <2>4. A \in SUBSET Kinds /\ N \in SUBSET Kinds
      OBVIOUS
    <2>5. \A k \in A : res[k] \in catalog'
      <3>1. \A k \in Kinds : res[k] \in catalog \cup {None, Missing}
        BY <1>2, <1>3 DEF DownloadInv, Results
      <3> QED  BY <1>1, <1>11, <3>1 DEF blobVars
    <2>6. ResultOf(i, "html")' = r.html /\ ResultOf(i, "pdf")' = r.pdf
      BY <1>5, <1>7, <1>10, <1>11, <2>1 DEF ResultOf
    <2> HIDE DEF A, N
    <2>7. Cardinality(A) = One(r.html # None) + One(r.pdf # None)
      BY <2>2, <2>4, KindsCount DEF One
    <2>8. Cardinality(N) = One(res["html"] = None) + One(res["pdf"] = None)
      BY <2>3, <2>4, KindsCount DEF One
    <2>9. row.downloaded = Cardinality(A)
      BY <1>3, <1>5, <2>7 DEF Remembers
    <2>10. CASE status = "COMPLETED"
      <3>1. r.stage = "finish" /\ r.html # None /\ failed = r.failed
        BY <1>2, <2>10
      <3>2. [doc |-> r.doc, html |-> r.html, pdf |-> r.pdf] \in logs'
        BY <1>1, <1>3, <3>1 DEF Ending
      <3>3. row.failed = Cardinality(N)
        BY <1>3, <1>5, <1>10, <2>8, <3>1 DEF Remembers
      <3>4. row.failed >= Cardinality(N)
        BY <1>5, <3>3
      <3> QED
        BY <1>5, <1>7, <2>1, <2>2, <2>5, <2>6, <2>9, <2>10, <3>1, <3>2, <3>3, <3>4 DEF JobIsRight
    <2>11. CASE status # "COMPLETED"
      <3>1. row.failed > 0 /\ row.failed >= Cardinality(N)
        BY <1>2, <1>5, <1>10, <2>8, <2>11
      <3> QED  BY <1>5, <1>7, <2>1, <2>9, <2>11, <3>1 DEF JobIsRight
    <2> QED  BY <2>10, <2>11
  <1>13. jobs'[i].result = jobs[i].result
    BY <1>2, <1>5, <1>7
  <1> QED
    BY <1>1, <1>2, <1>7, <1>8, <1>9, <1>12, <1>13, RunEnds

LEMMA FinishKeeps ==
    ASSUME DownloadInv, BlobNext, NEW p \in Processes, Finish(p) PROVE DownloadInv'
  <1>1. Live(p) /\ run[p].stage = "finish"
    BY DEF Finish, Live, At
  <1>2. /\ run[p].failed \in Nat /\ Ending(run[p])
        /\ run[p].failed = Lost(run[p], jobs[run[p].job].result)
    BY <1>1, LiveRun DEF Run, Remembers
  <1>3. PICK status, failed :
          status = (IF run[p].html # None THEN "COMPLETED" ELSE "FAILED") /\ failed = run[p].failed
    OBVIOUS
  <1>4. EndJob(p, status, failed)
    BY <1>3 DEF Finish
  <1>5. run[p].html = None => failed > 0
    BY <1>1, <1>2, <1>3 DEF Ending
  <1>6. failed >= Lost(run[p], jobs[run[p].job].result)
    BY <1>2, <1>3
  <1> QED  BY <1>1, <1>2, <1>3, <1>4, <1>5, <1>6, EndJobKeeps

LEMMA AbortKeeps ==
    ASSUME DownloadInv, BlobNext, NEW p \in Processes, Abort(p) PROVE DownloadInv'
  <1>1. Live(p) /\ run[p].stage = "abort"
    BY DEF Abort, Live, At
  <1>2. /\ run[p].failed \in Nat
        /\ run[p].failed + 1 >= Lost(run[p], jobs[run[p].job].result)
    BY <1>1, LiveRun DEF Run, Remembers
  <1>3. PICK failed, status : failed = run[p].failed + 1 /\ status = "FAILED"
    OBVIOUS
  <1>4. failed \in Nat /\ failed > 0 /\ EndJob(p, status, failed)
    BY <1>2, <1>3 DEF Abort
  <1> QED  BY <1>1, <1>2, <1>3, <1>4, EndJobKeeps

-----------------------------------------------------------------------------
(* The steps that store a format.                                          *)

LEMMA CrawlResultKeeps ==
    ASSUME DownloadInv, BlobNext, NEW p \in Processes, CrawlResult(p) PROVE DownloadInv'
  <1>1. Live(p) /\ run[p].stage = "result" /\ UNCHANGED <<blobVars, pdfAvailable, logs>>
    BY DEF CrawlResult, Live, At
  <1>2. PICK i, r, res, k : i = run[p].job /\ r = run[p] /\ res = jobs[i].result /\ k = r.kind
    OBVIOUS
  <1>3. /\ i \in JobNumbers /\ jobs[i] \in JobRow /\ r \in Run /\ jobs[i].doc = r.doc
        /\ res \in [Kinds -> Objects \cup {Missing}] /\ jobs[i].status = "RUNNING"
        /\ AtFormat(r, res, On(p, "stored")) /\ Remembers(r, res) /\ Ending(r) /\ CallOf(p)
        /\ jobs \in Seq(JobRow) /\ run \in [Processes -> Run] /\ k \in Kinds
    BY <1>1, <1>2, LiveRun DEF Run
  <1>4. PICK none : none = None
    OBVIOUS
  <1>5. jobs' = [jobs EXCEPT ![i].result[k] = none] /\ none \in Objects \cup {Missing}
    BY <1>2, <1>4 DEF CrawlResult, Objects
  <1>6. /\ jobs' \in Seq(JobRow) /\ Len(jobs') = Len(jobs) /\ JobNumbers' = JobNumbers
        /\ jobs'[i].result = [res EXCEPT ![k] = none]
        /\ jobs'[i].doc = jobs[i].doc /\ jobs'[i].status = jobs[i].status
        /\ \A j \in JobNumbers : j # i => jobs'[j] = jobs[j]
    <2>1. /\ jobs' \in Seq(JobRow) /\ Len(jobs') = Len(jobs) /\ JobNumbers' = JobNumbers
          /\ jobs'[i].result = [jobs[i].result EXCEPT ![k] = none]
          /\ jobs'[i].doc = jobs[i].doc /\ jobs'[i].status = jobs[i].status
          /\ \A j \in JobNumbers : j # i => jobs'[j] = jobs[j]
      BY ONLY <1>3, <1>5, JobResult, Zenon
    <2> QED  BY <1>2, <2>1
  <1>7. PICK res2 : res2 = [res EXCEPT ![k] = None]
    OBVIOUS
  <1>8. /\ res2 \in [Kinds -> Objects \cup {Missing}] /\ res2[k] = None
        /\ \A x \in Kinds : x # k => res2[x] = res[x]
        /\ jobs'[i].result = res2
    BY <1>3, <1>4, <1>6, <1>7 DEF Objects
  <1>9. None \notin Hashes /\ Missing \notin Hashes /\ Missing # None
    BY BlobAssumption, DownloadAssumption
  <1>10. /\ res[k] = Missing /\ Own(r, k) = None
         /\ k = "html" => res["pdf"] = Missing
         /\ k = "pdf" => r.html # None
    BY <1>1, <1>2, <1>3 DEF AtFormat, Formats
  <1>11. \A x \in Kinds : Own(r, x) = IF res2[x] \in Hashes THEN res2[x] ELSE None
    BY <1>1, <1>2, <1>3, <1>8, <1>9, <1>10 DEF Remembers, InFlight
  <1>12. r.downloaded = One(r.html # None) + One(r.pdf # None)
         /\ r.failed = One(res["html"] = None) + One(res["pdf"] = None) /\ r.failed \in Nat
    BY <1>1, <1>2, <1>3 DEF Remembers, Lost, InFlight, Run
  <1>13. One(res2["html"] = None) + One(res2["pdf"] = None) = r.failed + 1
    BY <1>3, <1>8, <1>9, <1>10, <1>12 DEF One, Kinds
  <1>14. \E s \in Run :
            /\ run' = [run EXCEPT ![p] = s] /\ s.stage \notin {"idle", "archiving"}
            /\ s.job = r.job /\ s.doc = r.doc
            /\ AtFormat(s, res2, FALSE) /\ Remembers(s, res2) /\ Ending(s)
    <2>1. CASE r.response = None
      <3>0. PICK n : n = r.failed + 1
        OBVIOUS
      <3>1. PICK f : f = [r EXCEPT !.failed = n]
        OBVIOUS
      <3>1n. n \in Nat
        BY <1>12, <3>0
      <3>2. /\ f \in Run /\ f.failed = r.failed + 1 /\ f.stage = r.stage /\ f.kind = r.kind
            /\ f.html = r.html /\ f.pdf = r.pdf /\ f.downloaded = r.downloaded
            /\ f.job = r.job /\ f.doc = r.doc
        BY <1>3, <3>0, <3>1, <3>1n DEF Run
      <3>3. PICK s : s = AfterFormat(f)
        OBVIOUS
      <3>4. run' = [run EXCEPT ![p] = s]
        BY <1>2, <2>1, <3>0, <3>1, <3>3 DEF CrawlResult
      <3>5. \A x \in Kinds : Own(f, x) = IF res2[x] \in Hashes THEN res2[x] ELSE None
        BY <1>11, <3>2 DEF Own
      <3>6. f.downloaded = One(f.html # None) + One(f.pdf # None)
            /\ f.failed = One(res2["html"] = None) + One(res2["pdf"] = None)
        BY <1>12, <1>13, <3>2
      <3>7. (f.kind = "html" => res2["pdf"] = Missing) /\ (f.kind = "pdf" => f.html # None)
            /\ res2[f.kind] # Missing
        BY <1>2, <1>8, <1>9, <1>10, <3>2 DEF Kinds
      <3>8. f.pdf # None => slot[<<f.doc, "pdf">>] # None
        BY <1>3, <3>2 DEF Ending
      <3>9. PICK stored : stored = FALSE
        OBVIOUS
      <3>10. /\ s \in Run /\ s.stage \in {"fetch", "availability", "finish"}
             /\ s.job = f.job /\ s.doc = f.doc
             /\ AtFormat(s, res2, stored) /\ Remembers(s, res2) /\ Ending(s)
        BY <1>8, <3>2, <3>3, <3>5, <3>6, <3>7, <3>8, <3>9, AfterFormatKeeps
      <3> QED  BY <3>2, <3>4, <3>9, <3>10
    <2>2. CASE r.response # None
      <3>1. PICK s : s = [r EXCEPT !.stage = "archive"]
        OBVIOUS
      <3>2. /\ s \in Run /\ s.stage = "archive" /\ s.kind = k /\ s.response = r.response
            /\ s.html = r.html /\ s.pdf = r.pdf /\ s.downloaded = r.downloaded
            /\ s.job = r.job /\ s.doc = r.doc /\ s.failed = r.failed
        BY <1>2, <1>3, <3>1 DEF Run, Stages
      <3>3. run' = [run EXCEPT ![p] = s]
        BY <1>2, <2>2, <3>1 DEF CrawlResult
      <3>4. r.response \in Hashes
        BY <1>3, <2>2 DEF Run, Objects
      <3>5. AtFormat(s, res2, FALSE)
        BY <1>8, <1>10, <3>2, <3>4 DEF AtFormat, Formats, Own, Kinds
      <3>6. Remembers(s, res2)
        <4>1. Lost(s, res2) = r.failed
          BY <1>3, <1>8, <1>9, <1>10, <1>12, <3>2 DEF Lost, InFlight, One, Kinds
        <4>2. \A x \in Kinds : Own(s, x) = Own(r, x)
          BY <3>2 DEF Own
        <4> QED  BY <1>11, <1>12, <3>2, <4>1, <4>2 DEF Remembers
      <3>7. Ending(s)
        BY <1>3, <3>2 DEF Ending
      <3> QED  BY <3>2, <3>3, <3>5, <3>6, <3>7
    <2> QED  BY <2>1, <2>2
  <1>15. PICK s \in Run :
            /\ run' = [run EXCEPT ![p] = s] /\ s.stage \notin {"idle", "archiving"}
            /\ s.job = r.job /\ s.doc = r.doc
            /\ AtFormat(s, res2, FALSE) /\ Remembers(s, res2) /\ Ending(s)
    BY <1>14
  <1>16. run' \in [Processes -> Run] /\ run'[p] = s
         /\ \A q \in Processes : q # p => run'[q] = run[q]
    BY <1>3, <1>15, RunOne
  <1>17. TypeOK'
    BY <1>1, <1>6, <1>16, ArchiveGrows DEF DownloadInv, TypeOK
  <1>18. On(p, "none") /\ put' = put /\ slot' = slot /\ catalog' = catalog
    BY <1>1, <1>3 DEF CallOf, At, On, blobVars
  <1>19. AtFormat(s, res2, On(p, "stored")')
    BY <1>15, <1>18 DEF On
  <1>20. Ending(s)'
    BY <1>1, <1>15, <1>18 DEF Ending
  <1>21. RunOf(p)'
    BY <1>2, <1>3, <1>6, <1>8, <1>15, <1>16, <1>18, <1>19, <1>20 DEF RunOf, CallOf, JobOf, At, On
  <1>22. Results'
    <2> SUFFICES ASSUME NEW j \in JobNumbers, NEW x \in Kinds
                 PROVE  jobs'[j].result[x] \in catalog \cup {None, Missing}
      BY <1>6, <1>18 DEF Results
    <2>1. jobs[j].result[x] \in catalog \cup {None, Missing}
      BY DEF DownloadInv, Results
    <2> QED  BY <1>2, <1>6, <1>8, <2>1
  <1>23. AvailabilityIsBacked'
    BY <1>1, <1>18 DEF DownloadInv, AvailabilityIsBacked
  <1>24. \A j \in JobNumbers' : jobs'[j].status # "RUNNING" =>
             (j \in JobNumbers /\ jobs'[j] = jobs[j]) \/ JobIsRight(j)'
    BY <1>3, <1>6
  <1>25. \A j \in JobNumbers : jobs'[j] = jobs[j] \/ (Live(p) /\ j = run[p].job)
    BY <1>1, <1>2, <1>6
  <1> QED
    BY <1>1, <1>2, <1>6, <1>15, <1>16, <1>17, <1>18, <1>21, <1>22, <1>23, <1>24, <1>25, Elsewhere

LEMMA CallArchiveKeeps ==
    ASSUME DownloadInv, BlobNext, NEW p \in Processes, CallArchive(p) PROVE DownloadInv'
  <1>1. Live(p) /\ run[p].stage = "archive" /\ UNCHANGED <<file, catalog, slot, jobs, pdfAvailable, logs>>
        /\ Goto(p, "archiving")
    BY DEF CallArchive, Archive, Live, At
  <1>2. PICK r, res : r = run[p] /\ res = jobs[r.job].result
    OBVIOUS
  <1>3. /\ r \in Run /\ AtFormat(r, res, On(p, "stored")) /\ Remembers(r, res) /\ Ending(r)
        /\ run \in [Processes -> Run] /\ r.job \in JobNumbers
        /\ jobs[r.job].status = "RUNNING" /\ jobs[r.job].doc = r.doc
    BY <1>1, <1>2, LiveRun
  <1>4. r.response \in Hashes /\ r.doc \in Documents /\ r.kind \in Kinds
    BY <1>1, <1>2, <1>3 DEF AtFormat, Run
  <1>5. PICK c : c = [step |-> "open", doc |-> r.doc, kind |-> r.kind, hash |-> r.response]
    OBVIOUS
  <1>6. c \in Call
    BY <1>4, <1>5 DEF Call, Steps
  <1>7. put' = [put EXCEPT ![p] = c]
    BY <1>2, <1>5 DEF CallArchive, Archive
  <1>8. put'[p] = c /\ \A q \in Processes : q # p => put'[q] = put[q]
    BY <1>6, <1>7, PutOne DEF DownloadInv, TypeOK
  <1>9. PICK s : s = [r EXCEPT !.stage = "archiving"]
    OBVIOUS
  <1>10. /\ s.stage = "archiving" /\ s.kind = r.kind /\ s.job = r.job /\ s.doc = r.doc
         /\ s.response = r.response /\ s.html = r.html /\ s.pdf = r.pdf
         /\ s.downloaded = r.downloaded /\ s.failed = r.failed
    BY <1>3, <1>9 DEF Run
  <1>11. /\ run' \in [Processes -> Run] /\ run'[p] = s
         /\ \A q \in Processes : q # p => run'[q] = run[q]
    BY <1>1, <1>2, <1>3, <1>9, GoesTo DEF Stages
  <1>12. TypeOK'
    BY <1>1, <1>11, ArchiveGrows DEF DownloadInv, TypeOK
  <1>13. ~On(p, "stored")' /\ ~On(p, "none")'
    BY <1>5, <1>8 DEF On
  <1>14. AtFormat(s, res, On(p, "stored")')
    BY <1>1, <1>2, <1>3, <1>10, <1>13 DEF AtFormat, Formats, Own
  <1>15. Remembers(s, res)
    BY <1>1, <1>2, <1>3, <1>10 DEF Remembers, Own, InFlight, Lost
  <1>16. Ending(s)'
    BY <1>1, <1>3, <1>10 DEF Ending
  <1>17. CallOf(p)'
    BY <1>5, <1>8, <1>10, <1>11, <1>13 DEF CallOf, At
  <1>18. JobOf(p)'
    BY <1>1, <1>3, <1>10, <1>11 DEF JobOf, JobNumbers
  <1>19. RunOf(p)'
    BY <1>1, <1>2, <1>10, <1>11, <1>14, <1>15, <1>16, <1>17, <1>18 DEF RunOf
  <1>20. Results' /\ AvailabilityIsBacked'
    BY <1>1 DEF DownloadInv, Results, AvailabilityIsBacked, JobNumbers
  <1> QED
    BY <1>1, <1>2, <1>8, <1>10, <1>11, <1>12, <1>19, <1>20, Elsewhere DEF JobNumbers

\* Between the begin of a call and the attach, only the call moves.
LEMMA ArchiveStepKeeps ==
    ASSUME DownloadInv, BlobNext, NEW p \in Processes, ArchiveStep(p) \/ ArchiveFails(p)
    PROVE  DownloadInv'
  <1>1. /\ Storing(p) \/ Failing(p)
        /\ jobs' = jobs /\ pdfAvailable' = pdfAvailable /\ logs' = logs /\ run' = run
    BY DEF ArchiveStep, ArchiveFails, downloadVars
  <1>2. put[p].step \in Steps
    BY <1>1 DEF Storing, Open, Write, Sync, Stat, Reread, FindByChecksum, CreateObject,
       Failing, FailWrite, UndoWrite, FailQuery, On, Steps
  <1>3. PICK s \in Steps \cup {"failed"} : Proceed(p, s)
    BY <1>1 DEF Storing, Open, Write, Sync, Stat, Reread, FindByChecksum, CreateObject,
       Failing, FailWrite, UndoWrite, FailQuery, Steps
  <1>4. /\ put'[p].step = s /\ put'[p].doc = put[p].doc /\ put'[p].kind = put[p].kind
        /\ put'[p].hash = put[p].hash /\ \A q \in Processes : q # p => put'[q] = put[q]
    BY <1>3, Proceeds DEF DownloadInv, TypeOK
  <1>5. Live(p) /\ At(p, "archiving")
    BY <1>2 DEF DownloadInv, RunOf, CallOf, On, Live, At, Steps
  <1>6. /\ ~On(p, "none")' /\ ~On(p, "stored")' /\ ~On(p, "stored")
    BY <1>2, <1>4 DEF On, Steps
  <1>7. PICK r, res : r = run[p] /\ res = jobs[r.job].result
    OBVIOUS
  <1>8. /\ AtFormat(r, res, On(p, "stored")) /\ Remembers(r, res) /\ Ending(r) /\ r \in Run
        /\ CallOf(p) /\ JobOf(p)
    BY <1>5, <1>7, LiveRun DEF DownloadInv, RunOf
  <1>9. AtFormat(r, res, On(p, "stored")')
    BY <1>6, <1>8 DEF AtFormat
  <1>10. Ending(r)'
    <2>1. <<r.doc, "pdf">> \in Documents \X Kinds
      BY <1>8 DEF Run, Kinds
    <2> QED  BY <1>1, <1>8, <2>1, ArchiveGrows DEF Ending
  <1>11. RunOf(p)'
    BY <1>1, <1>4, <1>5, <1>6, <1>7, <1>8, <1>9, <1>10 DEF RunOf, CallOf, JobOf, At, Live, JobNumbers
  <1>12. TypeOK'
    BY <1>1, ArchiveGrows DEF DownloadInv, TypeOK
  <1>13. Results'
    BY <1>1, ArchiveGrows DEF DownloadInv, Results, JobNumbers
  <1>14. AvailabilityIsBacked'
    <2>1. \A d \in Documents : <<d, "pdf">> \in Documents \X Kinds
      BY DEF Kinds
    <2> QED  BY <1>1, <2>1, ArchiveGrows DEF DownloadInv, AvailabilityIsBacked
  <1> QED
    BY <1>1, <1>4, <1>5, <1>11, <1>12, <1>13, <1>14, Elsewhere DEF JobNumbers

LEMMA AttachObjectKeeps ==
    ASSUME DownloadInv, BlobNext, NEW p \in Processes, AttachObject(p) PROVE DownloadInv'
  <1>1. /\ On(p, "attach") /\ Proceed(p, "stored")
        /\ pdfAvailable' = pdfAvailable /\ logs' = logs /\ run' = run
        /\ catalog' = catalog
    BY DEF AttachObject, Attach
  <1>2. Live(p) /\ At(p, "archiving")
    BY <1>1 DEF DownloadInv, RunOf, CallOf, On, Live, At
  <1>3. PICK i, r, res, k, h : i = run[p].job /\ r = run[p] /\ res = jobs[i].result
                               /\ k = r.kind /\ h = r.response
    OBVIOUS
  <1>4. /\ i \in JobNumbers /\ jobs[i] \in JobRow /\ r \in Run /\ jobs[i].doc = r.doc
        /\ res \in [Kinds -> Objects \cup {Missing}] /\ jobs[i].status = "RUNNING"
        /\ AtFormat(r, res, On(p, "stored")) /\ Remembers(r, res) /\ Ending(r) /\ CallOf(p)
        /\ jobs \in Seq(JobRow) /\ run \in [Processes -> Run] /\ k \in Kinds
    BY <1>2, <1>3, LiveRun DEF Run
  <1>5. put[p].kind = k /\ put[p].hash = h /\ put[p].doc = r.doc /\ h \in Hashes /\ h \in catalog
    BY <1>1, <1>2, <1>3, <1>4 DEF CallOf, AtFormat, At, DownloadInv, CatalogInv, On
  <1>6. jobs' = [jobs EXCEPT ![i].result[k] = h] /\ h \in Objects \cup {Missing}
    BY <1>3, <1>5 DEF AttachObject, Objects
  <1>7. /\ jobs' \in Seq(JobRow) /\ Len(jobs') = Len(jobs) /\ JobNumbers' = JobNumbers
        /\ jobs'[i].result = [jobs[i].result EXCEPT ![k] = h]
        /\ jobs'[i].doc = jobs[i].doc /\ jobs'[i].status = jobs[i].status
        /\ \A j \in JobNumbers : j # i => jobs'[j] = jobs[j]
    BY ONLY <1>4, <1>6, JobResult, Zenon
  <1>8. PICK res2 : res2 = [res EXCEPT ![k] = h]
    OBVIOUS
  <1>9. /\ res2 \in [Kinds -> Objects \cup {Missing}] /\ res2[k] = h
        /\ \A x \in Kinds : x # k => res2[x] = res[x]
        /\ jobs'[i].result = res2
    BY <1>3, <1>4, <1>6, <1>7, <1>8
  <1>10. None \notin Hashes /\ Missing \notin Hashes /\ Missing # None
    BY BlobAssumption, DownloadAssumption
  <1>11. /\ put'[p].step = "stored" /\ put'[p].doc = put[p].doc /\ put'[p].kind = put[p].kind
         /\ put'[p].hash = put[p].hash /\ \A q \in Processes : q # p => put'[q] = put[q]
    BY <1>1, Proceeds DEF DownloadInv, TypeOK
  <1>12. On(p, "stored")' /\ ~On(p, "none")'
    BY <1>11 DEF On
  <1>13. AtFormat(r, res2, On(p, "stored")')
    BY <1>2, <1>3, <1>4, <1>9, <1>12 DEF AtFormat, Formats, At, Kinds
  <1>14. Remembers(r, res2)
    <2>1. Lost(r, res2) = Lost(r, res)
      BY <1>2, <1>3, <1>4, <1>9 DEF Lost, InFlight, At, Kinds
    <2>2. \A x \in Kinds : ~InFlight(r, x) => res2[x] = res[x]
      BY <1>2, <1>3, <1>9 DEF InFlight, At
    <2> QED  BY <1>4, <2>1, <2>2 DEF Remembers
  <1>15. Ending(r)'
    <2>1. <<r.doc, "pdf">> \in Documents \X Kinds
      BY <1>4 DEF Run, Kinds
    <2> QED  BY <1>1, <1>4, <2>1, ArchiveGrows DEF Ending
  <1>16. RunOf(p)'
    BY <1>1, <1>2, <1>3, <1>4, <1>7, <1>9, <1>11, <1>12, <1>13, <1>14, <1>15
       DEF RunOf, CallOf, JobOf, At, Live
  <1>17. TypeOK'
    BY <1>1, <1>7, ArchiveGrows DEF DownloadInv, TypeOK
  <1>18. Results'
    <2> SUFFICES ASSUME NEW j \in JobNumbers, NEW x \in Kinds
                 PROVE  jobs'[j].result[x] \in catalog \cup {None, Missing}
      BY <1>1, <1>7 DEF Results
    <2>1. jobs[j].result[x] \in catalog \cup {None, Missing}
      BY DEF DownloadInv, Results
    <2> QED  BY <1>3, <1>5, <1>7, <1>9, <2>1
  <1>19. AvailabilityIsBacked'
    <2>1. \A d \in Documents : <<d, "pdf">> \in Documents \X Kinds
      BY DEF Kinds
    <2> QED  BY <1>1, <2>1, ArchiveGrows DEF DownloadInv, AvailabilityIsBacked
  <1>20. \A j \in JobNumbers' : jobs'[j].status # "RUNNING" =>
             (j \in JobNumbers /\ jobs'[j] = jobs[j]) \/ JobIsRight(j)'
    BY <1>4, <1>7
  <1>21. \A j \in JobNumbers : jobs'[j] = jobs[j] \/ (Live(p) /\ j = run[p].job)
    BY <1>2, <1>3, <1>7
  <1> QED
    BY <1>1, <1>2, <1>7, <1>11, <1>16, <1>17, <1>18, <1>19, <1>20, <1>21, Elsewhere

LEMMA EndArchiveKeeps ==
    ASSUME DownloadInv, BlobNext, NEW p \in Processes, EndArchive(p) PROVE DownloadInv'
  <1>1. /\ run[p].stage = "archiving" /\ Live(p) /\ put' = [put EXCEPT ![p] = NoCall]
        /\ On(p, "stored") \/ On(p, "failed")
        /\ UNCHANGED <<file, catalog, slot, jobs, pdfAvailable, logs>>
    BY DEF EndArchive, Return, Live, At
  <1>2. PICK r, res : r = run[p] /\ res = jobs[r.job].result
    OBVIOUS
  <1>3. /\ r \in Run /\ AtFormat(r, res, On(p, "stored")) /\ Remembers(r, res) /\ Ending(r)
        /\ run \in [Processes -> Run] /\ r.job \in JobNumbers /\ CallOf(p)
        /\ res \in [Kinds -> Objects \cup {Missing}]
        /\ jobs[r.job].status = "RUNNING" /\ jobs[r.job].doc = r.doc
    BY <1>1, <1>2, LiveRun
  <1>4. On(p, "none")' /\ \A q \in Processes : q # p => put'[q] = put[q]
    BY <1>1, PutOne, NoCallIsCall DEF On, DownloadInv, TypeOK
  <1>5. ~On(p, "stored")'
    BY <1>4 DEF On
  <1>6. None \notin Hashes /\ Missing \notin Hashes /\ Missing # None
    BY BlobAssumption, DownloadAssumption
  <1>7. /\ r.kind \in {"html", "pdf"} /\ r.response \in Hashes /\ r.downloaded \in Nat
        /\ r.failed \in Nat /\ Own(r, r.kind) = None
        /\ (r.kind = "html" => res["pdf"] = Missing) /\ (r.kind = "pdf" => r.html # None)
        /\ res[r.kind] = IF On(p, "stored") THEN r.response ELSE None
    BY <1>1, <1>2, <1>3 DEF AtFormat, Formats, Run, Kinds
  <1>8. /\ \A k \in Kinds : k # r.kind => Own(r, k) = IF res[k] \in Hashes THEN res[k] ELSE None
        /\ r.downloaded = One(r.html # None) + One(r.pdf # None)
        /\ r.failed = One(res["html"] = None /\ r.kind # "html")
                      + One(res["pdf"] = None /\ r.kind # "pdf")
    BY <1>1, <1>2, <1>3 DEF Remembers, Lost, InFlight
  <1>9. \E s \in Run :
            /\ run' = [run EXCEPT ![p] = s] /\ s.stage \notin {"idle", "archiving"}
            /\ s.job = r.job /\ s.doc = r.doc
            /\ AtFormat(s, res, FALSE) /\ Remembers(s, res) /\ Ending(s)
    <2>1. CASE On(p, "stored")
      <3>0. PICK n : n = r.downloaded + 1
        OBVIOUS
      <3>1. PICK f : f = [r EXCEPT !.downloaded = n,
                                   !.html = IF r.kind = "html" THEN r.response ELSE @,
                                   !.pdf = IF r.kind = "pdf" THEN r.response ELSE @]
        OBVIOUS
      <3>2. n \in Nat /\ r.response \in Objects
        BY <1>7, <3>0 DEF Objects
      <3>3. f \in Run
        BY <1>3, <3>1, <3>2 DEF Run
      <3>4. /\ f.failed = r.failed /\ f.stage = r.stage /\ f.kind = r.kind
            /\ f.html = (IF r.kind = "html" THEN r.response ELSE r.html)
            /\ f.pdf = (IF r.kind = "pdf" THEN r.response ELSE r.pdf)
            /\ f.downloaded = n /\ f.job = r.job /\ f.doc = r.doc
        BY <1>3, <3>1 DEF Run
      <3>5. PICK s : s = AfterFormat(f)
        OBVIOUS
      <3>6. run' = [run EXCEPT ![p] = s]
        BY <1>2, <2>1, <3>0, <3>1, <3>5 DEF EndArchive, Archived
      <3>7. \A k \in Kinds : Own(f, k) = IF res[k] \in Hashes THEN res[k] ELSE None
        BY <1>7, <1>8, <2>1, <3>4 DEF Own, Kinds
      <3>8. f.downloaded = One(f.html # None) + One(f.pdf # None)
        BY <1>6, <1>7, <1>8, <3>0, <3>4 DEF Own, One
      <3>9. f.failed = One(res["html"] = None) + One(res["pdf"] = None)
        BY <1>6, <1>7, <1>8, <2>1, <3>4 DEF One
      <3>10. (f.kind = "html" => res["pdf"] = Missing) /\ (f.kind = "pdf" => f.html # None)
             /\ res[f.kind] # Missing
        BY <1>6, <1>7, <2>1, <3>4
      <3>11. f.pdf # None => slot[<<f.doc, "pdf">>] # None
        <4>1. CASE r.kind = "pdf"
          <5>1. slot[<<put[p].doc, put[p].kind>>] # None
            BY <2>1 DEF DownloadInv, CatalogInv
          <5> QED  BY <1>1, <1>2, <1>3, <3>4, <4>1, <5>1 DEF CallOf, At
        <4>2. CASE r.kind # "pdf"
          BY <1>3, <3>4, <4>2 DEF Ending
        <4> QED  BY <4>1, <4>2
      <3>12. PICK stored : stored = FALSE
        OBVIOUS
      <3>13. /\ s \in Run /\ s.stage \in {"fetch", "availability", "finish"}
             /\ s.job = f.job /\ s.doc = f.doc
             /\ AtFormat(s, res, stored) /\ Remembers(s, res) /\ Ending(s)
        BY <1>3, <3>3, <3>5, <3>7, <3>8, <3>9, <3>10, <3>11, <3>12, AfterFormatKeeps
      <3> QED  BY <3>4, <3>6, <3>12, <3>13
    <2>2. CASE ~On(p, "stored")
      <3>1. PICK s : s = [r EXCEPT !.stage = "abort"]
        OBVIOUS
      <3>2. /\ s \in Run /\ s.stage = "abort" /\ s.kind = r.kind
            /\ s.html = r.html /\ s.pdf = r.pdf /\ s.downloaded = r.downloaded
            /\ s.job = r.job /\ s.doc = r.doc /\ s.failed = r.failed
        BY <1>3, <3>1 DEF Run, Stages
      <3>3. run' = [run EXCEPT ![p] = s]
        BY <1>2, <2>2, <3>1 DEF EndArchive
      <3>4. AtFormat(s, res, FALSE)
        BY <3>2 DEF AtFormat, Formats
      <3>5. \A k \in Kinds : Own(s, k) = IF res[k] \in Hashes THEN res[k] ELSE None
        BY <1>6, <1>7, <1>8, <2>2, <3>2 DEF Own
      <3>6. s.failed + 1 >= Lost(s, res)
        BY <1>7, <1>8, <3>2 DEF Lost, One, InFlight
      <3>7. Remembers(s, res)
        BY <1>8, <3>2, <3>5, <3>6 DEF Remembers
      <3>8. Ending(s)
        BY <1>3, <3>2 DEF Ending
      <3> QED  BY <3>2, <3>3, <3>4, <3>7, <3>8
    <2> QED  BY <2>1, <2>2
  <1>10. PICK s \in Run :
            /\ run' = [run EXCEPT ![p] = s] /\ s.stage \notin {"idle", "archiving"}
            /\ s.job = r.job /\ s.doc = r.doc
            /\ AtFormat(s, res, FALSE) /\ Remembers(s, res) /\ Ending(s)
    BY <1>9
  <1>11. run' \in [Processes -> Run] /\ run'[p] = s
         /\ \A q \in Processes : q # p => run'[q] = run[q]
    BY <1>3, <1>10, RunOne
  <1>12. TypeOK'
    BY <1>1, <1>11, ArchiveGrows DEF DownloadInv, TypeOK
  <1>13. AtFormat(s, res, On(p, "stored")')
    BY <1>10 DEF AtFormat
  <1>14. Ending(s)'
    BY <1>1, <1>10 DEF Ending
  <1>15. CallOf(p)' /\ JobOf(p)'
    BY <1>1, <1>3, <1>4, <1>10, <1>11 DEF CallOf, JobOf, At, JobNumbers
  <1>16. RunOf(p)'
    BY <1>1, <1>2, <1>10, <1>11, <1>13, <1>14, <1>15 DEF RunOf
  <1>17. Results' /\ AvailabilityIsBacked'
    BY <1>1 DEF DownloadInv, Results, AvailabilityIsBacked, JobNumbers
  <1> QED
    BY <1>1, <1>2, <1>4, <1>10, <1>11, <1>12, <1>16, <1>17, Elsewhere DEF JobNumbers

LEMMA RelistKeeps ==
    ASSUME DownloadInv, NEW d \in Documents, Relist(d) PROVE DownloadInv'
  <1>1. UNCHANGED <<file, catalog, slot, put, faults, jobs, logs, run>>
        /\ pdfAvailable' = [pdfAvailable EXCEPT ![d] = "listed"]
    BY DEF Relist, blobVars
  <1>2. TypeOK'
    BY <1>1 DEF DownloadInv, TypeOK, BlobTypeOK
  <1>3. AvailabilityIsBacked'
    BY <1>1 DEF DownloadInv, TypeOK, AvailabilityIsBacked
  <1>4. CatalogInv' /\ Owned' /\ Results'
    BY <1>1 DEF DownloadInv, CatalogInv, Owned, Results, On, Live, At, JobNumbers
  <1>5. \A p \in Processes : RunOf(p)'
    BY <1>1 DEF DownloadInv, RunOf, CallOf, JobOf, On, Live, At, JobNumbers, Ending
  <1>6. \A j \in JobNumbers' : JobIsRight(j)'
    BY <1>1 DEF DownloadInv, JobIsRight, JobNumbers, Attached, Tried, ResultOf
  <1> QED  BY <1>2, <1>3, <1>4, <1>5, <1>6 DEF DownloadInv

-----------------------------------------------------------------------------
LEMMA DownloadStep == DownloadInv /\ [Next]_vars => DownloadInv'
  <1> SUFFICES ASSUME DownloadInv, [Next]_vars PROVE DownloadInv'
    OBVIOUS
  <1>0. BlobNext
    BY DownloadIsBlob
  <1>1. ASSUME NEW p \in Processes,
               \/ \E d \in Documents : Begin(p, d)
               \/ Step(p) \/ ArchiveFails(p) \/ FailStatement(p) \/ StopRun(p)
        PROVE  DownloadInv'
    BY <1>0, <1>1, BeginKeeps, FetchKeeps, CrawlResultKeeps, CallArchiveKeeps, ArchiveStepKeeps,
       AttachObjectKeeps, EndArchiveKeeps, UpdateAvailabilityKeeps, WriteImportLogKeeps,
       FinishKeeps, AbortKeeps, FailStatementKeeps, StopRunKeeps DEF Step
  <1>2. CASE \E d \in Documents : Relist(d)
    BY <1>2, RelistKeeps
  <1>3. CASE UNCHANGED vars
    <2>1. UNCHANGED <<file, catalog, slot, put, faults, jobs, pdfAvailable, logs, run>>
      BY <1>3 DEF vars
    <2>2. TypeOK' /\ AvailabilityIsBacked'
      BY <2>1 DEF DownloadInv, TypeOK, BlobTypeOK, AvailabilityIsBacked
    <2>3. CatalogInv' /\ Owned' /\ Results'
      BY <2>1 DEF DownloadInv, CatalogInv, Owned, Results, On, Live, At, JobNumbers
    <2>4. \A p \in Processes : RunOf(p)'
      BY <2>1 DEF DownloadInv, RunOf, CallOf, JobOf, On, Live, At, JobNumbers, Ending
    <2>5. \A j \in JobNumbers' : JobIsRight(j)'
      BY <2>1 DEF DownloadInv, JobIsRight, JobNumbers, Attached, Tried, ResultOf
    <2> QED  BY <2>2, <2>3, <2>4, <2>5 DEF DownloadInv
  <1> QED  BY <1>1, <1>2, <1>3 DEF Next

LEMMA DownloadStarts == Init => BlobTypeOK /\ DownloadInv /\ FilesInv
  <1> SUFFICES ASSUME Init PROVE BlobTypeOK /\ DownloadInv /\ FilesInv
    OBVIOUS
  <1>1. /\ file = [h \in Hashes |-> "absent"] /\ catalog = {}
        /\ slot = [s \in Documents \X Kinds |-> None]
        /\ put = [p \in Processes |-> NoCall] /\ faults = 0
        /\ jobs = <<>> /\ pdfAvailable = [d \in Documents |-> "listed"]
        /\ logs = {} /\ run = [p \in Processes |-> NoRun]
    BY DEF Init, BlobInit
  <1>2. BlobTypeOK
    BY <1>1, NoCallIsCall, BlobAssumption DEF BlobTypeOK, Content
  <1>3. TypeOK
    <2>1. jobs \in Seq(JobRow) /\ Len(jobs) = 0 /\ MaxJobs \in Nat
      BY <1>1, DownloadAssumption
    <2>2. pdfAvailable \in [Documents -> {"listed", "yes", "no"}] /\ logs \subseteq Log
      BY <1>1
    <2>3. run \in [Processes -> Run]
      BY <1>1, NoRunIsRun
    <2> QED  BY <1>2, <2>1, <2>2, <2>3 DEF TypeOK
  <1>4. \A p \in Processes : On(p, "none") /\ At(p, "idle")
    BY <1>1, NoCallIsCall, NoRunIsRun DEF On, At
  <1>5. JobNumbers = {}
    BY <1>1 DEF JobNumbers
  <1>6. \A p \in Processes : RunOf(p)
    BY <1>4 DEF RunOf, CallOf, JobOf, Live, At
  <1>7. CatalogInv /\ AvailabilityIsBacked /\ Owned /\ Results
    BY <1>1, <1>4, <1>5 DEF CatalogInv, AvailabilityIsBacked, Owned, Results, Live, On
  <1>8. FilesInv
    BY <1>1, <1>2, <1>4 DEF FilesInv, On
  <1> QED  BY <1>2, <1>3, <1>5, <1>6, <1>7, <1>8 DEF DownloadInv

(***************************************************************************)
(* Whatever fails, the runs of any number of processes (downloadOneDocument*)
(* with RawArchive.archive) keep their locals and their rows in step.      *)
(***************************************************************************)
THEOREM Download_DownloadInv == Spec => []DownloadInv
  <1> QED  BY DownloadStarts, DownloadStep, PTL DEF Spec

(***************************************************************************)
(* State and rows of the downloads have their types.                       *)
(***************************************************************************)
THEOREM Download_TypeOK == Spec => []TypeOK
  <1>1. DownloadInv => TypeOK
    BY DEF DownloadInv
  <1> QED  BY <1>1, Download_DownloadInv, PTL

(***************************************************************************)
(* A job that ends COMPLETED has its page in the catalogue and an import   *)
(* log of what its crawl results hold (download-service.ts:159-176).       *)
(***************************************************************************)
THEOREM Download_CompletedIsRecorded == Spec => []CompletedIsRecorded
  <1>1. DownloadInv => CompletedIsRecorded
    BY DEF DownloadInv, JobIsRight, CompletedIsRecorded
  <1> QED  BY <1>1, Download_DownloadInv, PTL

(***************************************************************************)
(* The counters finishJob writes agree with the crawl results, also after  *)
(* an exception, which counts once more (download-service.ts:176-193).     *)
(***************************************************************************)
THEOREM Download_CountersMatchResults == Spec => []CountersMatchResults
  <1>1. DownloadInv => CountersMatchResults
    BY DEF DownloadInv, JobIsRight, CountersMatchResults
  <1> QED  BY <1>1, Download_DownloadInv, PTL

(***************************************************************************)
(* What a download says of the PDF of a document, the document's reference *)
(* bears out, whatever other downloads do between the two statements       *)
(* (updateDocumentAvailability).                                           *)
(***************************************************************************)
THEOREM Download_AvailabilityIsBacked == Spec => []AvailabilityIsBacked
  <1>1. DownloadInv => AvailabilityIsBacked
    BY DEF DownloadInv
  <1> QED  BY <1>1, Download_DownloadInv, PTL

(***************************************************************************)
(* As long as no fsync fails, a file that is whole stays whole: the        *)
(* exclusive open makes one process its writer, and writeExclusive only    *)
(* ever unlinks what it was itself writing (local-blob-store.ts).          *)
(***************************************************************************)
THEOREM Download_Immutable == ASSUME "sync" \notin Faults PROVE Spec => Immutable
  <1>1. DownloadInv /\ FilesInv /\ [Next]_vars => FilesInv'
    BY DownloadIsBlob, FilesStay
  <1>2. DownloadInv /\ FilesInv /\ [Next]_vars =>
            [\A h \in Hashes : file[h] = "whole" => file'[h] = "whole"]_blobVars
    BY DownloadIsBlob, FilesStay
  <1> QED
    BY <1>1, <1>2, Download_DownloadInv, DownloadStarts, PTL DEF Spec, Immutable

(***************************************************************************)
(* As long as no fsync fails, every row of the catalogue, and with it      *)
(* every reference of a document, is to whole bytes (RawArchive.archive:   *)
(* the file first, then the row, then the reference).                      *)
(***************************************************************************)
THEOREM Download_CatalogIsWhole == ASSUME "sync" \notin Faults PROVE Spec => []CatalogIsWhole
  <1>1. DownloadInv /\ FilesInv /\ [Next]_vars => FilesInv'
    BY DownloadIsBlob, FilesStay
  <1>2. DownloadInv /\ FilesInv => CatalogIsWhole
    BY DEF DownloadInv, CatalogInv, FilesInv, CatalogIsWhole
  <1> QED
    BY <1>1, <1>2, Download_DownloadInv, DownloadStarts, PTL DEF Spec
=============================================================================
