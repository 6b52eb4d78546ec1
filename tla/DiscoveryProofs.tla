----------------------------- MODULE DiscoveryProofs -----------------------------
(***************************************************************************)
(* Proofs about Discovery: the types, that the counters are backed by      *)
(* results (for any number of processes), and that nothing is skipped (for *)
(* one process at a time, resumed as often as it takes).                   *)
(*                                                                         *)
(* First come the effects of each action on the locals of its run, then    *)
(* one invariant for each theorem:                                         *)
(*   TypeInv    types, and where a run stands in its job and page          *)
(*   BackedInv  stored is at most the results, of the row and of each run  *)
(*   SkipInv    what the checkpoint file, a run and a completed row claim  *)
(*              as done has a result, but for the failures they count      *)
(***************************************************************************)
EXTENDS Discovery, FiniteSetTheorems, SequenceTheorems, TLAPS

Before     == {"idle", "find", "adopt", "seen"}
AtDocument == {"findDoc", "save", "log", "result"}
InPage     == {"doc", "count"} \cup AtDocument

\* A run is at a page, or writes the checkpoint that names it.
Paged(r) ==
    \/ run[r].stage \in {"page"} \cup InPage
    \/ run[r].stage \in {"truncate", "write"} /\ run[r].page # 0

PlaceInv(r) ==
    /\ run[r].checkpoint.job <= Len(jobs)
    /\ run[r].stage \notin {"idle", "find"} => run[r].job \in DOMAIN jobs
    /\ run[r].signal # "none" => run[r].stage \notin Before /\ run[r].job \in signalled
    /\ Paged(r) => run[r].key \in Keys \ run[r].completed /\ run[r].page > 0
    /\ run[r].stage \in AtDocument =>
        run[r].todo # <<>> /\ Head(run[r].todo) \notin run[r].seen
    /\ run[r].stage \in {"log", "result"} => Head(run[r].todo) \in docs

TypeInv == TypeOK /\ \A r \in Runs : PlaceInv(r)

-----------------------------------------------------------------------------
(* What the actions do to the locals of a run.                             *)

\* Only the run of one process moves.
Moves(r, x) ==
    /\ run' \in [Runs -> Run] /\ run'[r] = x
    /\ \A q \in Runs : q # r => run'[q] = run[q]

LEMMA RunMoves ==
    ASSUME TypeOK, NEW r \in Runs, NEW x \in Run, run' = [run EXCEPT ![r] = x]
    PROVE  Moves(r, x)
  BY DEF Moves, TypeOK

LEMMA NoRunIsRun == NoRun \in Run
  BY DEF NoRun, Run, Stages, NoFile, Checkpoint, NoCounts, Counters, Outcomes

\* The locals a run keeps from step to step.
Keeps(x, y) ==
    /\ x.job = y.job /\ x.checkpoint = y.checkpoint
    /\ x.signal = y.signal /\ x.taken = y.taken

SameWork(x, y) ==
    /\ Keeps(x, y)
    /\ x.completed = y.completed /\ x.seen = y.seen /\ x.counts = y.counts
    /\ x.key = y.key /\ x.page = y.page /\ x.todo = y.todo

LEMMA GoesTo ==
    ASSUME TypeOK, NEW r \in Runs, NEW s \in Stages, Goto(r, s)
    PROVE  \E x \in Run : Moves(r, x) /\ x.stage = s /\ SameWork(x, run[r])
  <1>1. PICK x : x = [run[r] EXCEPT !.stage = s]
    OBVIOUS
  <1>2. x \in Run /\ x.stage = s /\ SameWork(x, run[r])
    <2>1. run[r] \in Run
      BY DEF TypeOK
    <2> QED  BY <1>1, <2>1 DEF Run, SameWork, Keeps
  <1>3. Moves(r, x)
    <2>1. run' = [run EXCEPT ![r] = x]
      BY <1>1 DEF Goto
    <2> QED  BY <1>2, <2>1, RunMoves
  <1> QED  BY <1>2, <1>3

LEMMA BeginMoves ==
    ASSUME TypeOK, NEW r \in Runs, NEW resume \in BOOLEAN, Begin(r, resume)
    PROVE  \E x \in Run :
              /\ Moves(r, x) /\ x.stage = "find" /\ x.signal = "none"
              /\ x.checkpoint \in {file, NoFile} /\ x.counts = NoCounts /\ x.key = 0
  <1>1. PICK x : x = [NoRun EXCEPT !.stage = "find", !.resume = resume,
                                   !.checkpoint = IF resume THEN file ELSE NoFile]
    OBVIOUS
  <1>2. x \in Run /\ x.stage = "find" /\ x.signal = "none" /\ x.checkpoint \in {file, NoFile}
        /\ x.counts = NoCounts /\ x.key = 0
    BY <1>1, NoRunIsRun DEF TypeOK, Run, Stages, NoRun, Checkpoint, NoFile
  <1>3. Moves(r, x)
    BY <1>1, <1>2, RunMoves DEF Begin, Set
  <1> QED  BY <1>2, <1>3

\* FindJob takes up a job that may be resumed, or a new one.
LEMMA FindJobMoves ==
    ASSUME TypeOK, NEW r \in Runs, FindJob(r), run[r].checkpoint.job <= Len(jobs)
    PROVE  \E x \in Run :
              /\ Moves(r, x)
              /\ x.checkpoint = run[r].checkpoint /\ x.signal = run[r].signal
              /\ x.counts = run[r].counts /\ x.key = run[r].key
              /\ \/ x.stage = "adopt" /\ x.job \in DOMAIN jobs /\ jobs' = jobs
                 \/ /\ x.stage = "seen" /\ x.job = Len(jobs) + 1 /\ Len(jobs) < MaxJobs
                    /\ jobs' = Append(jobs, [status |-> "RUNNING", counts |-> NoCounts])
  <1>0. run[r] \in Run /\ jobs \in Seq(JobRow)
    BY DEF TypeOK
  <1>1. CASE jobs' = jobs /\ \E i \in DOMAIN jobs :
                Set(r, [run[r] EXCEPT !.stage = "adopt", !.job = i])
    <2>1. PICK i \in DOMAIN jobs : Set(r, [run[r] EXCEPT !.stage = "adopt", !.job = i])
      BY <1>1
    <2>0. i \in Nat
      BY <1>0
    <2>2. PICK x : x = [run[r] EXCEPT !.stage = "adopt", !.job = i]
      OBVIOUS
    <2>3. x \in Run /\ x.stage = "adopt" /\ x.job = i /\ x.checkpoint = run[r].checkpoint
          /\ x.signal = run[r].signal /\ x.counts = run[r].counts /\ x.key = run[r].key
      BY ONLY <1>0, <2>0, <2>2 DEF Run, Stages
    <2>4. Moves(r, x)
      BY <2>1, <2>2, <2>3, RunMoves DEF Set
    <2> QED  BY <1>1, <2>3, <2>4
  <1>2. CASE /\ Len(jobs) < MaxJobs
             /\ jobs' = Append(jobs, [status |-> "RUNNING", counts |-> NoCounts])
             /\ Set(r, [run[r] EXCEPT !.stage = "seen", !.job = Len(jobs) + 1])
    <2>0. PICK n \in Nat : n = Len(jobs) + 1
      BY <1>0
    <2>2. PICK x : x = [run[r] EXCEPT !.stage = "seen", !.job = n]
      OBVIOUS
    <2>3. x \in Run /\ x.stage = "seen" /\ x.job = n
          /\ x.checkpoint = run[r].checkpoint
          /\ x.signal = run[r].signal /\ x.counts = run[r].counts /\ x.key = run[r].key
      BY ONLY <1>0, <2>2, n \in Nat DEF Run, Stages
    <2>4. Moves(r, x)
      BY <1>2, <2>0, <2>2, <2>3, RunMoves DEF Set
    <2> QED  BY <1>2, <2>0, <2>3, <2>4
  <1>3. (jobs' = jobs /\ \E i \in DOMAIN jobs :
                Set(r, [run[r] EXCEPT !.stage = "adopt", !.job = i]))
        \/ (/\ Len(jobs) < MaxJobs
             /\ jobs' = Append(jobs, [status |-> "RUNNING", counts |-> NoCounts])
             /\ Set(r, [run[r] EXCEPT !.stage = "seen", !.job = Len(jobs) + 1]))
    <2>1. run[r].checkpoint.job \in Nat /\ DOMAIN jobs = 1..Len(jobs)
      BY <1>0 DEF Run, Checkpoint
    <2>2. run[r].checkpoint.job # 0 => run[r].checkpoint.job \in DOMAIN jobs
      BY <1>0, <2>1
    <2> QED  BY <2>2, Zenon DEF FindJob
  <1> QED  BY <1>1, <1>2, <1>3

LEMMA AdoptMoves ==
    ASSUME TypeOK, NEW r \in Runs, Adopt(r), run[r].job \in DOMAIN jobs
    PROVE  \E x \in Run :
              /\ Moves(r, x) /\ Keeps(x, run[r])
              /\ x.stage = "seen" /\ x.counts = jobs[run[r].job].counts
              /\ x.key = run[r].key
  <1>0. run[r] \in Run /\ jobs[run[r].job] \in JobRow
    BY DEF TypeOK
  <1>1. PICK x : x = [run[r] EXCEPT !.stage = "seen", !.counts = jobs[run[r].job].counts]
    OBVIOUS
  <1>2. x \in Run /\ Keeps(x, run[r]) /\ x.stage = "seen"
        /\ x.counts = jobs[run[r].job].counts /\ x.key = run[r].key
    BY <1>0, <1>1 DEF Run, Stages, Keeps, JobRow
  <1>3. Moves(r, x)
    BY <1>1, <1>2, RunMoves DEF Adopt, Set
  <1> QED  BY <1>2, <1>3

LEMMA LoadSeenMoves ==
    ASSUME TypeOK, NEW r \in Runs, LoadSeen(r)
    PROVE  \E x \in Run :
              /\ Moves(r, x) /\ x.stage = "next"
              /\ x.job = run[r].job /\ x.signal = run[r].signal /\ x.counts = run[r].counts
              /\ x.taken = run[r].taken /\ x.key = run[r].key
              /\ x.seen = ResultsOf(run[r].job)
              /\ x.checkpoint = IF run[r].checkpoint.job = run[r].job
                                THEN run[r].checkpoint ELSE NoFile
              /\ x.completed = x.checkpoint.completed
  <1>0. run[r] \in Run /\ NoFile \in Checkpoint
    BY NoRunIsRun DEF TypeOK, NoRun, Run
  <1>1. PICK c : c = IF run[r].checkpoint.job = run[r].job
                     THEN run[r].checkpoint ELSE NoFile
    OBVIOUS
  <1>2. c \in Checkpoint /\ c.completed \in SUBSET Keys
    BY <1>0, <1>1 DEF Run, Checkpoint
  <1>3. PICK x : x = [run[r] EXCEPT !.stage = "next", !.completed = c.completed,
                        !.checkpoint = c, !.seen = ResultsOf(run[r].job)]
    OBVIOUS
  <1>4. x \in Run /\ x.stage = "next"
        /\ x.job = run[r].job /\ x.signal = run[r].signal /\ x.counts = run[r].counts
        /\ x.taken = run[r].taken /\ x.key = run[r].key
        /\ x.seen = ResultsOf(run[r].job) /\ x.checkpoint = c /\ x.completed = c.completed
    BY <1>0, <1>2, <1>3 DEF Run, Stages, ResultsOf
  <1>5. NoFile.completed = {}
    BY DEF NoFile
  <1>6. run' = [run EXCEPT ![r] = x]
    BY <1>1, <1>3, <1>5 DEF LoadSeen, Set, ResultsOf
  <1> QED  BY <1>1, <1>4, <1>6, RunMoves

\* NextKey passes over a completed category, takes one up, or has seen them all.
LEMMA NextKeyMoves ==
    ASSUME TypeOK, NEW r \in Runs, NextKey(r)
    PROVE  \E x \in Run :
              /\ Moves(r, x) /\ Keeps(x, run[r])
              /\ x.completed = run[r].completed /\ x.seen = run[r].seen
              /\ x.counts = run[r].counts
              /\ \/ x.stage = "complete" /\ x.key = run[r].key /\ run[r].key + 1 \notin Keys
                 \/ /\ x.stage = "next" /\ x.key = run[r].key + 1
                    /\ x.key \in run[r].completed
                 \/ /\ x.stage = "page" /\ x.key = run[r].key + 1 /\ x.page > 0
                    /\ x.key \in Keys \ run[r].completed
                    /\ \/ x.page = 1
                       \/ x.key = run[r].checkpoint.key /\ x.page = run[r].checkpoint.page
  <1>0. run[r] \in Run /\ run[r].key \in Nat /\ run[r].checkpoint \in Checkpoint
        /\ At(r, "next") /\ run[r].stage = "next"
    BY DEF TypeOK, Run, NextKey, At
  <1>1. CASE run[r].key + 1 \notin Keys
    <2>1. PICK x : x = [run[r] EXCEPT !.stage = "complete"]
      OBVIOUS
    <2>2. x \in Run /\ Keeps(x, run[r]) /\ x.completed = run[r].completed
          /\ x.seen = run[r].seen /\ x.counts = run[r].counts /\ x.stage = "complete"
          /\ x.key = run[r].key
      BY <1>0, <2>1 DEF Run, Stages, Keeps
    <2>3. Moves(r, x)
      BY <1>1, <2>1, <2>2, RunMoves DEF NextKey, Set
    <2> QED  BY <1>1, <2>2, <2>3
  <1>2. CASE run[r].key + 1 \in Keys /\ run[r].key + 1 \in run[r].completed
    <2>1. PICK x : x = [run[r] EXCEPT !.key = run[r].key + 1]
      OBVIOUS
    <2>2. x \in Run /\ Keeps(x, run[r]) /\ x.completed = run[r].completed
          /\ x.seen = run[r].seen /\ x.counts = run[r].counts /\ x.stage = "next"
          /\ x.key = run[r].key + 1
      BY <1>0, <2>1 DEF Run, Keeps
    <2>3. Moves(r, x)
      BY <1>2, <2>1, <2>2, RunMoves DEF NextKey, Set
    <2> QED  BY <1>2, <2>2, <2>3
  <1>3. CASE run[r].key + 1 \in Keys /\ run[r].key + 1 \notin run[r].completed
    <2>1. PICK p : p = IF run[r].checkpoint.key = run[r].key + 1
                       THEN run[r].checkpoint.page ELSE 1
      OBVIOUS
    <2>2. p \in Nat /\ p > 0
          /\ (p = 1 \/ (run[r].checkpoint.key = run[r].key + 1 /\ p = run[r].checkpoint.page))
      BY <1>0, <2>1 DEF Checkpoint
    <2> PICK k \in Nat : k = run[r].key + 1
      BY <1>0
    <2>3. PICK x : x = [run[r] EXCEPT !.stage = "page", !.key = k, !.page = p]
      OBVIOUS
    <2>4. x \in Run /\ Keeps(x, run[r]) /\ x.completed = run[r].completed
          /\ x.seen = run[r].seen /\ x.counts = run[r].counts /\ x.stage = "page"
          /\ x.key = k /\ x.page = p
      BY ONLY <1>0, <2>2, <2>3, k \in Nat DEF Run, Stages, Keeps
    <2>5. Moves(r, x)
      BY <1>3, <2>1, <2>3, <2>4, RunMoves DEF NextKey, Set
    <2> QED  BY <1>3, <2>2, <2>4, <2>5
  <1> QED  BY <1>1, <1>2, <1>3

LEMMA PageIsSeq == ASSUME NEW k \in Keys, NEW n \in Nat PROVE Page(k, n) \in Seq(Urls)
  <1>1. Site[k] \in Seq(Seq(Urls) \ {<<>>})
    BY DiscoveryAssumption DEF Keys
  <1>2. CASE n \in DOMAIN Site[k]
    <2>1. Site[k][n] \in Seq(Urls)
      BY <1>1, <1>2
    <2> QED  BY <1>2, <2>1 DEF Page
  <1>3. CASE n \notin DOMAIN Site[k]
    BY <1>3 DEF Page
  <1> QED  BY <1>2, <1>3

LEMMA FetchPageMoves ==
    ASSUME TypeOK, NEW r \in Runs, FetchPage(r), run[r].key \in Keys
    PROVE  \E x \in Run :
              /\ Moves(r, x) /\ Keeps(x, run[r]) /\ x.stage = "truncate"
              /\ x.completed = run[r].completed /\ x.seen = run[r].seen
              /\ x.counts = run[r].counts /\ x.key = run[r].key /\ x.page = run[r].page
              /\ x.todo = Page(run[r].key, run[r].page)
  <1>0. run[r] \in Run /\ Page(run[r].key, run[r].page) \in Seq(Urls)
    BY PageIsSeq DEF TypeOK, Run
  <1>1. PICK x : x = [run[r] EXCEPT !.stage = "truncate",
                                    !.todo = Page(run[r].key, run[r].page)]
    OBVIOUS
  <1>2. x \in Run /\ Keeps(x, run[r]) /\ x.stage = "truncate"
        /\ x.completed = run[r].completed /\ x.seen = run[r].seen
        /\ x.counts = run[r].counts /\ x.key = run[r].key /\ x.page = run[r].page
        /\ x.todo = Page(run[r].key, run[r].page)
    BY <1>0, <1>1 DEF Run, Stages, Keeps
  <1>3. Moves(r, x)
    BY <1>1, <1>2, RunMoves DEF FetchPage, Set
  <1> QED  BY <1>2, <1>3

LEMMA NextDocumentMoves ==
    ASSUME TypeOK, NEW r \in Runs, NextDocument(r)
    PROVE  \E x \in Run :
              /\ Moves(r, x) /\ Keeps(x, run[r])
              /\ x.completed = run[r].completed /\ x.seen = run[r].seen
              /\ x.key = run[r].key /\ x.page = run[r].page
              /\ x.counts.stored = run[r].counts.stored
              /\ x.counts.failed = run[r].counts.failed
              /\ \/ x.stage = "count" /\ run[r].todo = <<>> /\ x.todo = <<>>
                 \/ /\ x.stage = "doc" /\ run[r].todo # <<>> /\ x.todo = Tail(run[r].todo)
                    /\ Head(run[r].todo) \in run[r].seen
                 \/ /\ x.stage = "findDoc" /\ run[r].todo # <<>> /\ x.todo = run[r].todo
                    /\ Head(run[r].todo) \notin run[r].seen
  <1>0. run[r] \in Run /\ run[r].todo \in Seq(Urls) /\ run[r].counts \in Counters
        /\ run[r].stage = "doc"
    BY DEF TypeOK, Run, NextDocument, At
  <1>1. CASE run[r].todo = <<>>
    <2>1. PICK x : x = [run[r] EXCEPT !.stage = "count"]
      OBVIOUS
    <2>2. x \in Run /\ Keeps(x, run[r]) /\ x.completed = run[r].completed
          /\ x.seen = run[r].seen /\ x.key = run[r].key /\ x.page = run[r].page
          /\ x.counts = run[r].counts /\ x.todo = run[r].todo /\ x.stage = "count"
      BY <1>0, <2>1 DEF Run, Stages, Keeps
    <2>3. Moves(r, x)
      BY <1>1, <2>1, <2>2, RunMoves DEF NextDocument, Set
    <2> QED  BY <1>1, <2>2, <2>3
  <1>2. CASE run[r].todo # <<>> /\ Head(run[r].todo) \in run[r].seen
    <2>1. PICK x : x = [run[r] EXCEPT !.todo = Tail(run[r].todo)]
      OBVIOUS
    <2>2. Tail(run[r].todo) \in Seq(Urls)
      BY <1>0, <1>2
    <2>3. x \in Run /\ Keeps(x, run[r]) /\ x.completed = run[r].completed
          /\ x.seen = run[r].seen /\ x.key = run[r].key /\ x.page = run[r].page
          /\ x.counts = run[r].counts /\ x.todo = Tail(run[r].todo) /\ x.stage = "doc"
      BY <1>0, <2>1, <2>2 DEF Run, Keeps
    <2>4. Moves(r, x)
      BY <1>2, <2>1, <2>3, RunMoves DEF NextDocument, Set
    <2> QED  BY <1>2, <2>3, <2>4
  <1>3. CASE run[r].todo # <<>> /\ Head(run[r].todo) \notin run[r].seen
    <2>1. PICK c : c = [run[r].counts EXCEPT !.found = @ + 1]
      OBVIOUS
    <2>2. c \in Counters /\ c.stored = run[r].counts.stored
          /\ c.failed = run[r].counts.failed
      BY <1>0, <2>1 DEF Counters
    <2>3. PICK x : x = [run[r] EXCEPT !.stage = "findDoc", !.counts = c]
      OBVIOUS
    <2>4. x \in Run /\ Keeps(x, run[r]) /\ x.completed = run[r].completed
          /\ x.seen = run[r].seen /\ x.key = run[r].key /\ x.page = run[r].page
          /\ x.counts = c /\ x.todo = run[r].todo /\ x.stage = "findDoc"
      BY <1>0, <2>2, <2>3 DEF Run, Stages, Keeps
    <2>5. x = [run[r] EXCEPT !.stage = "findDoc", !.counts.found = @ + 1]
      BY <2>1, <2>3
    <2>6. Moves(r, x)
      BY <1>3, <2>4, <2>5, RunMoves DEF NextDocument, Set
    <2> QED  BY <1>3, <2>2, <2>4, <2>6
  <1> QED  BY <1>1, <1>2, <1>3

LEMMA FindDocumentMoves ==
    ASSUME TypeOK, NEW r \in Runs, FindDocument(r)
    PROVE  \E x \in Run :
              /\ Moves(r, x) /\ Keeps(x, run[r])
              /\ x.completed = run[r].completed /\ x.seen = run[r].seen
              /\ x.key = run[r].key /\ x.page = run[r].page
              /\ x.counts = run[r].counts /\ x.todo = run[r].todo
              /\ x.stage \in {"save", "result"}
              /\ x.stage = "result" => Head(run[r].todo) \in docs
  <1>0. run[r] \in Run
    BY DEF TypeOK
  <1>1. PICK outcome \in {"duplicate", "updated", "inserted"} :
            /\ outcome = "duplicate" => Head(run[r].todo) \in docs
            /\ Set(r, [run[r] EXCEPT
                        !.stage = IF outcome = "duplicate" THEN "result" ELSE "save",
                        !.outcome = outcome])
    BY DEF FindDocument
  <1>2. PICK s \in Stages : s = IF outcome = "duplicate" THEN "result" ELSE "save"
    BY DEF Stages
  <1>3. PICK x : x = [run[r] EXCEPT !.stage = s, !.outcome = outcome]
    OBVIOUS
  <1>4. x \in Run /\ Keeps(x, run[r]) /\ x.completed = run[r].completed
        /\ x.seen = run[r].seen /\ x.key = run[r].key /\ x.page = run[r].page
        /\ x.counts = run[r].counts /\ x.todo = run[r].todo /\ x.stage = s
    BY <1>0, <1>3 DEF Run, Keeps, Outcomes
  <1>5. Moves(r, x)
    BY <1>1, <1>2, <1>3, <1>4, RunMoves DEF Set
  <1> QED  BY <1>1, <1>2, <1>4, <1>5

\* A document is done with: stored, failed, or neither.
LEMMA AdvanceMoves ==
    ASSUME TypeOK, NEW r \in Runs, NEW y \in Run, Advance(r, y), y.todo # <<>>
    PROVE  \E x \in Run :
              /\ Moves(r, x) /\ Keeps(x, y) /\ x.stage = "doc"
              /\ x.completed = y.completed /\ x.seen = y.seen
              /\ x.key = y.key /\ x.page = y.page
              /\ x.counts = y.counts /\ x.todo = Tail(y.todo)
  <1>1. PICK x : x = [y EXCEPT !.stage = "doc", !.todo = Tail(y.todo)]
    OBVIOUS
  <1>2. Tail(y.todo) \in Seq(Urls)
    BY DEF Run
  <1>3. x \in Run /\ Keeps(x, y) /\ x.completed = y.completed /\ x.seen = y.seen
        /\ x.key = y.key /\ x.page = y.page
        /\ x.counts = y.counts /\ x.todo = Tail(y.todo) /\ x.stage = "doc"
    BY <1>1, <1>2 DEF Run, Stages, Keeps
  <1>4. run' = [run EXCEPT ![r] = x]
    BY <1>1 DEF Advance, Set
  <1> QED  BY <1>3, <1>4, RunMoves

LEMMA FailedCounts ==
    ASSUME NEW y \in Run
    PROVE  LET x == Failed(y) IN
           /\ x \in Run /\ Keeps(x, y) /\ x.stage = y.stage
           /\ x.completed = y.completed /\ x.seen = y.seen
           /\ x.key = y.key /\ x.page = y.page /\ x.todo = y.todo
           /\ x.counts.stored = y.counts.stored
           /\ x.counts.failed = y.counts.failed + 1
  <1>1. y.counts \in Counters
    BY DEF Run
  <1>2. PICK c : c = [y.counts EXCEPT !.failed = @ + 1]
    OBVIOUS
  <1>3. c \in Counters /\ c.stored = y.counts.stored /\ c.failed = y.counts.failed + 1
    BY <1>1, <1>2 DEF Counters
  <1>4. PICK x : x = [y EXCEPT !.counts = c]
    OBVIOUS
  <1>5. /\ x \in Run /\ Keeps(x, y) /\ x.stage = y.stage
        /\ x.completed = y.completed /\ x.seen = y.seen
        /\ x.key = y.key /\ x.page = y.page /\ x.todo = y.todo /\ x.counts = c
    BY <1>3, <1>4 DEF Run, Keeps
  <1>6. x = Failed(y)
    BY <1>2, <1>4 DEF Failed
  <1> QED  BY <1>3, <1>5, <1>6

LEMMA FailedMoves ==
    ASSUME TypeOK, NEW r \in Runs, Advance(r, Failed(run[r])), run[r].todo # <<>>
    PROVE  \E x \in Run :
              /\ Moves(r, x) /\ Keeps(x, run[r]) /\ x.stage = "doc"
              /\ x.completed = run[r].completed /\ x.seen = run[r].seen
              /\ x.key = run[r].key /\ x.page = run[r].page
              /\ x.counts.stored = run[r].counts.stored
              /\ x.counts.failed = run[r].counts.failed + 1
              /\ x.todo = Tail(run[r].todo)
  <1>1. PICK y : y = Failed(run[r])
    OBVIOUS
  <1>2. run[r] \in Run
    BY DEF TypeOK
  <1>3. /\ y \in Run /\ Keeps(y, run[r])
        /\ y.completed = run[r].completed /\ y.seen = run[r].seen
        /\ y.key = run[r].key /\ y.page = run[r].page /\ y.todo = run[r].todo
        /\ y.counts.stored = run[r].counts.stored
        /\ y.counts.failed = run[r].counts.failed + 1
    BY <1>1, <1>2, FailedCounts
  <1>4. Advance(r, y)
    BY <1>1
  <1> QED  BY <1>3, <1>4, AdvanceMoves DEF Keeps

LEMMA SaveResultMoves ==
    ASSUME TypeOK, NEW r \in Runs, SaveResult(r), run[r].todo # <<>>
    PROVE  \E x \in Run :
              /\ Moves(r, x) /\ Keeps(x, run[r]) /\ x.stage = "doc"
              /\ x.completed = run[r].completed
              /\ x.seen = run[r].seen \cup {Head(run[r].todo)}
              /\ x.key = run[r].key /\ x.page = run[r].page
              /\ x.counts.stored \in {run[r].counts.stored, run[r].counts.stored + 1}
              /\ x.counts.failed = run[r].counts.failed
              /\ x.todo = Tail(run[r].todo)
  <1>1. run[r] \in Run /\ run[r].counts \in Counters /\ Head(run[r].todo) \in Urls
        /\ run[r].seen \in SUBSET Urls
    BY DEF TypeOK, Run
  <1>2. PICK c : c = [run[r].counts EXCEPT
                        !.stored = IF run[r].outcome = "duplicate" THEN @ ELSE @ + 1]
    OBVIOUS
  <1>3. c \in Counters /\ c.failed = run[r].counts.failed
        /\ c.stored \in {run[r].counts.stored, run[r].counts.stored + 1}
    BY <1>1, <1>2 DEF Counters
  <1>4. PICK y : y = [run[r] EXCEPT !.seen = run[r].seen \cup {Head(run[r].todo)},
                                    !.counts = c]
    OBVIOUS
  <1>5. /\ y \in Run /\ Keeps(y, run[r]) /\ y.completed = run[r].completed
        /\ y.seen = run[r].seen \cup {Head(run[r].todo)} /\ y.counts = c
        /\ y.key = run[r].key /\ y.page = run[r].page /\ y.todo = run[r].todo
    BY <1>1, <1>3, <1>4 DEF Run, Keeps
  <1>6. y = [run[r] EXCEPT
                !.seen = @ \cup {Head(run[r].todo)},
                !.counts.stored = IF run[r].outcome = "duplicate" THEN @ ELSE @ + 1]
    BY <1>2, <1>4
  <1>7. Advance(r, y)
    BY <1>6 DEF SaveResult
  <1> QED  BY <1>3, <1>5, <1>7, AdvanceMoves DEF Keeps

LEMMA CountPageMoves ==
    ASSUME TypeOK, NEW r \in Runs, CountPage(r), run[r].key \in Keys
    PROVE  \E x \in Run :
              /\ Moves(r, x) /\ Keeps(x, run[r])
              /\ x.seen = run[r].seen /\ x.counts = run[r].counts
              /\ x.key = run[r].key /\ x.todo = run[r].todo
              /\ \/ /\ x.stage = "page" /\ Page(run[r].key, run[r].page) # <<>>
                    /\ x.page = run[r].page + 1 /\ x.completed = run[r].completed
                 \/ /\ x.stage = "truncate" /\ Page(run[r].key, run[r].page) = <<>>
                    /\ x.page = 0 /\ x.completed = run[r].completed \cup {run[r].key}
  <1>0. run[r] \in Run /\ run[r].page \in Nat /\ run[r].completed \in SUBSET Keys
    BY DEF TypeOK, Run
  <1>1. CASE Page(run[r].key, run[r].page) # <<>>
    <2> PICK n \in Nat : n = run[r].page + 1
      BY <1>0
    <2>1. PICK x : x = [run[r] EXCEPT !.stage = "page", !.page = n]
      OBVIOUS
    <2>2. x \in Run /\ Keeps(x, run[r]) /\ x.stage = "page" /\ x.page = n
          /\ x.seen = run[r].seen /\ x.counts = run[r].counts
          /\ x.key = run[r].key /\ x.todo = run[r].todo /\ x.completed = run[r].completed
      BY ONLY <1>0, <2>1, n \in Nat DEF Run, Stages, Keeps
    <2>3. Moves(r, x)
      BY <1>1, <2>1, <2>2, RunMoves DEF CountPage, Set
    <2> QED  BY <1>1, <2>2, <2>3
  <1>2. CASE Page(run[r].key, run[r].page) = <<>>
    <2> PICK done : done = run[r].completed \cup {run[r].key}
      OBVIOUS
    <2>0. done \in SUBSET Keys
      BY <1>0
    <2>1. PICK x : x = [run[r] EXCEPT !.stage = "truncate", !.page = 0, !.completed = done]
      OBVIOUS
    <2>2. x \in Run /\ Keeps(x, run[r]) /\ x.stage = "truncate" /\ x.page = 0
          /\ x.seen = run[r].seen /\ x.counts = run[r].counts
          /\ x.key = run[r].key /\ x.todo = run[r].todo /\ x.completed = done
      BY ONLY <1>0, <2>0, <2>1 DEF Run, Stages, Keeps
    <2>3. Moves(r, x)
      BY <1>2, <2>1, <2>2, RunMoves DEF CountPage, Set
    <2> QED  BY <1>2, <2>2, <2>3
  <1> QED  BY <1>1, <1>2

LEMMA EndMoves ==
    ASSUME TypeOK, NEW r \in Runs, End(r)
    PROVE  \E x \in Run :
              /\ Moves(r, x)
              /\ \/ x = NoRun
                 \/ run[r].signal # "none" /\ x.stage = "ended" /\ SameWork(x, run[r])
  <1>1. CASE run[r].signal = "none"
    BY <1>1, NoRunIsRun, RunMoves DEF End, Set
  <1>2. CASE run[r].signal # "none"
    <2>1. Goto(r, "ended") /\ "ended" \in Stages
      BY <1>2 DEF End, Goto, Set, Stages, TypeOK
    <2> QED  BY <1>2, <2>1, GoesTo
  <1> QED  BY <1>1, <1>2

LEMMA SignalMoves ==
    ASSUME TypeOK, NEW r \in Runs, Signal(r)
    PROVE  \E x \in Run :
              /\ Moves(r, x) /\ x.stage = run[r].stage
              /\ x.job = run[r].job /\ x.checkpoint = run[r].checkpoint
              /\ x.completed = run[r].completed /\ x.seen = run[r].seen
              /\ x.counts = run[r].counts /\ x.taken = run[r].counts
              /\ x.key = run[r].key /\ x.page = run[r].page /\ x.todo = run[r].todo
  <1>0. run[r] \in Run
    BY DEF TypeOK
  <1>1. PICK x : x = [run[r] EXCEPT !.signal = "sent", !.taken = run[r].counts]
    OBVIOUS
  <1>2. /\ x \in Run /\ x.stage = run[r].stage
        /\ x.job = run[r].job /\ x.checkpoint = run[r].checkpoint
        /\ x.completed = run[r].completed /\ x.seen = run[r].seen
        /\ x.counts = run[r].counts /\ x.taken = run[r].counts
        /\ x.key = run[r].key /\ x.page = run[r].page /\ x.todo = run[r].todo
    BY <1>0, <1>1 DEF Run
  <1>3. Moves(r, x)
    BY <1>1, <1>2, RunMoves DEF Signal, Set
  <1> QED  BY <1>2, <1>3

LEMMA LandedMoves ==
    ASSUME TypeOK, NEW r \in Runs, Set(r, [run[r] EXCEPT !.signal = "landed"])
    PROVE  \E x \in Run :
              /\ Moves(r, x) /\ x.stage = run[r].stage
              /\ x.job = run[r].job /\ x.checkpoint = run[r].checkpoint
              /\ x.completed = run[r].completed /\ x.seen = run[r].seen
              /\ x.counts = run[r].counts /\ x.taken = run[r].taken
              /\ x.key = run[r].key /\ x.page = run[r].page /\ x.todo = run[r].todo
  <1>0. run[r] \in Run
    BY DEF TypeOK
  <1>1. PICK x : x = [run[r] EXCEPT !.signal = "landed"]
    OBVIOUS
  <1>2. /\ x \in Run /\ x.stage = run[r].stage
        /\ x.job = run[r].job /\ x.checkpoint = run[r].checkpoint
        /\ x.completed = run[r].completed /\ x.seen = run[r].seen
        /\ x.counts = run[r].counts /\ x.taken = run[r].taken
        /\ x.key = run[r].key /\ x.page = run[r].page /\ x.todo = run[r].todo
    BY <1>0, <1>1 DEF Run
  <1>3. Moves(r, x)
    BY <1>1, <1>2, RunMoves DEF Set
  <1> QED  BY <1>2, <1>3

-----------------------------------------------------------------------------
(* Types, and where the runs are.                                          *)

\* Rows are written over but never removed, jobs keep their numbers.
Grows ==
    /\ jobs' \in Seq(JobRow) /\ Len(jobs) <= Len(jobs') /\ Len(jobs') <= MaxJobs
    /\ results \subseteq results' /\ results' \subseteq (DOMAIN jobs') \X Urls
    /\ docs \subseteq docs' /\ docs' \subseteq Urls
    /\ file' \in Checkpoint /\ file'.job <= Len(jobs')
    /\ signalled \subseteq signalled' /\ signalled' \subseteq DOMAIN jobs'
    /\ faults' \in 0..MaxFaults

LEMMA JobsGrow ==
    ASSUME TypeOK, Grows
    PROVE  Len(jobs) \in Nat /\ Len(jobs') \in Nat /\ DOMAIN jobs \subseteq DOMAIN jobs'
  <1>1. /\ Len(jobs) \in Nat /\ DOMAIN jobs = 1..Len(jobs)
        /\ Len(jobs') \in Nat /\ DOMAIN jobs' = 1..Len(jobs')
    BY DEF TypeOK, Grows
  <1> QED  BY <1>1 DEF Grows

LEMMA CheckpointJob == ASSUME TypeOK, NEW r \in Runs PROVE run[r].checkpoint.job \in Nat
  <1>1. run[r].checkpoint \in Checkpoint
    BY DEF TypeOK, Run
  <1> QED  BY <1>1 DEF Checkpoint

LEMMA TypeMoves ==
    ASSUME TypeInv, NEW r \in Runs, NEW x \in Run, Moves(r, x), Grows, PlaceInv(r)'
    PROVE  TypeInv'
  <1>1. TypeOK'
    BY DEF Grows, Moves, TypeOK
  <1>2. ASSUME NEW q \in Runs, q # r PROVE PlaceInv(q)'
    <2>1. run'[q] = run[q] /\ PlaceInv(q) /\ run[q] \in Run
      BY <1>2 DEF Moves, TypeInv, TypeOK
    <2>2. run[q].checkpoint.job \in Nat /\ Len(jobs) \in Nat /\ Len(jobs') \in Nat
          /\ DOMAIN jobs \subseteq DOMAIN jobs'
      BY JobsGrow, CheckpointJob DEF TypeInv
    <2>3. run[q].checkpoint.job <= Len(jobs')
      BY <2>1, <2>2 DEF Grows, PlaceInv
    <2>4. Paged(q)' <=> Paged(q)
      BY <2>1 DEF Paged
    <2> QED  BY <2>1, <2>2, <2>3, <2>4 DEF Grows, PlaceInv
  <1> QED  BY <1>1, <1>2 DEF TypeInv

LEMMA SameTables ==
    ASSUME TypeOK, UNCHANGED <<jobs, results, docs, file>>, signalled' = signalled,
           faults' \in 0..MaxFaults
    PROVE  Grows
  <1> QED  BY DEF TypeOK, Grows

LEMMA RowSet ==
    ASSUME TypeOK, NEW r \in Runs, run[r].job \in DOMAIN jobs,
           NEW s \in {"RUNNING", "COMPLETED", "FAILED", "CANCELLED"}, NEW c \in Counters,
           SetCounts(r, s, c)
    PROVE  /\ jobs' \in Seq(JobRow) /\ Len(jobs') = Len(jobs) /\ DOMAIN jobs' = DOMAIN jobs
           /\ jobs'[run[r].job] = [status |-> s, counts |-> c]
           /\ \A j \in DOMAIN jobs : j # run[r].job => jobs'[j] = jobs[j]
  <1>1. [status |-> s, counts |-> c] \in JobRow
    BY DEF JobRow
  <1> QED  BY <1>1 DEF SetCounts, TypeOK

LEMMA RowGrows ==
    ASSUME TypeOK, NEW r \in Runs, run[r].job \in DOMAIN jobs,
           NEW s \in {"RUNNING", "COMPLETED", "FAILED", "CANCELLED"}, NEW c \in Counters,
           SetCounts(r, s, c), UNCHANGED <<results, docs, file, signalled, faults>>
    PROVE  Grows
  <1>1. jobs' \in Seq(JobRow) /\ Len(jobs') = Len(jobs) /\ DOMAIN jobs' = DOMAIN jobs
    BY RowSet
  <1>2. Len(jobs) \in Nat
    BY DEF TypeOK
  <1> QED  BY <1>1, <1>2 DEF TypeOK, Grows

LEMMA PairIn == ASSUME NEW A, NEW B, NEW a \in A, NEW b \in B PROVE <<a, b>> \in A \X B
  OBVIOUS

LEMMA ResultGrows ==
    ASSUME TypeOK, NEW j \in DOMAIN jobs, NEW u \in Urls,
           results' = results \cup {<<j, u>>},
           UNCHANGED <<jobs, docs, file, signalled, faults>>
    PROVE  Grows
  <1>1. results \subseteq (DOMAIN jobs) \X Urls
    BY DEF TypeOK
  <1>2. PICK D : D = (DOMAIN jobs) \X Urls
    OBVIOUS
  <1>3. <<j, u>> \in D
    BY <1>2, PairIn
  <1>4. results' \subseteq D /\ results \subseteq results'
    BY <1>1, <1>2, <1>3
  <1>5. results' \subseteq (DOMAIN jobs') \X Urls
    BY <1>2, <1>4
  <1>6. Len(jobs) \in Nat
    BY DEF TypeOK
  <1> QED  BY <1>4, <1>5, <1>6 DEF TypeOK, Grows

LEMMA TypeStarts == Init => TypeInv
  <1> SUFFICES ASSUME Init PROVE TypeInv
    OBVIOUS
  <1>1. NoFile \in Checkpoint /\ NoFile.job = 0
    BY NoRunIsRun DEF NoRun, Run, NoFile
  <1>2. TypeOK
    <2>1. jobs \in Seq(JobRow) /\ Len(jobs) <= MaxJobs
      BY DiscoveryAssumption DEF Init
    <2>2. faults \in 0..MaxFaults
      BY DiscoveryAssumption DEF Init
    <2> QED  BY <1>1, <2>1, <2>2, NoRunIsRun DEF Init, TypeOK
  <1>3. ASSUME NEW r \in Runs PROVE PlaceInv(r)
    BY DEF Init, PlaceInv, Paged, InPage, AtDocument, NoRun, NoFile, Before
  <1> QED  BY <1>2, <1>3 DEF TypeInv

\* What the steps of the crawl need of its place, spelled out.
LEMMA PlaceMoves ==
    ASSUME TypeInv, NEW r \in Runs, NEW x \in Run, Moves(r, x), Grows,
           Keeps(x, run[r]), run[r].stage \notin {"idle", "find"},
           x.stage \notin Before \/ run[r].signal = "none",
           \/ x.stage \in {"next", "seen", "complete", "clear", "fail", "ended"}
           \/ x.key \in Keys \ x.completed /\ x.page > 0
           \/ x.stage \in {"truncate", "write"} /\ x.page = 0,
           x.stage \in AtDocument => x.todo # <<>> /\ Head(x.todo) \notin x.seen,
           x.stage \in {"log", "result"} => Head(x.todo) \in docs'
    PROVE  TypeInv'
  <1>1. run'[r] = x /\ PlaceInv(r) /\ Len(jobs) <= Len(jobs') /\ DOMAIN jobs \subseteq DOMAIN jobs'
        /\ signalled \subseteq signalled' /\ Len(jobs) \in Nat /\ Len(jobs') \in Nat
        /\ run[r].checkpoint.job \in Nat
    BY JobsGrow, CheckpointJob DEF Moves, TypeInv, Grows
  <1>2. x.checkpoint.job <= Len(jobs')
    BY <1>1 DEF PlaceInv, Keeps
  <1>3. x.job \in DOMAIN jobs'
    BY <1>1 DEF PlaceInv, Keeps
  <1>4. x.signal # "none" => x.stage \notin Before /\ x.job \in signalled'
    BY <1>1 DEF PlaceInv, Keeps
  <1>5. Paged(r)' => x.key \in Keys \ x.completed /\ x.page > 0
    BY <1>1 DEF Paged, InPage, AtDocument
  <1>6. PlaceInv(r)'
    BY <1>1, <1>2, <1>3, <1>4, <1>5 DEF PlaceInv
  <1> QED  BY <1>6, TypeMoves

\* A run that is over, or begins.
LEMMA PlaceOfNone ==
    ASSUME TypeInv, NEW r \in Runs, NEW x \in Run, Moves(r, x), Grows,
           x.stage \in {"idle", "find"}, x.signal = "none", x.checkpoint \in {file, NoFile}
    PROVE  TypeInv'
  <1>1. run'[r] = x /\ Len(jobs) \in Nat /\ Len(jobs') \in Nat /\ Len(jobs) <= Len(jobs')
        /\ file.job <= Len(jobs) /\ file.job \in Nat
    BY JobsGrow DEF Moves, TypeInv, TypeOK, Grows, Checkpoint
  <1>2. x.checkpoint.job <= Len(jobs')
    BY <1>1 DEF NoFile
  <1>3. PlaceInv(r)'
    BY <1>1, <1>2 DEF PlaceInv, Paged, InPage, AtDocument
  <1> QED  BY <1>3, TypeMoves

LEMMA PlaceOfNoRun ==
    ASSUME TypeInv, NEW r \in Runs, Moves(r, NoRun), Grows PROVE TypeInv'
  <1>1. NoRun \in Run /\ NoRun.stage = "idle" /\ NoRun.signal = "none"
        /\ NoRun.checkpoint = NoFile
    BY NoRunIsRun DEF NoRun
  <1> QED  BY <1>1, PlaceOfNone

LEMMA TypeOfEnd ==
    ASSUME TypeInv, NEW r \in Runs, End(r), Grows, run[r].stage \notin {"idle"},
           run[r].stage = "find" => run[r].signal = "none"
    PROVE  TypeInv'
  <1>1. PICK x \in Run :
            Moves(r, x) /\ (x = NoRun \/ (x.stage = "ended" /\ SameWork(x, run[r])))
    BY EndMoves DEF TypeInv
  <1>2. CASE x = NoRun
    BY <1>1, <1>2, PlaceOfNoRun
  <1>3. CASE x # NoRun
    <2>1. run[r].signal # "none"
      <3>1. run'[r] = x /\ run \in [Runs -> Run]
        BY <1>1 DEF Moves, TypeInv, TypeOK
      <3> QED  BY <1>3, <3>1 DEF End, Set
    <2> QED  BY <1>1, <1>3, <2>1, PlaceMoves DEF SameWork, AtDocument, Before
  <1> QED  BY <1>2, <1>3

\* A step of a run whose page stays where it is.
LEMMA PlaceInPage ==
    ASSUME TypeInv, NEW r \in Runs, NEW x \in Run, Moves(r, x), Grows, Keeps(x, run[r]),
           Paged(r), x.stage \notin Before,
           x.key = run[r].key, x.page = run[r].page, x.completed = run[r].completed,
           x.stage \in AtDocument => x.todo # <<>> /\ Head(x.todo) \notin x.seen,
           x.stage \in {"log", "result"} => Head(x.todo) \in docs'
    PROVE  TypeInv'
  <1>1. PlaceInv(r)
    BY DEF TypeInv
  <1>2. x.key \in Keys \ x.completed /\ x.page > 0
    BY <1>1 DEF PlaceInv
  <1>3. run[r].stage \notin {"idle", "find"}
    BY DEF Paged, InPage, AtDocument
  <1> QED  BY <1>2, <1>3, PlaceMoves

\* The handler has done its part.
LEMMA TypeOfLanded ==
    ASSUME TypeInv, NEW r \in Runs, Set(r, [run[r] EXCEPT !.signal = "landed"]), Grows,
           run[r].signal = "sent", docs' = docs, signalled' = signalled
    PROVE  TypeInv'
  <1>0. PlaceInv(r) /\ TypeOK
    BY DEF TypeInv
  <1>1. PICK x \in Run :
            /\ Moves(r, x) /\ x.stage = run[r].stage
            /\ x.job = run[r].job /\ x.checkpoint = run[r].checkpoint
            /\ x.completed = run[r].completed /\ x.seen = run[r].seen
            /\ x.key = run[r].key /\ x.page = run[r].page /\ x.todo = run[r].todo
    BY <1>0, LandedMoves
  <1>2. /\ run'[r] = x /\ DOMAIN jobs \subseteq DOMAIN jobs'
        /\ run[r].checkpoint.job <= Len(jobs')
    <2>1. Len(jobs) <= Len(jobs') /\ Len(jobs) \in Nat /\ Len(jobs') \in Nat
          /\ run[r].checkpoint.job \in Nat /\ run[r].checkpoint.job <= Len(jobs)
          /\ DOMAIN jobs \subseteq DOMAIN jobs'
      BY <1>0, JobsGrow, CheckpointJob DEF Grows, PlaceInv
    <2> QED  BY <1>1, <2>1 DEF Moves
  <1>3. PlaceInv(r)'
    BY <1>0, <1>1, <1>2 DEF PlaceInv, Paged
  <1> QED  BY <1>1, <1>3, TypeMoves

LEMMA TypeStep == TypeInv /\ [Next]_vars => TypeInv'
  <1> SUFFICES ASSUME TypeInv, [Next]_vars PROVE TypeInv'
    OBVIOUS
  <1>0. TypeOK /\ faults \in 0..MaxFaults /\ \A r \in Runs : PlaceInv(r)
    BY DEF TypeInv, TypeOK
  <1>1. ASSUME NEW r \in Runs, NEW resume \in BOOLEAN, Begin(r, resume) PROVE TypeInv'
    <2>1. Grows
      BY <1>0, <1>1, SameTables DEF Begin, tables
    <2> QED  BY <1>0, <1>1, <2>1, BeginMoves, PlaceOfNone
  <1>2. ASSUME NEW r \in Runs, FindJob(r) PROVE TypeInv'
    <2>0. PlaceInv(r) /\ run[r].stage = "find"
      BY <1>0, <1>2 DEF FindJob, At
    <2>1. PICK x \in Run :
              /\ Moves(r, x)
              /\ x.checkpoint = run[r].checkpoint /\ x.signal = run[r].signal
              /\ \/ x.stage = "adopt" /\ x.job \in DOMAIN jobs /\ jobs' = jobs
                 \/ /\ x.stage = "seen" /\ x.job = Len(jobs) + 1 /\ Len(jobs) < MaxJobs
                    /\ jobs' = Append(jobs, [status |-> "RUNNING", counts |-> NoCounts])
      BY <1>0, <1>2, <2>0, FindJobMoves DEF PlaceInv
    <2>2. UNCHANGED <<results, docs, file, signalled, faults>>
      BY <1>2 DEF FindJob
    <2>3. Grows /\ x.job \in DOMAIN jobs'
      <3>1. CASE jobs' = jobs /\ x.job \in DOMAIN jobs
        BY <1>0, <2>2, <3>1, SameTables
      <3>2. CASE /\ x.job = Len(jobs) + 1 /\ Len(jobs) < MaxJobs
                 /\ jobs' = Append(jobs, [status |-> "RUNNING", counts |-> NoCounts])
        <4>1. [status |-> "RUNNING", counts |-> NoCounts] \in JobRow
          BY DEF JobRow, Counters, NoCounts
        <4>2. jobs \in Seq(JobRow) /\ MaxJobs \in Nat
          BY <1>0, DiscoveryAssumption DEF TypeOK
        <4>3. jobs' \in Seq(JobRow) /\ Len(jobs') = Len(jobs) + 1 /\ Len(jobs) \in Nat
              /\ DOMAIN jobs = 1..Len(jobs) /\ DOMAIN jobs' = 1..(Len(jobs) + 1)
          BY <3>2, <4>1, <4>2
        <4>4. file.job \in Nat /\ file.job <= Len(jobs)
          BY <1>0 DEF TypeOK, Checkpoint
        <4>5. Len(jobs) <= Len(jobs') /\ Len(jobs') <= MaxJobs /\ file'.job <= Len(jobs')
          BY ONLY <2>2, <3>2, <4>2, <4>3, <4>4
        <4>6. DOMAIN jobs \subseteq DOMAIN jobs'
          BY <4>3
        <4>7. results' \subseteq (DOMAIN jobs') \X Urls
          BY <1>0, <2>2, <4>6 DEF TypeOK
        <4> QED  BY <1>0, <2>2, <3>2, <4>3, <4>5, <4>6, <4>7 DEF Grows, TypeOK
      <3> QED  BY <2>1, <3>1, <3>2
    <2>4. PlaceInv(r)'
      <3>1. run'[r] = x /\ x.checkpoint.job <= Len(jobs')
        <4>1. Len(jobs) <= Len(jobs') /\ Len(jobs) \in Nat /\ Len(jobs') \in Nat
              /\ run[r].checkpoint.job \in Nat /\ run[r].checkpoint.job <= Len(jobs)
          BY <1>0, <2>0, <2>3, JobsGrow, CheckpointJob DEF Grows, PlaceInv
        <4> QED  BY <2>1, <4>1 DEF Moves
      <3>2. x.signal = "none"
        BY <2>0, <2>1 DEF PlaceInv, Before
      <3> QED  BY <2>1, <2>3, <3>1, <3>2 DEF PlaceInv, Paged, InPage, AtDocument
    <2> QED  BY <2>1, <2>3, <2>4, TypeMoves
  <1>3. ASSUME NEW r \in Runs, Adopt(r) PROVE TypeInv'
    <2>0. PlaceInv(r) /\ run[r].stage = "adopt" /\ run[r].job \in DOMAIN jobs
      BY <1>0, <1>3 DEF Adopt, At, PlaceInv
    <2>1. PICK x \in Run : Moves(r, x) /\ Keeps(x, run[r]) /\ x.stage = "seen"
      BY <1>0, <1>3, <2>0, AdoptMoves
    <2>2. Grows
      <3>1. jobs[run[r].job] \in JobRow
        BY <1>0, <2>0 DEF TypeOK
      <3>2. PICK row : row = [jobs[run[r].job] EXCEPT !.status = "RUNNING"]
        OBVIOUS
      <3>3. row \in JobRow
        BY <3>1, <3>2 DEF JobRow
      <3>4. jobs' = [jobs EXCEPT ![run[r].job] = row]
        BY <1>3, <3>2 DEF Adopt
      <3>5. jobs' \in Seq(JobRow) /\ Len(jobs') = Len(jobs) /\ DOMAIN jobs' = DOMAIN jobs
        BY <1>0, <2>0, <3>3, <3>4 DEF TypeOK
      <3>6. Len(jobs) \in Nat
        BY <1>0 DEF TypeOK
      <3> QED  BY <1>0, <1>3, <3>5, <3>6 DEF Adopt, Grows, TypeOK
    <2>3. run[r].signal = "none"
      BY <2>0 DEF PlaceInv, Before
    <2> QED  BY <2>0, <2>1, <2>2, <2>3, PlaceMoves DEF AtDocument
  <1>4. ASSUME NEW r \in Runs, LoadSeen(r) PROVE TypeInv'
    <2>0. PlaceInv(r) /\ run[r].stage = "seen"
      BY <1>0, <1>4 DEF LoadSeen, At
    <2>1. PICK x \in Run :
              /\ Moves(r, x) /\ x.stage = "next" /\ x.job = run[r].job
              /\ x.signal = run[r].signal
              /\ x.checkpoint = IF run[r].checkpoint.job = run[r].job
                                THEN run[r].checkpoint ELSE NoFile
      BY <1>0, <1>4, LoadSeenMoves
    <2>2. Grows
      BY <1>0, <1>4, SameTables DEF LoadSeen, tables
    <2>3. Len(jobs) \in Nat /\ jobs' = jobs /\ signalled' = signalled /\ run'[r] = x
      BY <1>0, <1>4, <2>1 DEF LoadSeen, tables, TypeOK, Moves
    <2>4. x.checkpoint.job <= Len(jobs')
      <3>1. NoFile.job = 0
        BY DEF NoFile
      <3> QED  BY <2>0, <2>1, <2>3, <3>1 DEF PlaceInv
    <2>5. x.signal = "none" /\ x.job \in DOMAIN jobs'
      BY <2>0, <2>1, <2>3 DEF PlaceInv, Before
    <2>6. PlaceInv(r)'
      BY <2>1, <2>3, <2>4, <2>5 DEF PlaceInv, Paged, InPage, AtDocument
    <2> QED  BY <2>1, <2>2, <2>6, TypeMoves
  <1>5. ASSUME NEW r \in Runs, NextKey(r) PROVE TypeInv'
    <2>0. PlaceInv(r) /\ run[r].stage = "next" /\ Grows
      BY <1>0, <1>5, SameTables DEF NextKey, At, tables
    <2>1. PICK x \in Run :
              /\ Moves(r, x) /\ Keeps(x, run[r]) /\ x.completed = run[r].completed
              /\ \/ x.stage \in {"complete", "next"}
                 \/ x.stage = "page" /\ x.page > 0 /\ x.key \in Keys \ run[r].completed
      BY <1>0, <1>5, NextKeyMoves
    <2> QED  BY <2>0, <2>1, PlaceMoves DEF AtDocument, Before
  <1>6. ASSUME NEW r \in Runs, FetchPage(r) PROVE TypeInv'
    <2>0. PlaceInv(r) /\ Paged(r) /\ Grows
      BY <1>0, <1>6, SameTables DEF FetchPage, At, tables, Paged
    <2>1. PICK x \in Run :
              /\ Moves(r, x) /\ Keeps(x, run[r]) /\ x.stage = "truncate"
              /\ x.completed = run[r].completed
              /\ x.key = run[r].key /\ x.page = run[r].page
      BY <1>0, <1>6, <2>0, FetchPageMoves DEF PlaceInv
    <2> QED  BY <2>0, <2>1, PlaceInPage DEF AtDocument, Before
  <1>7. ASSUME NEW r \in Runs, TruncateCheckpoint(r) PROVE TypeInv'
    <2>0. PlaceInv(r) /\ run[r].stage = "truncate" /\ "write" \in Stages
      BY <1>0, <1>7 DEF TruncateCheckpoint, At, Stages
    <2>1. PICK x \in Run : Moves(r, x) /\ x.stage = "write" /\ SameWork(x, run[r])
      BY <1>0, <1>7, <2>0, GoesTo DEF TruncateCheckpoint
    <2>2. Grows
      <3>1. NoFile \in Checkpoint /\ NoFile.job = 0 /\ Len(jobs) \in Nat
        BY <1>0, NoRunIsRun DEF NoRun, Run, NoFile, TypeOK
      <3> QED  BY <1>0, <1>7, <3>1 DEF TruncateCheckpoint, tables, Grows, TypeOK
    <2>3. CASE Paged(r)
      BY <2>0, <2>1, <2>2, <2>3, PlaceInPage DEF SameWork, AtDocument, Before
    <2>4. CASE run[r].page = 0
      BY <2>0, <2>1, <2>2, <2>4, PlaceMoves DEF SameWork, AtDocument, Before
    <2> QED  BY <2>0, <2>3, <2>4 DEF Paged
  <1>8. ASSUME NEW r \in Runs, WriteCheckpoint(r) PROVE TypeInv'
    <2>0. PlaceInv(r) /\ run[r].stage = "write" /\ {"next", "doc"} \subseteq Stages
      BY <1>0, <1>8 DEF WriteCheckpoint, At, Stages
    <2>1. PICK x \in Run :
              Moves(r, x) /\ x.stage = (IF run[r].page = 0 THEN "next" ELSE "doc")
              /\ SameWork(x, run[r])
      BY <1>0, <1>8, <2>0, GoesTo DEF WriteCheckpoint, CategoryDone
    <2>2. Grows
      <3>1. run[r] \in Run /\ run[r].job \in DOMAIN jobs /\ Len(jobs) \in Nat
            /\ DOMAIN jobs = 1..Len(jobs)
        BY <1>0, <2>0 DEF TypeOK, PlaceInv
      <3>2. run[r].page # 0 => run[r].key \in Keys \ run[r].completed /\ run[r].key # 0
        <4>1. Keys = 1..Len(Site)
          BY DiscoveryAssumption DEF Keys
        <4> QED  BY <2>0, <4>1 DEF PlaceInv, Paged
      <3>3. run[r].completed \in SUBSET Keys /\ 0 \notin Keys
            /\ run[r].job \in Nat /\ run[r].page \in Nat /\ run[r].key \in Nat
        BY <3>1, DiscoveryAssumption DEF Run, Keys
      <3>4. file' \in Checkpoint /\ file'.job = run[r].job
        BY <1>8, <3>2, <3>3 DEF WriteCheckpoint, CategoryDone, Checkpoint
      <3> QED  BY <1>0, <1>8, <3>1, <3>4 DEF WriteCheckpoint, tables, Grows, TypeOK
    <2>3. CASE run[r].page # 0
      <3>1. Paged(r)
        BY <2>0, <2>3 DEF Paged
      <3> QED  BY <2>1, <2>2, <2>3, <3>1, PlaceInPage DEF SameWork, AtDocument, Before
    <2>4. CASE run[r].page = 0
      BY <2>0, <2>1, <2>2, <2>4, PlaceMoves DEF SameWork, AtDocument, Before
    <2> QED  BY <2>3, <2>4
  <1>9. ASSUME NEW r \in Runs, NextDocument(r) PROVE TypeInv'
    <2>0. PlaceInv(r) /\ Paged(r) /\ Grows
      BY <1>0, <1>9, SameTables DEF NextDocument, At, tables, Paged, InPage
    <2>1. PICK x \in Run :
              /\ Moves(r, x) /\ Keeps(x, run[r]) /\ x.stage \in {"count", "doc", "findDoc"}
              /\ x.completed = run[r].completed /\ x.seen = run[r].seen
              /\ x.key = run[r].key /\ x.page = run[r].page
              /\ x.stage = "findDoc" => x.todo # <<>> /\ Head(x.todo) \notin run[r].seen
      BY <1>0, <1>9, NextDocumentMoves
    <2> QED  BY <2>0, <2>1, PlaceInPage DEF AtDocument, Before
  <1>10. ASSUME NEW r \in Runs, FindDocument(r) PROVE TypeInv'
    <2>0. PlaceInv(r) /\ Paged(r) /\ Grows /\ run[r].stage \in AtDocument /\ docs' = docs
      BY <1>0, <1>10, SameTables DEF FindDocument, At, tables, Paged, InPage, AtDocument
    <2>1. PICK x \in Run :
              /\ Moves(r, x) /\ Keeps(x, run[r]) /\ x.stage \in {"save", "result"}
              /\ x.completed = run[r].completed /\ x.seen = run[r].seen
              /\ x.key = run[r].key /\ x.page = run[r].page /\ x.todo = run[r].todo
              /\ x.stage = "result" => Head(run[r].todo) \in docs
      BY <1>0, <1>10, FindDocumentMoves
    <2>2. x.todo # <<>> /\ Head(x.todo) \notin x.seen
      BY <2>0, <2>1 DEF PlaceInv
    <2> QED  BY <2>0, <2>1, <2>2, PlaceInPage DEF Before
  <1>11. ASSUME NEW r \in Runs, SaveDocument(r) PROVE TypeInv'
    <2>0. PlaceInv(r) /\ Paged(r) /\ run[r].stage = "save" /\ run[r].todo # <<>>
      BY <1>0, <1>11 DEF SaveDocument, At, Paged, InPage, AtDocument, PlaceInv
    <2>1. Head(run[r].todo) \in Urls
      BY <1>0, <2>0 DEF TypeOK, Run
    <2>2. Grows /\ docs \subseteq docs'
      <3>1. docs' \subseteq Urls /\ docs \subseteq docs'
        BY <1>0, <1>11, <2>1 DEF SaveDocument, TypeOK
      <3>2. Len(jobs) \in Nat
        BY <1>0 DEF TypeOK
      <3> QED  BY <1>0, <1>11, <3>1, <3>2 DEF SaveDocument, Grows, TypeOK
    <2>3. CASE Advance(r, Failed(run[r]))
      BY <1>0, <2>0, <2>2, <2>3, FailedMoves, PlaceInPage DEF AtDocument, Before
    <2>4. CASE docs' = docs \cup {Head(run[r].todo)} /\ Goto(r, "log")
      <3>1. PICK x \in Run : Moves(r, x) /\ x.stage = "log" /\ SameWork(x, run[r])
        BY <1>0, <2>4, GoesTo DEF Stages
      <3>2. x.todo # <<>> /\ Head(x.todo) \notin x.seen /\ Head(x.todo) \in docs'
        BY <2>0, <2>4, <3>1 DEF PlaceInv, SameWork, AtDocument
      <3> QED  BY <2>0, <2>2, <3>1, <3>2, PlaceInPage DEF SameWork, Before
    <2> QED  BY <1>11, <2>3, <2>4 DEF SaveDocument
  <1>12. ASSUME NEW r \in Runs, WriteImportLog(r) PROVE TypeInv'
    <2>0. PlaceInv(r) /\ Paged(r) /\ run[r].stage = "log" /\ Grows /\ docs' = docs
      BY <1>0, <1>12, SameTables DEF WriteImportLog, At, Paged, InPage, AtDocument, tables
    <2>1. PICK x \in Run : Moves(r, x) /\ x.stage = "result" /\ SameWork(x, run[r])
      BY <1>0, <1>12, GoesTo DEF Stages, WriteImportLog
    <2>2. x.todo # <<>> /\ Head(x.todo) \notin x.seen /\ Head(x.todo) \in docs'
      BY <2>0, <2>1 DEF PlaceInv, SameWork, AtDocument
    <2> QED  BY <2>0, <2>1, <2>2, PlaceInPage DEF SameWork, Before
  <1>13. ASSUME NEW r \in Runs, SaveResult(r) PROVE TypeInv'
    <2>0. PlaceInv(r) /\ Paged(r) /\ run[r].stage = "result" /\ run[r].todo # <<>>
      BY <1>0, <1>13 DEF SaveResult, At, Paged, InPage, AtDocument, PlaceInv
    <2>1. Grows
      <3>1. Head(run[r].todo) \in Urls /\ run[r].job \in DOMAIN jobs
        BY <1>0, <2>0 DEF TypeOK, Run, PlaceInv
      <3>2. results' = results \cup {<<run[r].job, Head(run[r].todo)>>}
            /\ UNCHANGED <<jobs, docs, file, signalled, faults>>
        BY <1>13 DEF SaveResult
      <3> QED  BY <1>0, <3>1, <3>2, ResultGrows
    <2>2. PICK x \in Run :
              /\ Moves(r, x) /\ Keeps(x, run[r]) /\ x.stage = "doc"
              /\ x.completed = run[r].completed
              /\ x.key = run[r].key /\ x.page = run[r].page
      BY <1>0, <1>13, <2>0, SaveResultMoves
    <2> QED  BY <2>0, <2>1, <2>2, PlaceInPage DEF AtDocument, Before
  <1>14. ASSUME NEW r \in Runs, CountPage(r) PROVE TypeInv'
    <2>0. PlaceInv(r) /\ Paged(r) /\ run[r].key \in Keys \ run[r].completed
          /\ run[r].page \in Nat /\ run[r].page > 0
          /\ run[r].stage = "count" /\ run[r].job \in DOMAIN jobs
      BY <1>0, <1>14 DEF CountPage, At, Paged, InPage, AtDocument, PlaceInv, TypeOK, Run
    <2>1. jobs[run[r].job].status \in {"RUNNING", "COMPLETED", "FAILED", "CANCELLED"}
          /\ run[r].counts \in Counters
      <3>1. run[r] \in Run
        BY <1>0 DEF TypeOK
      <3>2. jobs \in Seq(JobRow)
        BY <1>0 DEF TypeOK
      <3>3. jobs[run[r].job] \in JobRow
        BY ONLY <2>0, <3>2
      <3>4. run[r].counts \in Counters
        BY ONLY <3>1 DEF Run
      <3>5. jobs[run[r].job].status \in {"RUNNING", "COMPLETED", "FAILED", "CANCELLED"}
        BY ONLY <3>3 DEF JobRow
      <3> QED  BY <3>4, <3>5
    <2>2. Grows
      BY <1>0, <1>14, <2>0, <2>1, RowGrows DEF CountPage
    <2>3. PICK x \in Run :
              /\ Moves(r, x) /\ Keeps(x, run[r]) /\ x.key = run[r].key
              /\ \/ /\ x.stage = "page" /\ x.page = run[r].page + 1
                    /\ x.completed = run[r].completed
                 \/ x.stage = "truncate" /\ x.page = 0
      BY <1>0, <1>14, <2>0, CountPageMoves
    <2> QED  BY <2>0, <2>2, <2>3, PlaceMoves DEF AtDocument, Before
  <1>15. ASSUME NEW r \in Runs, Complete(r) PROVE TypeInv'
    <2>0. PlaceInv(r) /\ run[r].stage = "complete" /\ run[r].job \in DOMAIN jobs
          /\ run[r].counts \in Counters
      BY <1>0, <1>15 DEF Complete, At, PlaceInv, TypeOK, Run
    <2>1. Grows
      BY <1>0, <1>15, <2>0, RowGrows DEF Complete
    <2>2. PICK x \in Run : Moves(r, x) /\ x.stage = "clear" /\ SameWork(x, run[r])
      BY <1>0, <1>15, GoesTo DEF Complete, Stages
    <2> QED  BY <2>0, <2>1, <2>2, PlaceMoves DEF SameWork, AtDocument, Before
  <1>16. ASSUME NEW r \in Runs, ClearCheckpoint(r) PROVE TypeInv'
    <2>1. Grows
      <3>1. NoFile \in Checkpoint /\ NoFile.job = 0 /\ Len(jobs) \in Nat
        BY <1>0, NoRunIsRun DEF NoRun, Run, NoFile, TypeOK
      <3> QED  BY <1>0, <1>16, <3>1 DEF ClearCheckpoint, tables, Grows, TypeOK
    <2> QED  BY <1>16, <2>1, TypeOfEnd DEF ClearCheckpoint, At
  <1>17. ASSUME NEW r \in Runs, Fail(r) PROVE TypeInv'
    <2>0. run[r].stage = "fail" /\ run[r].job \in DOMAIN jobs /\ run[r].counts \in Counters
      BY <1>0, <1>17 DEF Fail, At, PlaceInv, TypeOK, Run
    <2>1. Grows
      BY <1>0, <1>17, <2>0, RowGrows DEF Fail
    <2> QED  BY <1>17, <2>0, <2>1, TypeOfEnd DEF Fail
  <1>18. ASSUME NEW r \in Runs, Cancel(r) PROVE TypeInv'
    <2>0. PlaceInv(r) /\ run[r].signal = "sent" /\ run[r].stage \notin Before
          /\ run[r].job \in DOMAIN jobs /\ run[r].job \in signalled
          /\ run[r].taken \in Counters
      BY <1>0, <1>18 DEF Cancel, PlaceInv, TypeOK, Run, Before
    <2>1. Grows
      BY <1>0, <1>18, <2>0, RowGrows DEF Cancel
    <2>2. signalled' = signalled /\ docs' = docs
      BY <1>18 DEF Cancel
    <2> QED  BY <1>0, <1>18, <2>0, <2>1, <2>2, TypeOfLanded DEF Cancel
  <1>19. ASSUME NEW r \in Runs, Exit(r) PROVE TypeInv'
    <2>1. Moves(r, NoRun) /\ Grows
      BY <1>0, <1>19, NoRunIsRun, RunMoves, SameTables DEF Exit, Set, tables
    <2> QED  BY <2>1, PlaceOfNoRun
  <1>20. ASSUME NEW r \in Runs, Throw(r) PROVE TypeInv'
    <2>0. PlaceInv(r) /\ Grows /\ docs' = docs /\ signalled' = signalled
      <3>1. faults' \in 0..MaxFaults
        BY <1>0, <1>20, DiscoveryAssumption DEF Throw, MayFault
      <3> QED  BY <1>0, <1>20, <3>1, SameTables DEF Throw, tables
    <2>1. CASE run[r].stage \in AtDocument /\ Advance(r, Failed(run[r]))
      <3>1. run[r].todo # <<>> /\ Paged(r)
        BY <2>0, <2>1 DEF PlaceInv, Paged, InPage
      <3> QED  BY <1>0, <2>0, <2>1, <3>1, FailedMoves, PlaceInPage DEF AtDocument, Before
    <2>2. CASE /\ run[r].stage \in {"page", "truncate", "write", "count", "complete"}
               /\ Goto(r, "fail")
      <3>1. PICK x \in Run : Moves(r, x) /\ x.stage = "fail" /\ SameWork(x, run[r])
        BY <1>0, <2>2, GoesTo DEF Stages
      <3> QED  BY <2>0, <2>2, <3>1, PlaceMoves DEF SameWork, AtDocument, Before
    <2>3. CASE run[r].stage \in {"find", "adopt", "seen", "clear", "fail"} /\ End(r)
      BY <2>0, <2>3, TypeOfEnd DEF PlaceInv, Before
    <2>4. CASE run[r].signal = "sent" /\ Set(r, [run[r] EXCEPT !.signal = "landed"])
      BY <1>0, <2>0, <2>4, TypeOfLanded
    <2> QED  BY <1>20, <2>1, <2>2, <2>3, <2>4 DEF Throw, AtDocument
  <1>21. ASSUME NEW r \in Runs, Stop(r) PROVE TypeInv'
    <2>1. faults' \in 0..MaxFaults
      BY <1>0, <1>21, DiscoveryAssumption DEF Stop, MayFault
    <2>2. Moves(r, NoRun) /\ Grows
      BY <1>0, <1>21, <2>1, NoRunIsRun, RunMoves, SameTables DEF Stop, Set, tables
    <2> QED  BY <2>2, PlaceOfNoRun
  <1>22. ASSUME NEW r \in Runs, Signal(r) PROVE TypeInv'
    <2>0. PlaceInv(r) /\ run[r].stage \notin Before /\ run[r].job \in DOMAIN jobs
      BY <1>0, <1>22 DEF Signal, PlaceInv, Before
    <2>1. faults' \in 0..MaxFaults /\ UNCHANGED <<jobs, results, docs, file>>
          /\ signalled' = signalled \cup {run[r].job}
      BY <1>0, <1>22, DiscoveryAssumption DEF Signal, MayFault
    <2>2. Grows
      <3>1. Len(jobs) \in Nat
        BY <1>0 DEF TypeOK
      <3> QED  BY <1>0, <2>0, <2>1, <3>1 DEF Grows, TypeOK
    <2>3. PICK x \in Run :
              /\ Moves(r, x) /\ x.stage = run[r].stage
              /\ x.job = run[r].job /\ x.checkpoint = run[r].checkpoint
              /\ x.completed = run[r].completed /\ x.seen = run[r].seen
              /\ x.key = run[r].key /\ x.page = run[r].page /\ x.todo = run[r].todo
      BY <1>0, <1>22, SignalMoves
    <2>4. run[r].checkpoint.job <= Len(jobs')
      BY <2>0, <2>1 DEF PlaceInv
    <2>5. run'[r] = x
      BY <2>3 DEF Moves
    <2>6. PlaceInv(r)'
      BY <2>0, <2>1, <2>3, <2>4, <2>5 DEF PlaceInv, Paged
    <2> QED  BY <2>2, <2>3, <2>6, TypeMoves
  <1>23. CASE UNCHANGED vars
    <2>1. TypeOK'
      BY <1>0, <1>23 DEF vars, TypeOK
    <2>2. ASSUME NEW r \in Runs PROVE PlaceInv(r)'
      BY <1>0, <1>23 DEF vars, PlaceInv, Paged
    <2> QED  BY <2>1, <2>2 DEF TypeInv
  <1> QED
    BY <1>1, <1>2, <1>3, <1>4, <1>5, <1>6, <1>7, <1>8, <1>9, <1>10, <1>11, <1>12, <1>13,
       <1>14, <1>15, <1>16, <1>17, <1>18, <1>19, <1>20, <1>21, <1>22, <1>23
    DEF Next, Step, Disturb

-----------------------------------------------------------------------------
(* The counters are backed by results.                                     *)

BackedRow(j) ==
    /\ IsFiniteSet(ResultsOf(j)) /\ ResultsOf(j) \subseteq docs
    /\ jobs[j].counts.stored <= Cardinality(ResultsOf(j))

CountsInv(r) ==
    /\ At(r, "find") => run[r].counts.stored = 0
    /\ At(r, "seen") => run[r].counts.stored <= Cardinality(ResultsOf(run[r].job))
    /\ run[r].stage \notin Before =>
        /\ run[r].seen \subseteq ResultsOf(run[r].job)
        /\ run[r].counts.stored <= Cardinality(run[r].seen)
        /\ run[r].signal # "none" => run[r].taken.stored <= Cardinality(run[r].seen)

BackedInv ==
    /\ \A j \in DOMAIN jobs : BackedRow(j)
    /\ \A r \in Runs : CountsInv(r)

LEMMA NaturalCounts ==
    ASSUME TypeOK
    PROVE  /\ \A r \in Runs :
                /\ run[r].counts.stored \in Nat /\ run[r].counts.failed \in Nat
                /\ run[r].taken.stored \in Nat
           /\ \A j \in DOMAIN jobs :
                jobs[j].counts.stored \in Nat /\ jobs[j].counts.failed \in Nat
  <1>1. ASSUME NEW r \in Runs
        PROVE  run[r].counts \in Counters /\ run[r].taken \in Counters
    BY DEF TypeOK, Run
  <1>2. ASSUME NEW j \in DOMAIN jobs PROVE jobs[j].counts \in Counters
    <2>1. jobs[j] \in JobRow
      BY DEF TypeOK
    <2> QED  BY <2>1 DEF JobRow
  <1> QED  BY <1>1, <1>2 DEF Counters

LEMMA MoreResults ==
    ASSUME results \subseteq results', NEW j, IsFiniteSet(ResultsOf(j))'
    PROVE  /\ ResultsOf(j) \subseteq ResultsOf(j)' /\ IsFiniteSet(ResultsOf(j))
           /\ Cardinality(ResultsOf(j)) \in Nat /\ Cardinality(ResultsOf(j))' \in Nat
           /\ Cardinality(ResultsOf(j)) <= Cardinality(ResultsOf(j))'
  <1>1. PICK S, T : S = ResultsOf(j) /\ T = ResultsOf(j)'
    OBVIOUS
  <1>2. S \subseteq T
    BY <1>1 DEF ResultsOf
  <1>3. IsFiniteSet(T)
    BY <1>1
  <1>4. IsFiniteSet(S) /\ Cardinality(S) <= Cardinality(T)
    BY <1>2, <1>3, FS_Subset
  <1>5. Cardinality(S) \in Nat /\ Cardinality(T) \in Nat
    BY <1>3, <1>4, FS_CardinalityType
  <1> QED  BY <1>1, <1>2, <1>4, <1>5

LEMMA BackedMoves ==
    ASSUME TypeInv, BackedInv, NEW r \in Runs, NEW x \in Run, Moves(r, x),
           results \subseteq results', DOMAIN jobs \subseteq DOMAIN jobs',
           \A j \in DOMAIN jobs' : BackedRow(j)', CountsInv(r)'
    PROVE  BackedInv'
  <1>1. ASSUME NEW q \in Runs, q # r PROVE CountsInv(q)'
    <2>1. CountsInv(q) /\ PlaceInv(q) /\ run'[q] = run[q] /\ TypeOK
      BY <1>1 DEF BackedInv, TypeInv, Moves
    <2>2. PICK j : j = run[q].job
      OBVIOUS
    <2>3. CASE run[q].stage \in {"idle", "find", "adopt"}
      BY <2>1, <2>3 DEF CountsInv, At, Before
    <2>4. CASE run[q].stage \notin {"idle", "find", "adopt"}
      <3>1. j \in DOMAIN jobs'
        BY <2>1, <2>2, <2>4 DEF PlaceInv
      <3>2. BackedRow(j)'
        BY <3>1
      <3>3. IsFiniteSet(ResultsOf(j))'
        BY <3>2 DEF BackedRow
      <3>4. /\ ResultsOf(j) \subseteq ResultsOf(j)'
            /\ Cardinality(ResultsOf(j)) \in Nat /\ Cardinality(ResultsOf(j))' \in Nat
            /\ Cardinality(ResultsOf(j)) <= Cardinality(ResultsOf(j))'
        BY <3>3, MoreResults
      <3>5. ResultsOf(run[q].job) = ResultsOf(j) /\ ResultsOf(run[q].job)' = ResultsOf(j)'
        BY <2>1, <2>2 DEF ResultsOf
      <3>6. run[q].counts.stored \in Nat
        BY <2>1, NaturalCounts
      <3> QED  BY <2>1, <3>4, <3>5, <3>6 DEF CountsInv, At
    <2> QED  BY <2>3, <2>4
  <1> QED  BY <1>1 DEF BackedInv

LEMMA SameRows ==
    ASSUME BackedInv, UNCHANGED <<jobs, results>>, docs \subseteq docs'
    PROVE  \A j \in DOMAIN jobs' : BackedRow(j)'
  <1>1. ASSUME NEW j \in DOMAIN jobs' PROVE BackedRow(j)'
    <2>1. BackedRow(j) /\ ResultsOf(j)' = ResultsOf(j) /\ jobs'[j] = jobs[j]
      BY DEF BackedInv, ResultsOf
    <2> QED  BY <2>1 DEF BackedRow
  <1> QED  BY <1>1

LEMMA QuietStep ==
    ASSUME TypeInv, BackedInv, NEW r \in Runs, NEW x \in Run, Moves(r, x),
           UNCHANGED <<jobs, results>>, docs \subseteq docs', CountsInv(r)'
    PROVE  BackedInv'
  BY SameRows, BackedMoves

LEMMA RowStep ==
    ASSUME TypeInv, BackedInv, NEW r \in Runs, NEW x \in Run, Moves(r, x),
           UNCHANGED <<results, docs>>, run[r].job \in DOMAIN jobs,
           NEW s \in {"RUNNING", "COMPLETED", "FAILED", "CANCELLED"}, NEW c \in Counters,
           SetCounts(r, s, c), c.stored <= Cardinality(ResultsOf(run[r].job)), CountsInv(r)'
    PROVE  BackedInv'
  <1>1. /\ DOMAIN jobs' = DOMAIN jobs
        /\ jobs'[run[r].job] = [status |-> s, counts |-> c]
        /\ \A j \in DOMAIN jobs : j # run[r].job => jobs'[j] = jobs[j]
    BY RowSet DEF TypeInv
  <1>2. ASSUME NEW j \in DOMAIN jobs' PROVE BackedRow(j)'
    <2>1. BackedRow(j) /\ ResultsOf(j)' = ResultsOf(j)
      BY <1>1 DEF BackedInv, ResultsOf
    <2>2. jobs'[j].counts.stored <= Cardinality(ResultsOf(j))
      BY <1>1, <2>1 DEF BackedRow
    <2> QED  BY <2>1, <2>2 DEF BackedRow
  <1> QED  BY <1>1, <1>2, BackedMoves

\* A step after the start that stores nothing.
LEMMA CountsKept ==
    ASSUME BackedInv, NEW r \in Runs, NEW x \in Run, Moves(r, x), results \subseteq results',
           run[r].stage \notin Before, x.stage \notin Before, x.job = run[r].job,
           x.seen = run[r].seen, x.counts.stored = run[r].counts.stored,
           x.signal # "none" =>
                \/ x.taken.stored = run[r].counts.stored
                \/ run[r].signal # "none" /\ x.taken = run[r].taken
    PROVE  CountsInv(r)'
  <1>1. CountsInv(r) /\ run'[r] = x
    BY DEF BackedInv, Moves
  <1>2. ResultsOf(run[r].job) \subseteq ResultsOf(run[r].job)'
    BY <1>1 DEF ResultsOf
  <1> QED  BY <1>1, <1>2 DEF CountsInv, At, Before

LEMMA IdleCounts ==
    ASSUME NEW r \in Runs, run'[r].stage = "idle" PROVE CountsInv(r)'
  BY DEF CountsInv, At, Before

LEMMA EndCounts ==
    ASSUME TypeInv, BackedInv, NEW r \in Runs, End(r), results' = results
    PROVE  \E x \in Run : Moves(r, x) /\ CountsInv(r)'
  <1>1. PICK x \in Run :
            /\ Moves(r, x)
            /\ \/ x = NoRun
               \/ run[r].signal # "none" /\ x.stage = "ended" /\ SameWork(x, run[r])
    BY EndMoves DEF TypeInv
  <1>2. CASE x = NoRun
    <2>1. run'[r].stage = "idle"
      BY <1>1, <1>2 DEF Moves, NoRun
    <2> QED  BY <1>1, <2>1, IdleCounts
  <1>3. CASE x # NoRun
    <2>1. run[r].stage \notin Before
      BY <1>1, <1>3 DEF TypeInv, PlaceInv
    <2>2. CountsInv(r)'
      BY <1>1, <1>3, <2>1, CountsKept DEF SameWork, Keeps, Before
    <2> QED  BY <1>1, <2>2
  <1> QED  BY <1>2, <1>3

LEMMA StoredIsBacked ==
    ASSUME TypeInv, BackedInv, NEW r \in Runs, run[r].stage \notin Before
    PROVE  /\ run[r].job \in DOMAIN jobs /\ run[r].counts \in Counters
           /\ run[r].taken \in Counters
           /\ run[r].counts.stored <= Cardinality(ResultsOf(run[r].job))
           /\ run[r].signal # "none" =>
                run[r].taken.stored <= Cardinality(ResultsOf(run[r].job))
  <1>1. /\ run[r].job \in DOMAIN jobs /\ run[r].counts \in Counters
        /\ run[r].taken \in Counters
    BY DEF TypeInv, PlaceInv, TypeOK, Run, Before
  <1>2. PICK S : S = ResultsOf(run[r].job)
    OBVIOUS
  <1>3. IsFiniteSet(S) /\ run[r].seen \subseteq S
    BY <1>1, <1>2 DEF BackedInv, BackedRow, CountsInv
  <1>4. IsFiniteSet(run[r].seen) /\ Cardinality(run[r].seen) <= Cardinality(S)
    BY <1>3, FS_Subset
  <1>5. Cardinality(run[r].seen) \in Nat /\ Cardinality(S) \in Nat
    BY <1>3, <1>4, FS_CardinalityType
  <1>6. run[r].counts.stored \in Nat /\ run[r].taken.stored \in Nat
    BY <1>1 DEF Counters
  <1>7. /\ run[r].counts.stored <= Cardinality(run[r].seen)
        /\ run[r].signal # "none" => run[r].taken.stored <= Cardinality(run[r].seen)
    BY DEF BackedInv, CountsInv
  <1> QED  BY <1>1, <1>2, <1>4, <1>5, <1>6, <1>7

LEMMA BackedStarts == Init => BackedInv
  <1> SUFFICES ASSUME Init PROVE BackedInv
    OBVIOUS
  <1>1. \A r \in Runs : CountsInv(r)
    BY DEF Init, CountsInv, At, Before, NoRun
  <1> QED  BY <1>1 DEF Init, BackedInv

LEMMA BackedStep == TypeInv /\ BackedInv /\ [Next]_vars => BackedInv'
  <1> SUFFICES ASSUME TypeInv, BackedInv, [Next]_vars PROVE BackedInv'
    OBVIOUS
  <1>0. /\ TypeOK
        /\ \A r \in Runs : PlaceInv(r) /\ CountsInv(r)
        /\ \A j \in DOMAIN jobs : BackedRow(j)
    BY DEF TypeInv, BackedInv
  <1>1. ASSUME NEW r \in Runs, NEW resume \in BOOLEAN, Begin(r, resume) PROVE BackedInv'
    <2>1. PICK x \in Run :
              Moves(r, x) /\ x.stage = "find" /\ x.signal = "none" /\ x.counts = NoCounts
      BY <1>0, <1>1, BeginMoves
    <2>2. CountsInv(r)'
      BY <2>1 DEF Moves, CountsInv, At, Before, NoCounts
    <2>3. UNCHANGED <<jobs, results>> /\ docs \subseteq docs'
      BY <1>1 DEF Begin, tables
    <2> QED  BY <2>1, <2>2, <2>3, QuietStep
  <1>2. ASSUME NEW r \in Runs, FindJob(r) PROVE BackedInv'
    <2>0. PlaceInv(r) /\ run[r].stage = "find" /\ run[r].counts.stored = 0
      BY <1>0, <1>2 DEF FindJob, At, CountsInv
    <2>1. PICK x \in Run :
              /\ Moves(r, x)
              /\ x.counts = run[r].counts
              /\ \/ x.stage = "adopt" /\ jobs' = jobs
                 \/ /\ x.stage = "seen" /\ x.job = Len(jobs) + 1
                    /\ jobs' = Append(jobs, [status |-> "RUNNING", counts |-> NoCounts])
      BY <1>0, <1>2, <2>0, FindJobMoves DEF PlaceInv
    <2>2. UNCHANGED <<results, docs>>
      BY <1>2 DEF FindJob
    <2>3. CASE x.stage = "adopt" /\ jobs' = jobs
      <3>1. CountsInv(r)'
        BY <2>1, <2>3 DEF Moves, CountsInv, At, Before
      <3> QED  BY <2>1, <2>2, <2>3, <3>1, QuietStep
    <2>4. CASE /\ x.stage = "seen" /\ x.job = Len(jobs) + 1
               /\ jobs' = Append(jobs, [status |-> "RUNNING", counts |-> NoCounts])
      <3>1. PICK n : n = Len(jobs) + 1
        OBVIOUS
      <3>2. jobs \in Seq(JobRow) /\ DOMAIN jobs = 1..Len(jobs) /\ Len(jobs) \in Nat
        BY <1>0 DEF TypeOK
      <3>3. /\ DOMAIN jobs' = DOMAIN jobs \cup {n} /\ n \notin DOMAIN jobs
            /\ jobs'[n] = [status |-> "RUNNING", counts |-> NoCounts]
            /\ \A j \in DOMAIN jobs : jobs'[j] = jobs[j]
        BY <2>4, <3>1, <3>2
      <3>4. ResultsOf(n)' = {}
        <4>1. results \subseteq (DOMAIN jobs) \X Urls
          BY <1>0 DEF TypeOK
        <4> QED  BY <2>2, <3>3, <4>1 DEF ResultsOf
      <3>5. Cardinality({}) = 0 /\ IsFiniteSet({})
        BY FS_EmptySet
      <3>6. BackedRow(n)'
        <4>1. IsFiniteSet(ResultsOf(n))' /\ Cardinality(ResultsOf(n))' = 0
          BY <3>4, <3>5
        <4>2. jobs'[n].counts.stored = 0
          BY <3>3 DEF NoCounts
        <4> QED  BY <3>4, <4>1, <4>2 DEF BackedRow
      <3>7. ASSUME NEW j \in DOMAIN jobs PROVE BackedRow(j)'
        <4>1. BackedRow(j) /\ ResultsOf(j)' = ResultsOf(j) /\ jobs'[j] = jobs[j]
          BY <1>0, <2>2, <3>3 DEF ResultsOf
        <4> QED  BY <2>2, <4>1 DEF BackedRow
      <3>8. CountsInv(r)'
        <4>1. ResultsOf(run[r].job)' = {}
          BY <2>1, <2>4, <3>1, <3>4 DEF Moves, ResultsOf
        <4>2. run'[r].counts.stored = 0 /\ run'[r].stage = "seen"
          BY <2>0, <2>1, <2>4 DEF Moves
        <4>3. Cardinality(ResultsOf(run[r].job))' = 0
          BY <3>5, <4>1
        <4> QED  BY <4>2, <4>3 DEF CountsInv, At, Before
      <3>9. /\ results \subseteq results' /\ DOMAIN jobs \subseteq DOMAIN jobs'
            /\ \A j \in DOMAIN jobs' : BackedRow(j)'
        BY <2>2, <3>3, <3>6, <3>7
      <3> QED  BY <2>1, <3>8, <3>9, BackedMoves
    <2> QED  BY <2>1, <2>3, <2>4
  <1>3. ASSUME NEW r \in Runs, Adopt(r) PROVE BackedInv'
    <2>0. PlaceInv(r) /\ run[r].stage = "adopt" /\ run[r].job \in DOMAIN jobs
      BY <1>0, <1>3 DEF Adopt, At, PlaceInv
    <2>1. PICK x \in Run :
              /\ Moves(r, x) /\ Keeps(x, run[r]) /\ x.stage = "seen"
              /\ x.counts = jobs[run[r].job].counts
      BY <1>0, <1>3, <2>0, AdoptMoves
    <2>2. UNCHANGED <<results, docs>>
          /\ jobs' = [jobs EXCEPT ![run[r].job].status = "RUNNING"]
      BY <1>3 DEF Adopt
    <2>3. ASSUME NEW j \in DOMAIN jobs
          PROVE  jobs'[j].counts = jobs[j].counts
      <3>1. jobs[j] \in JobRow
        BY <1>0 DEF TypeOK
      <3> QED  BY <2>2, <3>1 DEF JobRow
    <2>4. DOMAIN jobs' = DOMAIN jobs
      BY <2>2
    <2>5. ASSUME NEW j \in DOMAIN jobs' PROVE BackedRow(j)'
      <3>1. BackedRow(j) /\ ResultsOf(j)' = ResultsOf(j)
        BY <1>0, <2>2, <2>4 DEF ResultsOf
      <3> QED  BY <2>2, <2>3, <2>4, <3>1 DEF BackedRow
    <2>6. CountsInv(r)'
      <3>1. ResultsOf(run[r].job)' = ResultsOf(run[r].job) /\ run'[r] = x
        BY <2>1, <2>2 DEF Moves, ResultsOf, Keeps
      <3>2. BackedRow(run[r].job)
        BY <1>0, <2>0
      <3> QED  BY <2>1, <3>1, <3>2 DEF CountsInv, At, Before, BackedRow
    <2> QED  BY <2>1, <2>2, <2>4, <2>5, <2>6, BackedMoves
  <1>4. ASSUME NEW r \in Runs, LoadSeen(r) PROVE BackedInv'
    <2>0. /\ PlaceInv(r) /\ CountsInv(r) /\ At(r, "seen") /\ run[r].stage = "seen"
          /\ UNCHANGED <<jobs, results, docs>>
      BY <1>0, <1>4 DEF LoadSeen, At, tables
    <2>1. PICK x \in Run :
              /\ Moves(r, x) /\ x.stage = "next" /\ x.job = run[r].job
              /\ x.signal = run[r].signal /\ x.counts = run[r].counts
              /\ x.seen = ResultsOf(run[r].job)
      BY <1>0, <1>4, LoadSeenMoves
    <2>2. x.signal = "none"
      BY <2>0, <2>1 DEF PlaceInv, Before
    <2>3. run'[r] = x /\ ResultsOf(run[r].job)' = ResultsOf(run[r].job)
      BY <2>0, <2>1 DEF Moves, ResultsOf
    <2>4. CountsInv(r)'
      BY <2>0, <2>1, <2>2, <2>3 DEF CountsInv, At, Before
    <2> QED  BY <2>0, <2>1, <2>4, QuietStep
  <1>5. ASSUME NEW r \in Runs, run[r].stage \notin Before,
               NEW x \in Run, Moves(r, x), x.stage \notin Before, Keeps(x, run[r]),
               x.seen = run[r].seen, x.counts.stored = run[r].counts.stored,
               UNCHANGED <<jobs, results>>, docs \subseteq docs'
        PROVE  BackedInv'
    <2>1. CountsInv(r)'
      BY <1>5, CountsKept DEF Keeps
    <2> QED  BY <1>5, <2>1, QuietStep
  <1>6. ASSUME NEW r \in Runs, NextKey(r) PROVE BackedInv'
    <2>1. PICK x \in Run :
              /\ Moves(r, x) /\ Keeps(x, run[r]) /\ x.seen = run[r].seen
              /\ x.counts = run[r].counts /\ x.stage \in {"complete", "next", "page"}
      BY <1>0, <1>6, NextKeyMoves
    <2>2. UNCHANGED <<jobs, results, docs>> /\ run[r].stage = "next"
      BY <1>6 DEF NextKey, tables, At
    <2> QED  BY <1>5, <2>1, <2>2 DEF Before
  <1>7. ASSUME NEW r \in Runs, FetchPage(r) PROVE BackedInv'
    <2>0. UNCHANGED <<jobs, results, docs>> /\ run[r].stage = "page" /\ run[r].key \in Keys
      BY <1>0, <1>7 DEF FetchPage, tables, At, PlaceInv, Paged
    <2>1. PICK x \in Run :
              /\ Moves(r, x) /\ Keeps(x, run[r]) /\ x.seen = run[r].seen
              /\ x.counts = run[r].counts /\ x.stage = "truncate"
      BY <1>0, <1>7, <2>0, FetchPageMoves
    <2> QED  BY <1>5, <2>0, <2>1 DEF Before
  <1>8. ASSUME NEW r \in Runs, NEW s \in Stages \ Before, Goto(r, s),
               run[r].stage \notin Before, UNCHANGED <<jobs, results>>, docs \subseteq docs'
        PROVE  BackedInv'
    <2>1. PICK x \in Run : Moves(r, x) /\ x.stage = s /\ SameWork(x, run[r])
      BY <1>0, <1>8, GoesTo
    <2> QED  BY <1>5, <1>8, <2>1 DEF SameWork
  <1>9. ASSUME NEW r \in Runs, TruncateCheckpoint(r) PROVE BackedInv'
    BY <1>8, <1>9 DEF TruncateCheckpoint, tables, At, Stages, Before
  <1>10. ASSUME NEW r \in Runs, WriteCheckpoint(r) PROVE BackedInv'
    <2>1. PICK s \in Stages \ Before : s = IF CategoryDone(r) THEN "next" ELSE "doc"
      BY DEF Stages, Before
    <2>2. Goto(r, s) /\ UNCHANGED <<jobs, results, docs>> /\ run[r].stage = "write"
      BY <1>10, <2>1 DEF WriteCheckpoint, tables, At
    <2> QED  BY <1>8, <2>2 DEF Before
  <1>11. ASSUME NEW r \in Runs, NextDocument(r) PROVE BackedInv'
    <2>1. PICK x \in Run :
              /\ Moves(r, x) /\ Keeps(x, run[r]) /\ x.seen = run[r].seen
              /\ x.counts.stored = run[r].counts.stored
              /\ x.stage \in {"count", "doc", "findDoc"}
      BY <1>0, <1>11, NextDocumentMoves
    <2>2. UNCHANGED <<jobs, results, docs>> /\ run[r].stage = "doc"
      BY <1>11 DEF NextDocument, tables, At
    <2> QED  BY <1>5, <2>1, <2>2 DEF Before
  <1>12. ASSUME NEW r \in Runs, FindDocument(r) PROVE BackedInv'
    <2>1. PICK x \in Run :
              /\ Moves(r, x) /\ Keeps(x, run[r]) /\ x.seen = run[r].seen
              /\ x.counts = run[r].counts /\ x.stage \in {"save", "result"}
      BY <1>0, <1>12, FindDocumentMoves
    <2>2. UNCHANGED <<jobs, results, docs>> /\ run[r].stage = "findDoc"
      BY <1>12 DEF FindDocument, tables, At
    <2> QED  BY <1>5, <2>1, <2>2 DEF Before
  <1>13. ASSUME NEW r \in Runs, run[r].stage \in AtDocument, Advance(r, Failed(run[r])),
                UNCHANGED <<jobs, results, docs>>
         PROVE  BackedInv'
    <2>0. run[r].todo # <<>>
      BY <1>0, <1>13 DEF PlaceInv
    <2>1. PICK x \in Run :
              /\ Moves(r, x) /\ Keeps(x, run[r]) /\ x.seen = run[r].seen
              /\ x.counts.stored = run[r].counts.stored /\ x.stage = "doc"
      BY <1>0, <1>13, <2>0, FailedMoves
    <2> QED  BY <1>5, <1>13, <2>1 DEF Before, AtDocument
  <1>14. ASSUME NEW r \in Runs, SaveDocument(r) PROVE BackedInv'
    <2>1. run[r].stage = "save" /\ UNCHANGED <<jobs, results>>
      BY <1>14 DEF SaveDocument, At
    <2>2. CASE Advance(r, Failed(run[r])) /\ docs' = docs
      BY <1>13, <2>1, <2>2 DEF AtDocument
    <2>3. CASE docs' = docs \cup {Head(run[r].todo)} /\ Goto(r, "log")
      BY <1>8, <2>1, <2>3 DEF Stages, Before
    <2> QED  BY <1>14, <2>2, <2>3 DEF SaveDocument
  <1>15. ASSUME NEW r \in Runs, WriteImportLog(r) PROVE BackedInv'
    BY <1>8, <1>15 DEF WriteImportLog, tables, At, Stages, Before
  <1>16. ASSUME NEW r \in Runs, SaveResult(r) PROVE BackedInv'
    <2>0. /\ run[r].stage = "result" /\ run[r].todo # <<>> /\ run[r].todo \in Seq(Urls)
          /\ Head(run[r].todo) \notin run[r].seen /\ Head(run[r].todo) \in docs
          /\ run[r].job \in DOMAIN jobs /\ docs \subseteq Urls
      BY <1>0, <1>16 DEF SaveResult, At, PlaceInv, AtDocument, TypeOK, Run
    <2>1. PICK x \in Run :
              /\ Moves(r, x) /\ Keeps(x, run[r]) /\ x.stage = "doc"
              /\ x.seen = run[r].seen \cup {Head(run[r].todo)}
              /\ x.counts.stored \in {run[r].counts.stored, run[r].counts.stored + 1}
      BY <1>0, <1>16, <2>0, SaveResultMoves
    <2>2. PICK u, k : u = Head(run[r].todo) /\ k = run[r].job
      OBVIOUS
    <2>3. results' = results \cup {<<k, u>>} /\ UNCHANGED <<jobs, docs>>
      BY <1>16, <2>2 DEF SaveResult
    <2>4. /\ ResultsOf(k)' = ResultsOf(k) \cup {u}
          /\ \A j : j # k => ResultsOf(j)' = ResultsOf(j)
      BY <2>0, <2>2, <2>3 DEF ResultsOf
    <2>5. ASSUME NEW j \in DOMAIN jobs' PROVE BackedRow(j)'
      <3>1. BackedRow(j) /\ jobs'[j] = jobs[j]
        BY <1>0, <2>3
      <3>2. CASE j # k
        BY <2>3, <2>4, <3>1, <3>2 DEF BackedRow
      <3>3. CASE j = k
        <4>1. PICK S : S = ResultsOf(k)
          OBVIOUS
        <4>2. IsFiniteSet(S)
          BY <3>1, <3>3, <4>1 DEF BackedRow
        <4>3. IsFiniteSet(S \cup {u})
              /\ Cardinality(S \cup {u}) = IF u \in S THEN Cardinality(S) ELSE Cardinality(S) + 1
          BY <4>2, FS_AddElement
        <4>4. Cardinality(S) \in Nat /\ jobs[k].counts.stored \in Nat
          BY <1>0, <2>3, <3>3, <4>2, FS_CardinalityType, NaturalCounts
        <4>5. jobs[k].counts.stored <= Cardinality(S \cup {u})
          BY <3>1, <3>3, <4>1, <4>3, <4>4 DEF BackedRow
        <4>6. IsFiniteSet(ResultsOf(k))' /\ Cardinality(ResultsOf(k))' = Cardinality(S \cup {u})
          BY <2>4, <4>1, <4>3
        <4>7. ResultsOf(k)' \subseteq docs'
          BY <2>0, <2>2, <2>3, <2>4, <3>1, <3>3 DEF BackedRow
        <4> QED  BY <2>3, <3>1, <3>3, <4>5, <4>6, <4>7 DEF BackedRow
      <3> QED  BY <3>2, <3>3
    <2>6. CountsInv(r)'
      <3>1. PICK S : S = run[r].seen
        OBVIOUS
      <3>2. /\ S \subseteq ResultsOf(k) /\ run[r].counts.stored <= Cardinality(S)
            /\ run[r].signal # "none" => run[r].taken.stored <= Cardinality(S)
        BY <1>0, <2>0, <2>2, <3>1 DEF CountsInv, Before
      <3>3. IsFiniteSet(S)
        <4>1. PICK T : T = ResultsOf(k)
          OBVIOUS
        <4>2. IsFiniteSet(T) /\ S \in SUBSET T
          BY <1>0, <2>0, <2>2, <3>2, <4>1 DEF BackedRow
        <4> QED  BY <4>2, FS_Subset
      <3>4. Cardinality(S \cup {u}) = Cardinality(S) + 1 /\ Cardinality(S) \in Nat
        BY <2>0, <2>2, <3>1, <3>3, FS_AddElement, FS_CardinalityType
      <3>5. run[r].counts.stored \in Nat /\ run[r].taken.stored \in Nat
        BY <1>0, NaturalCounts
      <3>6. x.counts.stored <= Cardinality(x.seen)
            /\ (x.signal # "none" => x.taken.stored <= Cardinality(x.seen))
        BY <2>1, <2>2, <3>1, <3>2, <3>4, <3>5 DEF Keeps
      <3>7. x.seen \subseteq ResultsOf(k)' /\ run'[r] = x /\ x.job = k
        BY <2>1, <2>2, <2>4, <3>1, <3>2 DEF Moves, Keeps
      <3>8. ResultsOf(run[r].job)' = ResultsOf(k)'
        BY <3>7 DEF ResultsOf
      <3> QED  BY <2>1, <3>6, <3>7, <3>8 DEF CountsInv, At, Before
    <2>7. results \subseteq results' /\ DOMAIN jobs \subseteq DOMAIN jobs'
      BY <2>3
    <2> QED  BY <2>1, <2>5, <2>6, <2>7, BackedMoves
  <1>17. ASSUME NEW r \in Runs, CountPage(r) PROVE BackedInv'
    <2>0. /\ run[r].stage = "count" /\ UNCHANGED <<results, docs>>
          /\ SetCounts(r, jobs[run[r].job].status, run[r].counts)
      BY <1>17 DEF CountPage, At
    <2>1. run[r].key \in Keys /\ run[r].job \in DOMAIN jobs
      BY <1>0, <2>0 DEF PlaceInv, Paged, InPage
    <2>2. jobs[run[r].job].status \in {"RUNNING", "COMPLETED", "FAILED", "CANCELLED"}
      <3>1. jobs[run[r].job] \in JobRow
        BY <1>0, <2>1 DEF TypeOK
      <3> QED  BY <3>1 DEF JobRow
    <2>3. PICK x \in Run :
              /\ Moves(r, x) /\ Keeps(x, run[r]) /\ x.seen = run[r].seen
              /\ x.counts = run[r].counts /\ x.stage \in {"page", "truncate"}
      BY <1>0, <1>17, <2>1, CountPageMoves
    <2>4. CountsInv(r)'
      BY <2>0, <2>3, CountsKept DEF Before, Keeps
    <2>5. run[r].counts \in Counters
          /\ run[r].counts.stored <= Cardinality(ResultsOf(run[r].job))
      BY <2>0, StoredIsBacked DEF Before
    <2> QED  BY <2>0, <2>1, <2>2, <2>3, <2>4, <2>5, RowStep
  <1>18. ASSUME NEW r \in Runs, Complete(r) PROVE BackedInv'
    <2>0. /\ run[r].stage = "complete" /\ UNCHANGED <<results, docs>>
          /\ SetCounts(r, "COMPLETED", run[r].counts)
      BY <1>18 DEF Complete, At
    <2>1. PICK x \in Run : Moves(r, x) /\ x.stage = "clear" /\ SameWork(x, run[r])
      BY <1>0, <1>18, GoesTo DEF Complete, Stages
    <2>2. CountsInv(r)'
      BY <2>0, <2>1, CountsKept DEF Before, SameWork, Keeps
    <2>3. /\ run[r].counts \in Counters /\ run[r].job \in DOMAIN jobs
          /\ run[r].counts.stored <= Cardinality(ResultsOf(run[r].job))
      BY <2>0, StoredIsBacked DEF Before
    <2> QED  BY <2>0, <2>1, <2>2, <2>3, RowStep
  <1>19. ASSUME NEW r \in Runs, End(r), UNCHANGED <<jobs, results, docs>> PROVE BackedInv'
    BY <1>19, EndCounts, QuietStep
  <1>20. ASSUME NEW r \in Runs, ClearCheckpoint(r) PROVE BackedInv'
    BY <1>19, <1>20 DEF ClearCheckpoint, tables
  <1>21. ASSUME NEW r \in Runs, Fail(r) PROVE BackedInv'
    <2>0. /\ run[r].stage = "fail" /\ UNCHANGED <<results, docs>> /\ End(r)
          /\ SetCounts(r, "FAILED", run[r].counts)
      BY <1>21 DEF Fail, At
    <2>1. PICK x \in Run : Moves(r, x) /\ CountsInv(r)'
      BY <2>0, EndCounts
    <2>2. /\ run[r].counts \in Counters /\ run[r].job \in DOMAIN jobs
          /\ run[r].counts.stored <= Cardinality(ResultsOf(run[r].job))
      BY <2>0, StoredIsBacked DEF Before
    <2> QED  BY <2>0, <2>1, <2>2, RowStep
  <1>22. ASSUME NEW r \in Runs, run[r].signal = "sent",
                Set(r, [run[r] EXCEPT !.signal = "landed"]), UNCHANGED results
         PROVE  /\ run[r].stage \notin Before
                /\ \E x \in Run : Moves(r, x) /\ CountsInv(r)'
    <2>1. run[r].stage \notin Before
      BY <1>0, <1>22 DEF PlaceInv
    <2>2. PICK x \in Run :
              /\ Moves(r, x) /\ x.stage = run[r].stage
              /\ x.job = run[r].job /\ x.seen = run[r].seen
              /\ x.counts = run[r].counts /\ x.taken = run[r].taken
      BY <1>0, <1>22, LandedMoves
    <2>3. CountsInv(r)'
      BY <1>22, <2>1, <2>2, CountsKept
    <2> QED  BY <2>1, <2>2, <2>3
  <1>23. ASSUME NEW r \in Runs, Cancel(r) PROVE BackedInv'
    <2>0. /\ run[r].signal = "sent" /\ UNCHANGED <<results, docs>>
          /\ Set(r, [run[r] EXCEPT !.signal = "landed"])
          /\ SetCounts(r, "CANCELLED", run[r].taken)
      BY <1>23 DEF Cancel
    <2>1. PICK x \in Run : run[r].stage \notin Before /\ Moves(r, x) /\ CountsInv(r)'
      BY <1>22, <2>0
    <2>2. /\ run[r].taken \in Counters /\ run[r].job \in DOMAIN jobs
          /\ run[r].taken.stored <= Cardinality(ResultsOf(run[r].job))
      BY <2>0, <2>1, StoredIsBacked
    <2> QED  BY <2>0, <2>1, <2>2, RowStep
  <1>24. ASSUME NEW r \in Runs, Set(r, NoRun), UNCHANGED <<jobs, results, docs>>
         PROVE  BackedInv'
    <2>1. Moves(r, NoRun) /\ NoRun \in Run
      BY <1>0, <1>24, NoRunIsRun, RunMoves DEF Set
    <2>2. CountsInv(r)'
      BY <2>1, IdleCounts DEF Moves, NoRun
    <2> QED  BY <1>24, <2>1, <2>2, QuietStep
  <1>25. ASSUME NEW r \in Runs, Exit(r) \/ Stop(r) PROVE BackedInv'
    BY <1>24, <1>25 DEF Exit, Stop, tables
  <1>26. ASSUME NEW r \in Runs, Throw(r) PROVE BackedInv'
    <2>0. UNCHANGED <<jobs, results, docs>>
      BY <1>26 DEF Throw, tables
    <2>1. CASE run[r].stage \in AtDocument /\ Advance(r, Failed(run[r]))
      BY <1>13, <2>0, <2>1
    <2>2. CASE /\ run[r].stage \in {"page", "truncate", "write", "count", "complete"}
               /\ Goto(r, "fail")
      BY <1>8, <2>0, <2>2 DEF Stages, Before
    <2>3. CASE End(r)
      BY <1>19, <2>0, <2>3
    <2>4. CASE run[r].signal = "sent" /\ Set(r, [run[r] EXCEPT !.signal = "landed"])
      <3>1. PICK x \in Run : Moves(r, x) /\ CountsInv(r)'
        BY <1>22, <2>0, <2>4
      <3> QED  BY <2>0, <3>1, QuietStep
    <2> QED  BY <1>26, <2>1, <2>2, <2>3, <2>4 DEF Throw, AtDocument
  <1>27. ASSUME NEW r \in Runs, Signal(r) PROVE BackedInv'
    <2>0. UNCHANGED <<jobs, results, docs>> /\ run[r].stage \notin Before
      BY <1>27 DEF Signal, Before
    <2>1. PICK x \in Run :
              /\ Moves(r, x) /\ x.stage = run[r].stage
              /\ x.job = run[r].job /\ x.seen = run[r].seen
              /\ x.counts = run[r].counts /\ x.taken = run[r].counts
      BY <1>0, <1>27, SignalMoves
    <2>2. CountsInv(r)'
      BY <2>0, <2>1, CountsKept
    <2> QED  BY <2>0, <2>1, <2>2, QuietStep
  <1>28. CASE UNCHANGED vars
    <2>1. ASSUME NEW r \in Runs PROVE CountsInv(r)'
      BY <1>0, <1>28 DEF vars, CountsInv, At, Before, ResultsOf
    <2>2. \A j \in DOMAIN jobs' : BackedRow(j)'
      BY <1>28, SameRows DEF vars
    <2> QED  BY <2>1, <2>2 DEF BackedInv
  <1> QED
    BY <1>1, <1>2, <1>3, <1>4, <1>6, <1>7, <1>9, <1>10, <1>11, <1>12, <1>14, <1>15,
       <1>16, <1>17, <1>18, <1>20, <1>21, <1>23, <1>25, <1>26, <1>27, <1>28
    DEF Next, Step, Disturb

\* The types of the tables, and of what each run holds of them.
THEOREM Discovery_TypeOK == Spec => []TypeOK
  <1>1. TypeInv => TypeOK
    BY DEF TypeInv
  <1> QED  BY <1>1, TypeStarts, TypeStep, PTL DEF Spec

\* A job never claims to have stored more documents than it has crawl results,
\* and every result is of a stored document, however many runs share the job.
THEOREM Discovery_CountersAreBacked == Spec => []CountersAreBacked
  <1>1. BackedInv => CountersAreBacked
    BY DEF BackedInv, BackedRow, CountersAreBacked
  <1> QED  BY <1>1, TypeStarts, TypeStep, BackedStarts, BackedStep, PTL DEF Spec

-----------------------------------------------------------------------------
(* What a crawl skips, when one process runs at a time.                    *)

AtMost(S, n) == IsFiniteSet(S) /\ Cardinality(S) <= n

\* What a checkpoint says is done.
Behind(completed, key, page) ==
    (UNION {Category(k) : k \in completed})
        \cup (IF key \in Keys THEN UpTo(key, page) ELSE {})

OnPages == {"page", "truncate", "write"} \cup InPage
InLoop  == {"next", "complete"} \cup OnPages

\* What a run counts as done: what its checkpoint says, the categories and pages
\* it completed, and of the page it is at the documents it has taken up.
Claimed(x) ==
    Behind(x.completed, x.checkpoint.key, x.checkpoint.page)
        \cup (IF x.stage \in OnPages THEN UpTo(x.key, x.page) ELSE {})
        \cup (IF x.stage \in InPage
              THEN ToSet(Page(x.key, x.page)) \ ToSet(x.todo) ELSE {})

\* The crawl goes through the categories in order, and through all of them.
OrderInv(x) ==
    /\ x.stage \in Before => x.key = 0
    /\ x.stage \in {"next", "complete"} => 1..x.key \subseteq x.completed
    /\ x.stage \in OnPages =>
        IF x.page = 0 THEN 1..x.key \subseteq x.completed
        ELSE \A k \in Keys : k < x.key => k \in x.completed
    /\ x.stage \in {"truncate", "write"} => x.page = 0 \/ x.todo = Page(x.key, x.page)
    /\ x.stage = "count" => x.todo = <<>>
    /\ x.stage = "complete" => Keys \subseteq x.completed

\* The failures a run has counted are those of its row, and since a page began more.
FailuresInv(r) ==
    /\ run[r].stage \in {"seen", "next", "page", "truncate", "write", "complete"} =>
        run[r].counts.failed = jobs[run[r].job].counts.failed
    /\ run[r].stage \in InPage \cup {"fail"} =>
        jobs[run[r].job].counts.failed <= run[r].counts.failed

ClaimInv(r) ==
    /\ OrderInv(run[r])
    /\ run[r].stage \in {"find", "adopt", "seen"} => run[r].checkpoint \in {file, NoFile}
    /\ run[r].stage = "find" => run[r].counts.failed = 0
    /\ run[r].job \notin signalled =>
        /\ FailuresInv(r)
        /\ run[r].stage \in InLoop =>
             AtMost(Claimed(run[r]) \ ResultsOf(run[r].job), run[r].counts.failed)

\* What the file says is done has a result, or was counted as failed in the row.
FileInv ==
    file.job # 0 /\ file.job \notin signalled =>
        AtMost(Behind(file.completed, file.key, file.page) \ ResultsOf(file.job),
               jobs[file.job].counts.failed)

FinishedInv ==
    \A j \in DOMAIN jobs \ signalled : jobs[j].status = "COMPLETED" =>
        AtMost(Listed \ ResultsOf(j), jobs[j].counts.failed)

SkipInv == FileInv /\ FinishedInv /\ \A r \in Runs : ClaimInv(r)

-----------------------------------------------------------------------------
LEMMA AtMostSubset ==
    ASSUME NEW S, NEW T, NEW n \in Nat, NEW m \in Nat, AtMost(T, n), S \subseteq T, n <= m
    PROVE  AtMost(S, m)
  <1>1. IsFiniteSet(S) /\ Cardinality(S) <= Cardinality(T)
    BY FS_Subset DEF AtMost
  <1>2. Cardinality(S) \in Nat /\ Cardinality(T) \in Nat
    BY <1>1, FS_CardinalityType DEF AtMost
  <1> QED  BY <1>1, <1>2 DEF AtMost

LEMMA AtMostAdd ==
    ASSUME NEW T, NEW u, NEW n \in Nat, AtMost(T, n) PROVE AtMost(T \cup {u}, n + 1)
  <1>1. IsFiniteSet(T \cup {u}) /\ Cardinality(T) \in Nat
        /\ Cardinality(T \cup {u}) \in {Cardinality(T), Cardinality(T) + 1}
    BY FS_AddElement, FS_CardinalityType DEF AtMost
  <1> QED  BY <1>1 DEF AtMost

LEMMA NothingIsAtMost == ASSUME NEW n \in Nat PROVE AtMost({}, n)
  BY FS_EmptySet DEF AtMost

\* What the pages list.
LEMMA PagesOf ==
    ASSUME NEW k \in Keys
    PROVE  /\ Len(Site[k]) \in Nat /\ DOMAIN Site[k] = 1..Len(Site[k])
           /\ \A n \in DOMAIN Site[k] : Site[k][n] \in Seq(Urls) /\ Site[k][n] # <<>>
  <1>1. Site[k] \in Seq(Seq(Urls) \ {<<>>})
    BY DiscoveryAssumption DEF Keys
  <1> QED  BY <1>1

LEMMA UpToFirst ==
    ASSUME NEW k \in Keys, NEW p \in {0, 1} PROVE UpTo(k, p) = {}
  BY PagesOf DEF UpTo

LEMMA UpToNext ==
    ASSUME NEW k \in Keys, NEW p \in Nat
    PROVE  UpTo(k, p + 1) \subseteq UpTo(k, p) \cup ToSet(Page(k, p))
  <1> SUFFICES ASSUME NEW u \in UpTo(k, p + 1), u \notin UpTo(k, p)
               PROVE  u \in ToSet(Page(k, p))
    OBVIOUS
  <1>1. PICK n \in DOMAIN Site[k] : n < p + 1 /\ u \in ToSet(Site[k][n])
    BY DEF UpTo
  <1>2. n \in Nat /\ u \in Urls
    BY PagesOf DEF UpTo
  <1>3. ~(n < p)
    BY <1>1, <1>2 DEF UpTo
  <1>4. n = p
    BY <1>1, <1>2, <1>3
  <1> QED  BY <1>1, <1>4 DEF Page

\* A category ends at its first empty page.
LEMMA CategoryRead ==
    ASSUME NEW k \in Keys, NEW p \in Nat \ {0}, Page(k, p) = <<>>
    PROVE  Category(k) \subseteq UpTo(k, p)
  <1>1. p \notin DOMAIN Site[k]
    BY PagesOf DEF Page
  <1>2. \A n \in DOMAIN Site[k] : n < p
    BY <1>1, PagesOf
  <1> QED  BY <1>2 DEF Category, UpTo

LEMMA BehindMore ==
    ASSUME NEW C, NEW k, NEW key, NEW page
    PROVE  Behind(C \cup {k}, key, page) = Behind(C, key, page) \cup Category(k)
  BY DEF Behind

LEMMA HeadTaken ==
    ASSUME NEW s \in Seq(Urls), s # <<>>
    PROVE  ToSet(s) = {Head(s)} \cup ToSet(Tail(s))
  <1>1. /\ Len(s) \in Nat \ {0} /\ Head(s) = s[1] /\ DOMAIN s = 1..Len(s)
        /\ DOMAIN Tail(s) = 1..(Len(s) - 1)
        /\ \A i \in 1..(Len(s) - 1) : Tail(s)[i] = s[i + 1]
    OBVIOUS
  <1>2. ASSUME NEW u \in ToSet(s) PROVE u \in {Head(s)} \cup ToSet(Tail(s))
    <2>1. PICK i \in DOMAIN s : u = s[i]
      BY DEF ToSet
    <2>2. CASE i = 1
      BY <1>1, <2>1, <2>2
    <2>3. CASE i # 1
      <3>1. i - 1 \in 1..(Len(s) - 1) /\ (i - 1) + 1 = i
        BY <1>1, <2>3
      <3>2. Tail(s)[i - 1] = u
        BY <1>1, <2>1, <3>1
      <3> QED  BY <1>1, <3>1, <3>2 DEF ToSet
    <2> QED  BY <2>2, <2>3
  <1>3. ASSUME NEW u \in {Head(s)} \cup ToSet(Tail(s)) PROVE u \in ToSet(s)
    <2>1. CASE u = Head(s)
      BY <1>1, <2>1 DEF ToSet
    <2>2. CASE u \in ToSet(Tail(s))
      <3>1. PICK i \in 1..(Len(s) - 1) : u = Tail(s)[i]
        BY <1>1, <2>2 DEF ToSet
      <3>2. i + 1 \in DOMAIN s /\ u = s[i + 1]
        BY <1>1, <3>1
      <3> QED  BY <3>2 DEF ToSet
    <2> QED  BY <2>1, <2>2
  <1> QED  BY <1>2, <1>3

\* What a run claims, by where it is.
LEMMA ClaimedBetween ==
    ASSUME NEW x, x.stage \in {"next", "complete"}
    PROVE  Claimed(x) = Behind(x.completed, x.checkpoint.key, x.checkpoint.page)
  BY DEF Claimed, OnPages, InPage, AtDocument

LEMMA ClaimedOnPage ==
    ASSUME NEW x, x.stage \in {"page", "truncate", "write"}
    PROVE  Claimed(x) = Behind(x.completed, x.checkpoint.key, x.checkpoint.page)
                            \cup UpTo(x.key, x.page)
  BY DEF Claimed, OnPages, InPage, AtDocument

LEMMA ClaimedInPage ==
    ASSUME NEW x, x.stage \in InPage
    PROVE  Claimed(x) = Behind(x.completed, x.checkpoint.key, x.checkpoint.page)
                            \cup UpTo(x.key, x.page)
                            \cup (ToSet(Page(x.key, x.page)) \ ToSet(x.todo))
  BY DEF Claimed, OnPages

-----------------------------------------------------------------------------
LEMMA FewerLeft ==
    ASSUME results \subseteq results', NEW S, NEW j, NEW n \in Nat, NEW m \in Nat,
           AtMost(S \ ResultsOf(j), n), n <= m
    PROVE  AtMost(S \ ResultsOf(j)', m)
  <1>1. ResultsOf(j) \subseteq ResultsOf(j)'
    BY DEF ResultsOf
  <1>2. PICK A, B : A = S \ ResultsOf(j) /\ B = S \ ResultsOf(j)'
    OBVIOUS
  <1>3. B \subseteq A /\ AtMost(A, n)
    BY <1>1, <1>2
  <1>4. AtMost(B, m)
    BY <1>3, AtMostSubset
  <1> QED  BY <1>2, <1>4

\* Failures are only counted, but for what a signal's handler takes back.
FailuresGrow ==
    /\ results \subseteq results' /\ signalled \subseteq signalled'
    /\ DOMAIN jobs \subseteq DOMAIN jobs'
    /\ \A j \in DOMAIN jobs \ signalled' :
            jobs[j].counts.failed <= jobs'[j].counts.failed

LEMMA FileKept ==
    ASSUME TypeOK, TypeOK', SkipInv, FailuresGrow, file' \in {file, NoFile}
    PROVE  FileInv'
  <1>1. CASE file' = NoFile
    BY <1>1 DEF FileInv, NoFile
  <1>2. CASE file' = file /\ file.job # 0 /\ file.job \notin signalled'
    <2>1. PICK j, S : /\ j = file.job
                      /\ S = Behind(file.completed, file.key, file.page)
      OBVIOUS
    <2>2. j \in DOMAIN jobs
      <3>1. file.job \in Nat /\ file.job <= Len(jobs) /\ DOMAIN jobs = 1..Len(jobs)
            /\ Len(jobs) \in Nat
        BY DEF TypeOK, Checkpoint
      <3> QED  BY <1>2, <2>1, <3>1
    <2>3. j \in DOMAIN jobs' /\ j \notin signalled /\ j \notin signalled'
      BY <1>2, <2>1, <2>2 DEF FailuresGrow
    <2>4. PICK n, m \in Nat : n = jobs[j].counts.failed /\ m = jobs'[j].counts.failed
      <3>1. jobs[j] \in JobRow /\ jobs'[j] \in JobRow
        BY <2>2, <2>3 DEF TypeOK
      <3> QED  BY <3>1 DEF JobRow, Counters
    <2>5. AtMost(S \ ResultsOf(j), n) /\ n <= m
      BY <1>2, <2>1, <2>2, <2>3, <2>4 DEF SkipInv, FileInv, FailuresGrow
    <2>6. AtMost(S \ ResultsOf(j)', m)
      BY <2>5, FewerLeft DEF FailuresGrow
    <2>7. file'.job = j /\ Behind(file'.completed, file'.key, file'.page) = S
          /\ jobs'[file'.job].counts.failed = m
      BY <1>2, <2>1, <2>4
    <2>8. ResultsOf(file.job)' = ResultsOf(j)'
      BY <2>7 DEF ResultsOf
    <2> QED  BY <2>6, <2>7, <2>8 DEF FileInv
  <1>3. CASE file' = file /\ ~(file.job # 0 /\ file.job \notin signalled')
    BY <1>3 DEF FileInv
  <1> QED  BY <1>1, <1>2, <1>3

LEMMA FinishedKept ==
    ASSUME TypeOK, TypeOK', SkipInv, FailuresGrow,
           \A j \in DOMAIN jobs' \ signalled' : jobs'[j].status = "COMPLETED" =>
                \/ j \in DOMAIN jobs /\ jobs[j].status = "COMPLETED"
                \/ AtMost(Listed \ ResultsOf(j)', jobs'[j].counts.failed)
    PROVE  FinishedInv'
  <1> SUFFICES ASSUME NEW j \in DOMAIN jobs', j \notin signalled',
                      jobs'[j].status = "COMPLETED",
                      j \in DOMAIN jobs, jobs[j].status = "COMPLETED"
               PROVE  AtMost(Listed \ ResultsOf(j)', jobs'[j].counts.failed)
    BY DEF FinishedInv
  <1>1. j \notin signalled
    BY DEF FailuresGrow
  <1>2. PICK n, m \in Nat : n = jobs[j].counts.failed /\ m = jobs'[j].counts.failed
    <2>1. jobs[j] \in JobRow /\ jobs'[j] \in JobRow
      BY DEF TypeOK
    <2> QED  BY <2>1 DEF JobRow, Counters
  <1>3. AtMost(Listed \ ResultsOf(j), n) /\ n <= m
    BY <1>1, <1>2 DEF SkipInv, FinishedInv, FailuresGrow
  <1> QED  BY <1>2, <1>3, FewerLeft DEF FailuresGrow

LEMMA SameJobs ==
    ASSUME TypeOK, TypeOK', SkipInv, jobs' = jobs, results \subseteq results',
           signalled \subseteq signalled', file' \in {file, NoFile}
    PROVE  FileInv' /\ FinishedInv'
  <1>1. FailuresGrow
    BY NaturalCounts DEF FailuresGrow
  <1> QED  BY <1>1, FileKept, FinishedKept

\* A row is written with no fewer failures than it had.
LEMMA SameOrMore ==
    ASSUME TypeOK, TypeOK', SkipInv, NEW r \in Runs, run[r].job \in DOMAIN jobs,
           UNCHANGED <<results, signalled>>, file' \in {file, NoFile},
           NEW s \in {"RUNNING", "COMPLETED", "FAILED", "CANCELLED"}, NEW c \in Counters,
           SetCounts(r, s, c),
           run[r].job \in signalled \/ jobs[run[r].job].counts.failed <= c.failed,
           s = "COMPLETED" /\ run[r].job \notin signalled =>
               \/ jobs[run[r].job].status = "COMPLETED"
               \/ AtMost(Listed \ ResultsOf(run[r].job), c.failed)
    PROVE  FileInv' /\ FinishedInv'
  <1>1. /\ DOMAIN jobs' = DOMAIN jobs
        /\ jobs'[run[r].job] = [status |-> s, counts |-> c]
        /\ \A j \in DOMAIN jobs : j # run[r].job => jobs'[j] = jobs[j]
    BY RowSet
  <1>2. ASSUME NEW j \in DOMAIN jobs, j \notin signalled
        PROVE  jobs[j].counts.failed <= jobs'[j].counts.failed
    BY <1>1, <1>2, NaturalCounts
  <1>3. FailuresGrow
    BY <1>1, <1>2 DEF FailuresGrow
  <1>4. ASSUME NEW j \in DOMAIN jobs', j \notin signalled', jobs'[j].status = "COMPLETED"
        PROVE  \/ j \in DOMAIN jobs /\ jobs[j].status = "COMPLETED"
               \/ AtMost(Listed \ ResultsOf(j)', jobs'[j].counts.failed)
    <2>1. CASE j # run[r].job
      BY <1>1, <1>4, <2>1
    <2>2. CASE j = run[r].job
      <3>1. ResultsOf(j)' = ResultsOf(j)
        BY DEF ResultsOf
      <3> QED  BY <1>1, <1>4, <2>2, <3>1
    <2> QED  BY <2>1, <2>2
  <1> QED  BY <1>3, <1>4, FileKept, FinishedKept

LEMMA ClaimMoves ==
    ASSUME NEW r \in Runs, NEW x, run'[r] = x, OrderInv(x),
           x.stage \in {"find", "adopt", "seen"} => x.checkpoint \in {file', NoFile},
           x.stage = "find" => x.counts.failed = 0,
           x.job \notin signalled' =>
            /\ x.stage \in {"seen", "next", "page", "truncate", "write", "complete"} =>
                 x.counts.failed = jobs'[x.job].counts.failed
            /\ x.stage \in InPage \cup {"fail"} =>
                 jobs'[x.job].counts.failed <= x.counts.failed
            /\ x.stage \in InLoop => AtMost(Claimed(x) \ ResultsOf(x.job)', x.counts.failed)
    PROVE  ClaimInv(r)'
  <1>1. ResultsOf(run[r].job)' = ResultsOf(x.job)'
    BY DEF ResultsOf
  <1>2. run'[r].stage \in InLoop /\ run'[r].job \notin signalled' =>
            AtMost(Claimed(run'[r]) \ ResultsOf(run[r].job)', run'[r].counts.failed)
    BY <1>1
  <1> QED  BY <1>2 DEF ClaimInv, FailuresInv

LEMMA LeftKept ==
    ASSUME TypeOK, NEW r \in Runs, NEW x \in Run, run[r].stage \in InLoop,
           ClaimInv(r), run[r].job \notin signalled, x.job = run[r].job,
           results \subseteq results',
           Claimed(x) \subseteq Claimed(run[r]) \cup ResultsOf(x.job)',
           run[r].counts.failed <= x.counts.failed
    PROVE  AtMost(Claimed(x) \ ResultsOf(x.job)', x.counts.failed)
  <1>1. PICK n, m \in Nat : n = run[r].counts.failed /\ m = x.counts.failed
    BY NaturalCounts DEF Run, Counters
  <1>2. PICK A, j : A = Claimed(run[r]) /\ j = x.job
    OBVIOUS
  <1>3. AtMost(A \ ResultsOf(j), n)
    BY <1>1, <1>2 DEF ClaimInv
  <1>4. AtMost(A \ ResultsOf(j)', m)
    BY <1>1, <1>3, FewerLeft
  <1>5. Claimed(x) \ ResultsOf(x.job)' \subseteq A \ ResultsOf(j)'
    BY <1>2
  <1>6. AtMost(Claimed(x) \ ResultsOf(x.job)', m)
    BY <1>4, <1>5, AtMostSubset
  <1> QED  BY <1>1, <1>6

LEMMA LeftFailed ==
    ASSUME TypeOK, NEW r \in Runs, NEW x \in Run, run[r].stage \in InLoop,
           ClaimInv(r), run[r].job \notin signalled, x.job = run[r].job,
           results' = results, NEW u, Claimed(x) \subseteq Claimed(run[r]) \cup {u},
           x.counts.failed = run[r].counts.failed + 1
    PROVE  AtMost(Claimed(x) \ ResultsOf(x.job)', x.counts.failed)
  <1>1. PICK n \in Nat : n = run[r].counts.failed
    BY NaturalCounts
  <1>2. PICK A : A = Claimed(run[r]) \ ResultsOf(run[r].job)
    OBVIOUS
  <1>3. AtMost(A \cup {u}, n + 1)
    BY <1>1, <1>2, AtMostAdd DEF ClaimInv
  <1>4. PICK B : B = Claimed(x) \ ResultsOf(x.job)'
    OBVIOUS
  <1>5. ResultsOf(x.job)' = ResultsOf(run[r].job)
    BY DEF ResultsOf
  <1>6. B \subseteq A \cup {u}
    BY <1>2, <1>4, <1>5
  <1>7. AtMost(B, n + 1)
    BY <1>1, <1>3, <1>6, AtMostSubset
  <1> QED  BY <1>1, <1>4, <1>7

Between == {"next", "page", "truncate", "write", "complete"}

\* A step of the crawl that leaves the row of its job alone.
LEMMA LoopStep ==
    ASSUME TypeOK, NEW r \in Runs, NEW x \in Run, Moves(r, x), ClaimInv(r), OrderInv(x),
           run[r].stage \in InLoop, x.stage \in InLoop, x.job = run[r].job,
           jobs' = jobs, results \subseteq results', signalled' = signalled,
           x.counts.failed = run[r].counts.failed,
           x.stage \in Between => run[r].stage \in Between,
           Claimed(x) \subseteq Claimed(run[r]) \cup ResultsOf(x.job)'
    PROVE  ClaimInv(r)'
  <1>1. x.stage \notin {"find", "adopt", "seen", "fail"}
    BY DEF InLoop, OnPages, InPage, AtDocument
  <1>2. run'[r] = x
    BY DEF Moves
  <1>3. run[r].counts.failed \in Nat
    BY NaturalCounts
  <1>4. ASSUME x.job \notin signalled' PROVE
            /\ x.stage \in {"next", "page", "truncate", "write", "complete"} =>
                 x.counts.failed = jobs'[x.job].counts.failed
            /\ x.stage \in InPage => jobs'[x.job].counts.failed <= x.counts.failed
    <2>1. FailuresInv(r) /\ run[r].job \notin signalled
      BY <1>4 DEF ClaimInv
    <2>2. CASE run[r].stage \in Between
      BY <1>3, <2>1, <2>2 DEF FailuresInv, Between
    <2>3. CASE run[r].stage \in InPage
      BY <2>1, <2>3 DEF FailuresInv, Between
    <2> QED  BY <2>2, <2>3 DEF InLoop, OnPages, Between
  <1>5. x.job \notin signalled' => AtMost(Claimed(x) \ ResultsOf(x.job)', x.counts.failed)
    BY <1>3, LeftKept
  <1> QED  BY <1>1, <1>2, <1>4, <1>5, ClaimMoves

\* A document is counted as failed.
LEMMA FailedStep ==
    ASSUME TypeInv, NEW r \in Runs, ClaimInv(r), run[r].stage \in AtDocument,
           Advance(r, Failed(run[r])), UNCHANGED <<jobs, results, signalled>>
    PROVE  ClaimInv(r)'
  <1>0. TypeOK /\ PlaceInv(r) /\ run[r].todo \in Seq(Urls) /\ run[r].todo # <<>>
    BY DEF TypeInv, PlaceInv, TypeOK, Run
  <1>1. PICK x \in Run :
            /\ Moves(r, x) /\ Keeps(x, run[r]) /\ x.stage = "doc"
            /\ x.completed = run[r].completed
            /\ x.key = run[r].key /\ x.page = run[r].page
            /\ x.counts.failed = run[r].counts.failed + 1
            /\ x.todo = Tail(run[r].todo)
    BY <1>0, FailedMoves
  <1>2. Claimed(x) \subseteq Claimed(run[r]) \cup {Head(run[r].todo)}
    <2>1. ToSet(run[r].todo) = {Head(run[r].todo)} \cup ToSet(x.todo)
      BY <1>0, <1>1, HeadTaken
    <2>2. x.stage \in InPage /\ run[r].stage \in InPage
      BY <1>1 DEF InPage
    <2> QED  BY <1>1, <2>1, <2>2, ClaimedInPage DEF Keeps
  <1>3. OrderInv(x)
    BY <1>1 DEF ClaimInv, OrderInv, OnPages, InPage, AtDocument, Before
  <1>4. run[r].stage \in InLoop /\ run[r].stage \in InPage
    BY DEF InLoop, OnPages, InPage
  <1>5. ASSUME x.job \notin signalled' PROVE
            /\ jobs'[x.job].counts.failed <= x.counts.failed
            /\ AtMost(Claimed(x) \ ResultsOf(x.job)', x.counts.failed)
    <2>1. run[r].job \notin signalled /\ x.job = run[r].job /\ run[r].job \in DOMAIN jobs
      BY <1>0, <1>1, <1>5 DEF Keeps, PlaceInv, AtDocument
    <2>2. jobs[run[r].job].counts.failed <= run[r].counts.failed
      BY <1>4, <2>1 DEF ClaimInv, FailuresInv
    <2>3. jobs'[x.job].counts.failed <= x.counts.failed
      BY <1>0, <1>1, <2>1, <2>2, NaturalCounts
    <2> QED  BY <1>0, <1>1, <1>2, <1>4, <2>1, <2>3, LeftFailed
  <1>6. run'[r] = x
    BY <1>1 DEF Moves
  <1> QED  BY <1>1, <1>3, <1>5, <1>6, ClaimMoves

\* A run that is over claims nothing.
LEMMA OverStep ==
    ASSUME NEW r \in Runs, NEW x, run'[r] = x,
           x = NoRun \/ x.stage \in {"ended", "clear"}
    PROVE  ClaimInv(r)'
  <1>1. x.stage \in {"idle", "ended", "clear"} /\ (x.stage = "idle" => x = NoRun)
    BY DEF NoRun
  <1>2. x = NoRun => x.key = 0
    BY DEF NoRun
  <1>3. OrderInv(x)
    BY <1>1, <1>2 DEF OrderInv, OnPages, InPage, AtDocument, Before
  <1> QED  BY <1>1, <1>3, ClaimMoves DEF InPage, InLoop, OnPages, AtDocument

LEMMA SkipStarts == Init => SkipInv
  <1> SUFFICES ASSUME Init PROVE SkipInv
    OBVIOUS
  <1>1. ASSUME NEW r \in Runs PROVE ClaimInv(r)
    BY DEF Init, NoRun, NoCounts, ClaimInv, OrderInv, FailuresInv, InLoop, OnPages, InPage,
           AtDocument, Before
  <1> QED  BY <1>1 DEF Init, SkipInv, FileInv, FinishedInv, NoFile

LEMMA SkipStep ==
    ASSUME NEW r, Runs = {r}, TypeInv, TypeInv', BackedInv, SkipInv,
           [Next]_vars
    PROVE  SkipInv'
  <1>0. /\ r \in Runs /\ TypeOK /\ TypeOK' /\ PlaceInv(r) /\ ClaimInv(r)
        /\ OrderInv(run[r]) /\ run[r] \in Run
    BY DEF TypeInv, SkipInv, ClaimInv, TypeOK
  <1> SUFFICES FileInv' /\ FinishedInv' /\ ClaimInv(r)'
    BY DEF SkipInv
  <1>1. ASSUME NEW resume \in BOOLEAN, Begin(r, resume)
        PROVE  FileInv' /\ FinishedInv' /\ ClaimInv(r)'
    <2>0. UNCHANGED <<jobs, results, signalled, file>>
      BY <1>1 DEF Begin, tables
    <2>1. PICK x \in Run :
              /\ Moves(r, x) /\ x.stage = "find"
              /\ x.checkpoint \in {file, NoFile} /\ x.counts = NoCounts /\ x.key = 0
      BY <1>0, <1>1, BeginMoves
    <2>2. OrderInv(x)
      BY <2>1 DEF OrderInv, OnPages, InPage, AtDocument, Before
    <2>3. ClaimInv(r)'
      <3>1. run'[r] = x /\ x.counts.failed = 0 /\ x.checkpoint \in {file', NoFile}
        BY <2>0, <2>1 DEF Moves, NoCounts
      <3> QED
        BY <1>0, <2>1, <2>2, <3>1, ClaimMoves DEF InLoop, OnPages, InPage, AtDocument
    <2> QED  BY <1>0, <2>0, <2>3, SameJobs
  <1>2. ASSUME FindJob(r) PROVE FileInv' /\ FinishedInv' /\ ClaimInv(r)'
    <2>0. run[r].stage = "find" /\ UNCHANGED <<results, signalled, file>>
      BY <1>2 DEF FindJob, At
    <2>1. PICK x \in Run :
              /\ Moves(r, x)
              /\ x.checkpoint = run[r].checkpoint
              /\ x.counts = run[r].counts /\ x.key = run[r].key
              /\ \/ x.stage = "adopt" /\ jobs' = jobs
                 \/ /\ x.stage = "seen" /\ x.job = Len(jobs) + 1
                    /\ jobs' = Append(jobs, [status |-> "RUNNING", counts |-> NoCounts])
      BY <1>0, <1>2, FindJobMoves DEF PlaceInv
    <2>2. /\ x.key = 0 /\ x.checkpoint \in {file', NoFile} /\ x.counts.failed = 0
          /\ run'[r] = x
      BY <1>0, <2>0, <2>1 DEF ClaimInv, OrderInv, Before, Moves
    <2>3. OrderInv(x)
      BY <2>1, <2>2 DEF OrderInv, OnPages, InPage, AtDocument, Before
    <2>4. CASE x.stage = "adopt" /\ jobs' = jobs
      <3>1. ClaimInv(r)'
        BY <1>0, <2>2, <2>3, <2>4, ClaimMoves DEF InLoop, OnPages, InPage, AtDocument
      <3> QED  BY <1>0, <2>0, <2>4, <3>1, SameJobs
    <2>5. CASE /\ x.stage = "seen" /\ x.job = Len(jobs) + 1
               /\ jobs' = Append(jobs, [status |-> "RUNNING", counts |-> NoCounts])
      <3>1. PICK n : n = Len(jobs) + 1
        OBVIOUS
      <3>2. jobs \in Seq(JobRow) /\ DOMAIN jobs = 1..Len(jobs) /\ Len(jobs) \in Nat
        BY <1>0 DEF TypeOK
      <3>3. /\ DOMAIN jobs' = DOMAIN jobs \cup {n} /\ n \notin DOMAIN jobs
            /\ jobs'[n] = [status |-> "RUNNING", counts |-> NoCounts]
            /\ \A j \in DOMAIN jobs : jobs'[j] = jobs[j]
        BY <2>5, <3>1, <3>2
      <3>4. FailuresGrow
        BY <1>0, <2>0, <3>3, NaturalCounts DEF FailuresGrow
      <3>5. FileInv' /\ FinishedInv'
        BY <1>0, <2>0, <3>3, <3>4, FileKept, FinishedKept
      <3>6. x.counts.failed = jobs'[x.job].counts.failed
        BY <2>2, <2>5, <3>1, <3>3 DEF NoCounts
      <3>7. ClaimInv(r)'
        BY <1>0, <2>2, <2>3, <2>5, <3>6, ClaimMoves DEF InLoop, OnPages, InPage, AtDocument
      <3> QED  BY <3>5, <3>7
    <2> QED  BY <2>1, <2>4, <2>5
  <1>3. ASSUME Adopt(r) PROVE FileInv' /\ FinishedInv' /\ ClaimInv(r)'
    <2>0. /\ run[r].stage = "adopt" /\ run[r].job \in DOMAIN jobs
          /\ UNCHANGED <<results, signalled, file>>
          /\ jobs' = [jobs EXCEPT ![run[r].job].status = "RUNNING"]
      BY <1>0, <1>3 DEF Adopt, At, PlaceInv
    <2>1. PICK x \in Run :
              /\ Moves(r, x) /\ Keeps(x, run[r]) /\ x.stage = "seen"
              /\ x.counts = jobs[run[r].job].counts /\ x.key = run[r].key
      BY <1>0, <1>3, <2>0, AdoptMoves
    <2>2. /\ DOMAIN jobs' = DOMAIN jobs /\ jobs'[run[r].job].status = "RUNNING"
          /\ \A j \in DOMAIN jobs : j # run[r].job => jobs'[j] = jobs[j]
          /\ \A j \in DOMAIN jobs : jobs'[j].counts = jobs[j].counts
      <3>1. \A j \in DOMAIN jobs : jobs[j] \in JobRow
        BY <1>0 DEF TypeOK
      <3> QED  BY <2>0, <3>1 DEF JobRow
    <2>3. FailuresGrow
      BY <1>0, <2>0, <2>2, NaturalCounts DEF FailuresGrow
    <2>4. FileInv' /\ FinishedInv'
      <3>1. ASSUME NEW j \in DOMAIN jobs', jobs'[j].status = "COMPLETED"
            PROVE  j \in DOMAIN jobs /\ jobs[j].status = "COMPLETED"
        <4>1. j # run[r].job
          BY <2>2, <3>1
        <4> QED  BY <2>2, <3>1, <4>1
      <3> QED  BY <1>0, <2>0, <2>3, <3>1, FileKept, FinishedKept
    <2>5. /\ x.key = 0 /\ x.checkpoint \in {file', NoFile} /\ run'[r] = x
          /\ x.counts.failed = jobs'[x.job].counts.failed
      BY <1>0, <2>0, <2>1, <2>2 DEF ClaimInv, OrderInv, Before, Moves, Keeps
    <2>6. OrderInv(x)
      BY <2>1, <2>5 DEF OrderInv, OnPages, InPage, AtDocument, Before
    <2>7. ClaimInv(r)'
      BY <1>0, <2>1, <2>5, <2>6, ClaimMoves DEF InLoop, OnPages, InPage, AtDocument
    <2> QED  BY <2>4, <2>7
  <1>4. ASSUME LoadSeen(r) PROVE FileInv' /\ FinishedInv' /\ ClaimInv(r)'
    <2>0. /\ run[r].stage = "seen" /\ run[r].job \in DOMAIN jobs
          /\ UNCHANGED <<jobs, results, signalled, file>>
      BY <1>0, <1>4 DEF LoadSeen, At, tables, PlaceInv
    <2>1. PICK x \in Run :
              /\ Moves(r, x) /\ x.stage = "next"
              /\ x.job = run[r].job /\ x.counts = run[r].counts /\ x.key = run[r].key
              /\ x.checkpoint = IF run[r].checkpoint.job = run[r].job
                                THEN run[r].checkpoint ELSE NoFile
              /\ x.completed = x.checkpoint.completed
      BY <1>0, <1>4, LoadSeenMoves
    <2>2. x.key = 0 /\ run[r].checkpoint \in {file, NoFile} /\ run'[r] = x
      BY <1>0, <2>0, <2>1 DEF ClaimInv, OrderInv, Before, Moves
    <2>3. OrderInv(x)
      BY <2>1, <2>2 DEF OrderInv, OnPages, InPage, AtDocument, Before
    <2>4. Claimed(x) = Behind(x.checkpoint.completed, x.checkpoint.key, x.checkpoint.page)
      BY <2>1, ClaimedBetween
    <2>5. ASSUME x.job \notin signalled'
          PROVE  /\ x.counts.failed = jobs'[x.job].counts.failed
                 /\ AtMost(Claimed(x) \ ResultsOf(x.job)', x.counts.failed)
      <3>1. run[r].counts.failed = jobs[run[r].job].counts.failed
            /\ run[r].job \notin signalled
        BY <1>0, <2>0, <2>1, <2>5 DEF ClaimInv, FailuresInv
      <3>2. ResultsOf(x.job)' = ResultsOf(run[r].job)
        BY <2>0, <2>1 DEF ResultsOf
      <3>3. CASE x.checkpoint = NoFile
        <4>1. Claimed(x) = {}
          <5>1. 0 \notin Keys
            BY DiscoveryAssumption DEF Keys
          <5> QED  BY <2>4, <3>3, <5>1 DEF Behind, NoFile
        <4>2. Claimed(x) \ ResultsOf(x.job)' = {} /\ x.counts.failed \in Nat
          BY <1>0, <2>1, <4>1, NaturalCounts
        <4> QED  BY <2>0, <2>1, <3>1, <4>2, NothingIsAtMost
      <3>4. CASE x.checkpoint # NoFile
        <4>1. x.checkpoint = file /\ file.job = run[r].job
          BY <2>1, <2>2, <3>4
        <4>2. file.job # 0
          <5>1. DOMAIN jobs = 1..Len(jobs) /\ Len(jobs) \in Nat
            BY <1>0 DEF TypeOK
          <5> QED  BY <2>0, <4>1, <5>1
        <4>3. AtMost(Claimed(x) \ ResultsOf(run[r].job), jobs[run[r].job].counts.failed)
          BY <2>4, <3>1, <4>1, <4>2 DEF SkipInv, FileInv
        <4> QED  BY <2>0, <2>1, <3>1, <3>2, <4>3
      <3> QED  BY <3>3, <3>4
    <2>6. ClaimInv(r)'
      BY <1>0, <2>1, <2>2, <2>3, <2>5, ClaimMoves DEF InPage, AtDocument
    <2> QED  BY <1>0, <2>0, <2>6, SameJobs
  <1>5. ASSUME NextKey(r) PROVE FileInv' /\ FinishedInv' /\ ClaimInv(r)'
    <2>0. /\ run[r].stage = "next" /\ UNCHANGED <<jobs, results, signalled, file>>
          /\ run[r].key \in Nat /\ run[r].completed \in SUBSET Keys
          /\ 1..run[r].key \subseteq run[r].completed
      BY <1>0, <1>5 DEF NextKey, At, tables, Run, OrderInv
    <2>1. PICK x \in Run :
              /\ Moves(r, x) /\ Keeps(x, run[r])
              /\ x.completed = run[r].completed /\ x.counts = run[r].counts
              /\ \/ x.stage = "complete" /\ x.key = run[r].key /\ run[r].key + 1 \notin Keys
                 \/ /\ x.stage = "next" /\ x.key = run[r].key + 1
                    /\ x.key \in run[r].completed
                 \/ /\ x.stage = "page" /\ x.key = run[r].key + 1 /\ x.page > 0
                    /\ x.key \in Keys \ run[r].completed
                    /\ \/ x.page = 1
                       \/ x.key = run[r].checkpoint.key /\ x.page = run[r].checkpoint.page
      BY <1>0, <1>5, NextKeyMoves
    <2>2. Keys = 1..Len(Site) /\ Len(Site) \in Nat
      BY DiscoveryAssumption DEF Keys
    <2>3. Claimed(run[r])
            = Behind(run[r].completed, run[r].checkpoint.key, run[r].checkpoint.page)
      BY <2>0, ClaimedBetween
    <2>4. OrderInv(x) /\ Claimed(x) = Claimed(run[r])
      <3>1. CASE x.stage = "complete" /\ x.key = run[r].key /\ run[r].key + 1 \notin Keys
        <4>1. Keys \subseteq x.completed
          <5>1. \A k \in Keys : k <= run[r].key
            <6>1. run[r].key <= Len(Site)
              <7>1. CASE run[r].key = 0
                BY <2>2, <7>1
              <7>2. CASE run[r].key # 0
                <8>1. run[r].key \in 1..run[r].key
                  BY <2>0, <7>2
                <8> QED  BY <2>0, <2>2, <8>1
              <7> QED  BY <7>1, <7>2
            <6> QED  BY <2>0, <2>2, <3>1, <6>1
          <5> QED  BY <2>0, <2>1, <2>2, <5>1
        <4>2. 1..x.key \subseteq x.completed
          BY <2>0, <2>1, <3>1
        <4>3. Claimed(x) = Behind(x.completed, x.checkpoint.key, x.checkpoint.page)
          BY <3>1, ClaimedBetween
        <4> QED
          BY <2>1, <2>3, <3>1, <4>1, <4>2, <4>3
          DEF OrderInv, OnPages, InPage, AtDocument, Before, Keeps
      <3>2. CASE x.stage = "next" /\ x.key = run[r].key + 1 /\ x.key \in run[r].completed
        <4>1. 1..x.key \subseteq x.completed
          BY <2>0, <2>1, <3>2
        <4>2. Claimed(x) = Behind(x.completed, x.checkpoint.key, x.checkpoint.page)
          BY <3>2, ClaimedBetween
        <4> QED
          BY <2>1, <2>3, <3>2, <4>1, <4>2
          DEF OrderInv, OnPages, InPage, AtDocument, Before, Keeps
      <3>3. CASE /\ x.stage = "page" /\ x.key = run[r].key + 1 /\ x.page > 0
                 /\ x.key \in Keys \ run[r].completed
                 /\ \/ x.page = 1
                    \/ x.key = run[r].checkpoint.key /\ x.page = run[r].checkpoint.page
        <4>1. \A k \in Keys : k < x.key => k \in x.completed
          BY <2>0, <2>1, <2>2, <3>3
        <4>2. UpTo(x.key, x.page)
                \subseteq Behind(x.completed, x.checkpoint.key, x.checkpoint.page)
          <5>1. CASE x.page = 1
            BY <3>3, <5>1, UpToFirst
          <5>2. CASE x.key = run[r].checkpoint.key /\ x.page = run[r].checkpoint.page
            BY <2>1, <3>3, <5>2 DEF Behind, Keeps
          <5> QED  BY <3>3, <5>1, <5>2
        <4>3. Claimed(x) = Behind(x.completed, x.checkpoint.key, x.checkpoint.page)
          BY <3>3, <4>2, ClaimedOnPage
        <4>4. x.page # 0
          BY <3>3
        <4> QED
          BY <2>1, <2>3, <3>3, <4>1, <4>3, <4>4
          DEF OrderInv, OnPages, InPage, AtDocument, Before, Keeps
      <3> QED  BY <2>1, <3>1, <3>2, <3>3
    <2>5. ClaimInv(r)'
      BY <1>0, <2>0, <2>1, <2>4, LoopStep DEF Keeps, InLoop, OnPages, Between
    <2> QED  BY <1>0, <2>0, <2>5, SameJobs
  <1>6. ASSUME FetchPage(r) PROVE FileInv' /\ FinishedInv' /\ ClaimInv(r)'
    <2>0. /\ run[r].stage = "page" /\ UNCHANGED <<jobs, results, signalled, file>>
          /\ run[r].key \in Keys
      BY <1>0, <1>6 DEF FetchPage, At, tables, PlaceInv, Paged
    <2>1. PICK x \in Run :
              /\ Moves(r, x) /\ Keeps(x, run[r]) /\ x.stage = "truncate"
              /\ x.completed = run[r].completed
              /\ x.counts = run[r].counts /\ x.key = run[r].key /\ x.page = run[r].page
              /\ x.todo = Page(run[r].key, run[r].page)
      BY <1>0, <1>6, <2>0, FetchPageMoves
    <2>2. OrderInv(x)
      BY <1>0, <2>0, <2>1 DEF OrderInv, OnPages, Before
    <2>3. Claimed(x) = Claimed(run[r])
      BY <2>0, <2>1, ClaimedOnPage DEF Keeps
    <2>4. ClaimInv(r)'
      BY <1>0, <2>0, <2>1, <2>2, <2>3, LoopStep DEF Keeps, InLoop, OnPages, Between
    <2> QED  BY <1>0, <2>0, <2>4, SameJobs
  <1>7. ASSUME TruncateCheckpoint(r) PROVE FileInv' /\ FinishedInv' /\ ClaimInv(r)'
    <2>0. run[r].stage = "truncate" /\ UNCHANGED <<jobs, results, signalled>> /\ file' = NoFile
      BY <1>7 DEF TruncateCheckpoint, At, tables
    <2>1. PICK x \in Run : Moves(r, x) /\ x.stage = "write" /\ SameWork(x, run[r])
      BY <1>0, <1>7, GoesTo DEF TruncateCheckpoint, Stages
    <2>2. OrderInv(x)
      BY <1>0, <2>0, <2>1 DEF OrderInv, OnPages, Before, SameWork
    <2>3. Claimed(x) = Claimed(run[r])
      BY <2>0, <2>1, ClaimedOnPage DEF SameWork, Keeps
    <2>4. ClaimInv(r)'
      BY <1>0, <2>0, <2>1, <2>2, <2>3, LoopStep
      DEF SameWork, Keeps, InLoop, OnPages, Between
    <2> QED  BY <1>0, <2>0, <2>4, SameJobs
  <1>8. ASSUME WriteCheckpoint(r) PROVE FileInv' /\ FinishedInv' /\ ClaimInv(r)'
    <2>0. /\ run[r].stage = "write" /\ UNCHANGED <<jobs, results, signalled>>
          /\ run[r].job \in DOMAIN jobs
      BY <1>0, <1>8 DEF WriteCheckpoint, At, tables, PlaceInv
    <2>1. PICK x \in Run :
              /\ Moves(r, x) /\ x.stage = (IF run[r].page = 0 THEN "next" ELSE "doc")
              /\ SameWork(x, run[r])
      BY <1>0, <1>8, GoesTo DEF WriteCheckpoint, CategoryDone, Stages
    <2>2. OrderInv(x)
      BY <1>0, <2>0, <2>1 DEF OrderInv, OnPages, InPage, AtDocument, Before, SameWork
    <2>3. Claimed(run[r]) = Behind(run[r].completed, run[r].checkpoint.key,
                                   run[r].checkpoint.page)
                                \cup UpTo(run[r].key, run[r].page)
      BY <2>0, ClaimedOnPage
    <2>4. Claimed(x) \subseteq Claimed(run[r])
      <3>1. CASE run[r].page = 0
        <4>1. x.stage = "next"
          BY <2>1, <3>1
        <4> QED  BY <2>1, <2>3, <4>1, ClaimedBetween DEF SameWork, Keeps
      <3>2. CASE run[r].page # 0
        <4>1. run[r].todo = Page(run[r].key, run[r].page) /\ x.stage \in InPage
          BY <1>0, <2>0, <2>1, <3>2 DEF OrderInv, InPage
        <4> QED  BY <2>1, <2>3, <4>1, ClaimedInPage DEF SameWork, Keeps
      <3> QED  BY <3>1, <3>2
    <2>5. ClaimInv(r)'
      BY <1>0, <2>0, <2>1, <2>2, <2>4, LoopStep
      DEF SameWork, Keeps, InLoop, OnPages, InPage, Between
    <2>6. FileInv'
      <3>1. /\ file'.job = run[r].job /\ file'.completed = run[r].completed
            /\ file'.key = IF run[r].page = 0 THEN 0 ELSE run[r].key
            /\ file'.page = run[r].page
        BY <1>8 DEF WriteCheckpoint, CategoryDone
      <3> SUFFICES ASSUME run[r].job \notin signalled
                   PROVE  AtMost(Behind(file'.completed, file'.key, file'.page)
                                    \ ResultsOf(run[r].job), jobs[run[r].job].counts.failed)
        <4>1. ResultsOf(file.job)' = ResultsOf(run[r].job)
          BY <2>0, <3>1 DEF ResultsOf
        <4> QED  BY <2>0, <3>1, <4>1 DEF FileInv
      <3>2. 0 \notin Keys
        BY DiscoveryAssumption DEF Keys
      <3>3. Behind(file'.completed, file'.key, file'.page) \subseteq Claimed(run[r])
        BY <2>3, <3>1, <3>2 DEF Behind
      <3>4. PICK n \in Nat : n = run[r].counts.failed
        BY <1>0, NaturalCounts
      <3>5. n = jobs[run[r].job].counts.failed
            /\ AtMost(Claimed(run[r]) \ ResultsOf(run[r].job), n)
        BY <1>0, <2>0, <3>4 DEF ClaimInv, FailuresInv, InLoop, OnPages
      <3>6. PICK A, B : /\ A = Claimed(run[r]) \ ResultsOf(run[r].job)
                        /\ B = Behind(file'.completed, file'.key, file'.page)
                                  \ ResultsOf(run[r].job)
        OBVIOUS
      <3>7. AtMost(B, n)
        BY <3>3, <3>5, <3>6, AtMostSubset
      <3> QED  BY <3>5, <3>6, <3>7
    <2>7. FinishedInv'
      <3>1. FailuresGrow
        BY <1>0, <2>0, NaturalCounts DEF FailuresGrow
      <3> QED  BY <1>0, <2>0, <3>1, FinishedKept
    <2> QED  BY <2>5, <2>6, <2>7
  <1>9. ASSUME NEW x \in Run, Moves(r, x), Keeps(x, run[r]),
               run[r].stage \in InPage, x.stage \in InPage,
               x.completed = run[r].completed, x.counts.failed = run[r].counts.failed,
               x.key = run[r].key, x.page = run[r].page,
               x.stage = "count" => x.todo = <<>>,
               jobs' = jobs, results \subseteq results', signalled' = signalled,
               x.todo # run[r].todo =>
                    /\ run[r].todo \in Seq(Urls) /\ run[r].todo # <<>>
                    /\ x.todo = Tail(run[r].todo)
                    /\ Head(run[r].todo) \in ResultsOf(run[r].job)'
        PROVE  ClaimInv(r)'
    <2>1. OrderInv(x)
      BY <1>0, <1>9 DEF OrderInv, OnPages, InPage, AtDocument, Before
    <2>2. run'[r] = x /\ x.job = run[r].job
      BY <1>9 DEF Moves, Keeps
    <2>3. Claimed(x) \subseteq Claimed(run[r]) \cup ResultsOf(x.job)'
      <3>1. CASE x.todo = run[r].todo
        BY <1>9, <3>1, ClaimedInPage DEF Keeps
      <3>2. CASE x.todo # run[r].todo
        <4>1. ToSet(run[r].todo) = {Head(run[r].todo)} \cup ToSet(x.todo)
          BY <1>9, <3>2, HeadTaken
        <4>2. Head(run[r].todo) \in ResultsOf(x.job)'
          BY <1>9, <2>2, <3>2 DEF ResultsOf
        <4> QED  BY <1>9, <4>1, <4>2, ClaimedInPage DEF Keeps
      <3> QED  BY <3>1, <3>2
    <2> QED
      BY <1>0, <1>9, <2>1, <2>2, <2>3, LoopStep
      DEF InLoop, OnPages, InPage, AtDocument, Between
  <1>10. ASSUME NextDocument(r) PROVE FileInv' /\ FinishedInv' /\ ClaimInv(r)'
    <2>0. /\ run[r].stage = "doc" /\ UNCHANGED <<jobs, results, signalled, file>>
          /\ run[r].todo \in Seq(Urls)
      BY <1>0, <1>10 DEF NextDocument, At, tables, Run
    <2>1. PICK x \in Run :
              /\ Moves(r, x) /\ Keeps(x, run[r])
              /\ x.completed = run[r].completed
              /\ x.key = run[r].key /\ x.page = run[r].page
              /\ x.counts.failed = run[r].counts.failed
              /\ \/ x.stage = "count" /\ run[r].todo = <<>> /\ x.todo = <<>>
                 \/ /\ x.stage = "doc" /\ run[r].todo # <<>> /\ x.todo = Tail(run[r].todo)
                    /\ Head(run[r].todo) \in run[r].seen
                 \/ /\ x.stage = "findDoc" /\ run[r].todo # <<>> /\ x.todo = run[r].todo
      BY <1>0, <1>10, NextDocumentMoves
    <2>2. ResultsOf(run[r].job)' = ResultsOf(run[r].job)
      BY <2>0, <2>1 DEF Moves, Keeps, ResultsOf
    <2>3. run[r].seen \subseteq ResultsOf(run[r].job)
      BY <1>0, <2>0 DEF BackedInv, CountsInv, Before
    <2>4. ClaimInv(r)'
      BY <1>9, <2>0, <2>1, <2>2, <2>3 DEF InPage, AtDocument
    <2> QED  BY <1>0, <2>0, <2>4, SameJobs
  <1>11. ASSUME FindDocument(r) PROVE FileInv' /\ FinishedInv' /\ ClaimInv(r)'
    <2>0. run[r].stage = "findDoc" /\ UNCHANGED <<jobs, results, signalled, file>>
      BY <1>11 DEF FindDocument, At, tables
    <2>1. PICK x \in Run :
              /\ Moves(r, x) /\ Keeps(x, run[r])
              /\ x.completed = run[r].completed
              /\ x.key = run[r].key /\ x.page = run[r].page
              /\ x.counts = run[r].counts /\ x.todo = run[r].todo
              /\ x.stage \in {"save", "result"}
      BY <1>0, <1>11, FindDocumentMoves
    <2>2. ClaimInv(r)'
      BY <1>9, <2>0, <2>1 DEF InPage, AtDocument
    <2> QED  BY <1>0, <2>0, <2>2, SameJobs
  <1>12. ASSUME NEW s \in {"log", "result"}, Goto(r, s), run[r].stage \in AtDocument,
                UNCHANGED <<jobs, results, signalled, file>>
         PROVE  FileInv' /\ FinishedInv' /\ ClaimInv(r)'
    <2>1. PICK x \in Run : Moves(r, x) /\ x.stage = s /\ SameWork(x, run[r])
      BY <1>0, <1>12, GoesTo DEF Stages
    <2>2. ClaimInv(r)'
      BY <1>9, <1>12, <2>1 DEF SameWork, InPage, AtDocument
    <2> QED  BY <1>0, <1>12, <2>2, SameJobs
  <1>13. ASSUME run[r].stage \in AtDocument, Advance(r, Failed(run[r])),
                UNCHANGED <<jobs, results, signalled, file>>
         PROVE  FileInv' /\ FinishedInv' /\ ClaimInv(r)'
    BY <1>0, <1>13, FailedStep, SameJobs
  <1>14. ASSUME SaveDocument(r) PROVE FileInv' /\ FinishedInv' /\ ClaimInv(r)'
    <2>0. run[r].stage = "save" /\ UNCHANGED <<jobs, results, signalled, file>>
      BY <1>14 DEF SaveDocument, At
    <2>1. Advance(r, Failed(run[r])) \/ Goto(r, "log")
      BY <1>14 DEF SaveDocument
    <2> QED  BY <1>12, <1>13, <2>0, <2>1 DEF AtDocument
  <1>15. ASSUME WriteImportLog(r) PROVE FileInv' /\ FinishedInv' /\ ClaimInv(r)'
    BY <1>12, <1>15 DEF WriteImportLog, At, tables, AtDocument
  <1>16. ASSUME SaveResult(r) PROVE FileInv' /\ FinishedInv' /\ ClaimInv(r)'
    <2>0. /\ run[r].stage = "result" /\ UNCHANGED <<jobs, signalled, file>>
          /\ results' = results \cup {<<run[r].job, Head(run[r].todo)>>}
          /\ run[r].todo \in Seq(Urls) /\ run[r].todo # <<>>
      BY <1>0, <1>16 DEF SaveResult, At, PlaceInv, AtDocument, Run
    <2>1. PICK x \in Run :
              /\ Moves(r, x) /\ Keeps(x, run[r]) /\ x.stage = "doc"
              /\ x.completed = run[r].completed
              /\ x.key = run[r].key /\ x.page = run[r].page
              /\ x.counts.failed = run[r].counts.failed
              /\ x.todo = Tail(run[r].todo)
      BY <1>0, <1>16, <2>0, SaveResultMoves
    <2>2. Head(run[r].todo) \in ResultsOf(run[r].job)'
      BY <2>0, <2>1 DEF ResultsOf, Moves, Keeps
    <2>3. ClaimInv(r)'
      BY <1>9, <2>0, <2>1, <2>2 DEF InPage, AtDocument
    <2> QED  BY <1>0, <2>0, <2>3, SameJobs
  <1>17. ASSUME CountPage(r) PROVE FileInv' /\ FinishedInv' /\ ClaimInv(r)'
    <2>0. /\ run[r].stage = "count" /\ UNCHANGED <<results, signalled, file>>
          /\ SetCounts(r, jobs[run[r].job].status, run[r].counts)
          /\ run[r].todo = <<>> /\ run[r].counts \in Counters
          /\ run[r].job \in DOMAIN jobs /\ run[r].key \in Keys
          /\ run[r].page \in Nat \ {0}
          /\ \A k \in Keys : k < run[r].key => k \in run[r].completed
      <3>1. run[r].stage = "count" /\ run[r].stage \in OnPages /\ Paged(r)
        BY <1>17 DEF CountPage, At, Paged, OnPages, InPage
      <3>2. run[r].key \in Keys /\ run[r].page \in Nat \ {0}
        BY <1>0, <3>1 DEF PlaceInv, Run
      <3> QED  BY <1>0, <1>17, <3>1, <3>2 DEF CountPage, PlaceInv, OrderInv, Run
    <2>1. jobs[run[r].job].status \in {"RUNNING", "COMPLETED", "FAILED", "CANCELLED"}
      <3>1. jobs[run[r].job] \in JobRow
        BY <1>0, <2>0 DEF TypeOK
      <3> QED  BY <3>1 DEF JobRow
    <2>2. /\ jobs'[run[r].job].counts = run[r].counts
          /\ run[r].job \notin signalled =>
                jobs[run[r].job].counts.failed <= run[r].counts.failed
      <3>1. jobs'[run[r].job]
              = [status |-> jobs[run[r].job].status, counts |-> run[r].counts]
        BY <1>0, <2>0, <2>1, RowSet
      <3> QED  BY <1>0, <2>0, <3>1 DEF ClaimInv, FailuresInv, InPage
    <2>3. FileInv' /\ FinishedInv'
      BY <1>0, <2>0, <2>1, <2>2, SameOrMore
    <2>4. PICK x \in Run :
              /\ Moves(r, x) /\ Keeps(x, run[r])
              /\ x.counts = run[r].counts
              /\ x.key = run[r].key /\ x.todo = run[r].todo
              /\ \/ /\ x.stage = "page" /\ Page(run[r].key, run[r].page) # <<>>
                    /\ x.page = run[r].page + 1 /\ x.completed = run[r].completed
                 \/ /\ x.stage = "truncate" /\ Page(run[r].key, run[r].page) = <<>>
                    /\ x.page = 0 /\ x.completed = run[r].completed \cup {run[r].key}
      BY <1>0, <1>17, <2>0, CountPageMoves
    <2>5. Claimed(run[r])
            = Behind(run[r].completed, run[r].checkpoint.key, run[r].checkpoint.page)
                \cup UpTo(run[r].key, run[r].page) \cup ToSet(Page(run[r].key, run[r].page))
      <3>1. ToSet(run[r].todo) = {}
        BY <2>0 DEF ToSet
      <3>2. run[r].stage \in InPage
        BY <2>0 DEF InPage
      <3> QED  BY <3>1, <3>2, ClaimedInPage
    <2>6. OrderInv(x) /\ Claimed(x) \subseteq Claimed(run[r])
      <3>1. CASE /\ x.stage = "page" /\ x.page = run[r].page + 1
                 /\ x.completed = run[r].completed
        <4>1. UpTo(x.key, x.page)
                \subseteq UpTo(run[r].key, run[r].page) \cup ToSet(Page(run[r].key, run[r].page))
          BY <2>0, <2>4, <3>1, UpToNext
        <4>2. Claimed(x) = Behind(x.completed, x.checkpoint.key, x.checkpoint.page)
                              \cup UpTo(x.key, x.page)
          BY <3>1, ClaimedOnPage
        <4>3. x.page # 0
          BY <2>0, <3>1
        <4>4. OrderInv(x)
          BY <2>0, <2>4, <3>1, <4>3 DEF OrderInv, OnPages, Before
        <4> QED  BY <2>4, <2>5, <3>1, <4>1, <4>2, <4>4 DEF Keeps
      <3>2. CASE /\ x.stage = "truncate" /\ Page(run[r].key, run[r].page) = <<>>
                 /\ x.page = 0 /\ x.completed = run[r].completed \cup {run[r].key}
        <4>1. Claimed(x) = Behind(x.completed, x.checkpoint.key, x.checkpoint.page)
          <5>1. x.key \in Keys /\ x.page \in {0, 1}
            BY <2>0, <2>4, <3>2
          <5>2. UpTo(x.key, x.page) = {}
            BY <5>1, UpToFirst
          <5>3. x.stage \in {"page", "truncate", "write"}
            BY <3>2
          <5> QED  BY <5>2, <5>3, ClaimedOnPage
        <4>2. Category(run[r].key) \subseteq UpTo(run[r].key, run[r].page)
          BY <2>0, <3>2, CategoryRead
        <4>3. Claimed(x) \subseteq Claimed(run[r])
          BY <2>4, <2>5, <3>2, <4>1, <4>2, BehindMore DEF Keeps
        <4>4. 1..x.key \subseteq x.completed
          <5>1. Keys = 1..Len(Site) /\ Len(Site) \in Nat
            BY DiscoveryAssumption DEF Keys
          <5> QED  BY <2>0, <2>4, <3>2, <5>1
        <4>5. OrderInv(x)
          BY <3>2, <4>4 DEF OrderInv, OnPages, Before
        <4> QED  BY <4>3, <4>5
      <3> QED  BY <2>4, <3>1, <3>2
    <2>7. ASSUME x.job \notin signalled'
          PROVE  /\ x.counts.failed = jobs'[x.job].counts.failed
                 /\ AtMost(Claimed(x) \ ResultsOf(x.job)', x.counts.failed)
      <3>1. x.job = run[r].job /\ run[r].job \notin signalled /\ run[r].stage \in InLoop
            /\ run[r].counts.failed \in Nat
        BY <1>0, <2>0, <2>4, <2>7, NaturalCounts DEF Keeps, InLoop, OnPages, InPage
      <3>2. x.counts.failed = jobs'[x.job].counts.failed
        BY <2>2, <2>4, <3>1
      <3>3. results \subseteq results' /\ run[r].counts.failed <= x.counts.failed
            /\ Claimed(x) \subseteq Claimed(run[r]) \cup ResultsOf(x.job)'
        BY <2>0, <2>4, <2>6, <3>1
      <3>4. AtMost(Claimed(x) \ ResultsOf(x.job)', x.counts.failed)
        BY <1>0, <3>1, <3>3, LeftKept
      <3> QED  BY <3>2, <3>4
    <2>8. ClaimInv(r)'
      <3>1. run'[r] = x
        BY <2>4 DEF Moves
      <3> QED  BY <1>0, <2>4, <2>6, <2>7, <3>1, ClaimMoves DEF InPage, AtDocument
    <2> QED  BY <2>3, <2>8
  <1>18. ASSUME Complete(r) PROVE FileInv' /\ FinishedInv' /\ ClaimInv(r)'
    <2>0. /\ run[r].stage = "complete" /\ UNCHANGED <<results, signalled, file>>
          /\ SetCounts(r, "COMPLETED", run[r].counts)
          /\ run[r].counts \in Counters /\ run[r].job \in DOMAIN jobs
          /\ Keys \subseteq run[r].completed
      BY <1>0, <1>18 DEF Complete, At, PlaceInv, OrderInv, Run
    <2>1. PICK x \in Run : Moves(r, x) /\ x.stage = "clear"
      BY <1>0, <1>18, GoesTo DEF Complete, Stages
    <2>2. ClaimInv(r)'
      BY <1>0, <2>1, OverStep DEF Moves
    <2>3. Listed \subseteq Claimed(run[r])
      <3>1. Claimed(run[r])
              = Behind(run[r].completed, run[r].checkpoint.key, run[r].checkpoint.page)
        BY <2>0, ClaimedBetween
      <3> QED  BY <2>0, <3>1 DEF Listed, Behind
    <2>4. ASSUME run[r].job \notin signalled
          PROVE  /\ jobs[run[r].job].counts.failed <= run[r].counts.failed
                 /\ AtMost(Listed \ ResultsOf(run[r].job), run[r].counts.failed)
      <3>1. run[r].counts.failed \in Nat
            /\ run[r].counts.failed = jobs[run[r].job].counts.failed
        BY <1>0, <2>0, <2>4, NaturalCounts DEF ClaimInv, FailuresInv
      <3>2. AtMost(Claimed(run[r]) \ ResultsOf(run[r].job), run[r].counts.failed)
        BY <1>0, <2>0, <2>4 DEF ClaimInv, InLoop
      <3>3. PICK A, B : /\ A = Claimed(run[r]) \ ResultsOf(run[r].job)
                        /\ B = Listed \ ResultsOf(run[r].job)
        OBVIOUS
      <3>4. AtMost(B, run[r].counts.failed)
        BY <2>3, <3>1, <3>2, <3>3, AtMostSubset
      <3> QED  BY <3>1, <3>3, <3>4
    <2>5. FileInv' /\ FinishedInv'
      BY <1>0, <2>0, <2>4, SameOrMore
    <2> QED  BY <2>2, <2>5
  <1>19. ASSUME End(r) PROVE ClaimInv(r)'
    <2>1. PICK x \in Run : Moves(r, x) /\ (x = NoRun \/ x.stage = "ended")
      BY <1>0, <1>19, EndMoves
    <2> QED  BY <1>0, <2>1, OverStep DEF Moves
  <1>20. ASSUME ClearCheckpoint(r) PROVE FileInv' /\ FinishedInv' /\ ClaimInv(r)'
    BY <1>0, <1>19, <1>20, SameJobs DEF ClearCheckpoint, tables
  <1>21. ASSUME Fail(r) PROVE FileInv' /\ FinishedInv' /\ ClaimInv(r)'
    <2>0. /\ run[r].stage = "fail" /\ UNCHANGED <<results, signalled, file>>
          /\ SetCounts(r, "FAILED", run[r].counts) /\ End(r)
          /\ run[r].counts \in Counters /\ run[r].job \in DOMAIN jobs
      BY <1>0, <1>21 DEF Fail, At, PlaceInv, Run
    <2>1. run[r].job \notin signalled =>
            jobs[run[r].job].counts.failed <= run[r].counts.failed
      BY <1>0, <2>0 DEF ClaimInv, FailuresInv
    <2> QED  BY <1>0, <1>19, <2>0, <2>1, SameOrMore
  \* The handler of a signal: the counters are no longer spoken of.
  <1>22. ASSUME NEW x \in Run, Moves(r, x), x.stage = run[r].stage,
                x.completed = run[r].completed, x.checkpoint = run[r].checkpoint,
                x.key = run[r].key, x.page = run[r].page, x.todo = run[r].todo,
                run[r].stage \notin Before, x.job \in signalled'
         PROVE  ClaimInv(r)'
    <2>1. OrderInv(x)
      BY <1>0, <1>22 DEF OrderInv
    <2>2. run'[r] = x /\ x.stage \notin {"find", "adopt", "seen"}
      BY <1>22 DEF Moves, Before
    <2> QED  BY <1>0, <1>22, <2>1, <2>2, ClaimMoves
  <1>23. ASSUME run[r].signal = "sent", Set(r, [run[r] EXCEPT !.signal = "landed"]),
                signalled' = signalled
         PROVE  run[r].job \in signalled /\ run[r].job \in DOMAIN jobs /\ ClaimInv(r)'
    <2>1. /\ run[r].stage \notin Before /\ run[r].job \in signalled
          /\ run[r].job \in DOMAIN jobs
      BY <1>0, <1>23 DEF PlaceInv, Before
    <2>2. PICK x \in Run :
              /\ Moves(r, x) /\ x.stage = run[r].stage
              /\ x.job = run[r].job /\ x.checkpoint = run[r].checkpoint
              /\ x.completed = run[r].completed
              /\ x.key = run[r].key /\ x.page = run[r].page /\ x.todo = run[r].todo
      BY <1>0, <1>23, LandedMoves
    <2> QED  BY <1>22, <1>23, <2>1, <2>2
  <1>24. ASSUME Cancel(r) PROVE FileInv' /\ FinishedInv' /\ ClaimInv(r)'
    <2>0. /\ UNCHANGED <<results, signalled, file>> /\ SetCounts(r, "CANCELLED", run[r].taken)
          /\ run[r].taken \in Counters
      BY <1>0, <1>24 DEF Cancel, Run
    <2>1. run[r].job \in signalled /\ run[r].job \in DOMAIN jobs /\ ClaimInv(r)'
      BY <1>23, <1>24 DEF Cancel
    <2> QED  BY <1>0, <2>0, <2>1, SameOrMore
  <1>25. ASSUME Set(r, NoRun), UNCHANGED <<jobs, results, signalled, file>>
         PROVE  FileInv' /\ FinishedInv' /\ ClaimInv(r)'
    <2>1. Moves(r, NoRun)
      BY <1>0, <1>25, NoRunIsRun, RunMoves DEF Set
    <2>2. ClaimInv(r)'
      BY <1>0, <2>1, OverStep DEF Moves
    <2> QED  BY <1>0, <1>25, <2>2, SameJobs
  <1>26. ASSUME Exit(r) \/ Stop(r) PROVE FileInv' /\ FinishedInv' /\ ClaimInv(r)'
    BY <1>25, <1>26 DEF Exit, Stop, tables
  <1>27. ASSUME Throw(r) PROVE FileInv' /\ FinishedInv' /\ ClaimInv(r)'
    <2>0. UNCHANGED <<jobs, results, signalled, file>>
      BY <1>27 DEF Throw, tables
    <2>1. FileInv' /\ FinishedInv'
      BY <1>0, <2>0, SameJobs
    <2>2. CASE run[r].stage \in AtDocument /\ Advance(r, Failed(run[r]))
      BY <1>13, <2>0, <2>2
    <2>3. CASE /\ run[r].stage \in {"page", "truncate", "write", "count", "complete"}
               /\ Goto(r, "fail")
      <3>1. PICK x \in Run : Moves(r, x) /\ x.stage = "fail" /\ SameWork(x, run[r])
        BY <1>0, <2>3, GoesTo DEF Stages
      <3>2. OrderInv(x)
        BY <3>1 DEF OrderInv, OnPages, InPage, AtDocument, Before
      <3>3. ASSUME x.job \notin signalled'
            PROVE  jobs'[x.job].counts.failed <= x.counts.failed
        <4>1. run[r].job \notin signalled /\ run[r].counts.failed \in Nat
              /\ x.job = run[r].job /\ x.counts = run[r].counts
          BY <1>0, <2>0, <3>1, <3>3, NaturalCounts DEF SameWork, Keeps
        <4>2. jobs[run[r].job].counts.failed <= run[r].counts.failed
          BY <1>0, <2>3, <4>1 DEF ClaimInv, FailuresInv, InPage
        <4> QED  BY <2>0, <4>1, <4>2
      <3>4. run'[r] = x
        BY <3>1 DEF Moves
      <3>5. ClaimInv(r)'
        BY <1>0, <3>1, <3>2, <3>3, <3>4, ClaimMoves DEF InLoop, OnPages, InPage, AtDocument
      <3> QED  BY <2>1, <3>5
    <2>4. CASE End(r)
      BY <1>19, <2>1, <2>4
    <2>5. CASE run[r].signal = "sent" /\ Set(r, [run[r] EXCEPT !.signal = "landed"])
      BY <1>23, <2>0, <2>1, <2>5
    <2> QED  BY <1>27, <2>2, <2>3, <2>4, <2>5 DEF Throw, AtDocument
  <1>28. ASSUME Signal(r) PROVE FileInv' /\ FinishedInv' /\ ClaimInv(r)'
    <2>0. /\ UNCHANGED <<jobs, results, file>> /\ run[r].stage \notin Before
          /\ signalled' = signalled \cup {run[r].job}
      BY <1>28 DEF Signal, Before
    <2>1. PICK x \in Run :
              /\ Moves(r, x) /\ x.stage = run[r].stage
              /\ x.job = run[r].job /\ x.checkpoint = run[r].checkpoint
              /\ x.completed = run[r].completed
              /\ x.key = run[r].key /\ x.page = run[r].page /\ x.todo = run[r].todo
      BY <1>0, <1>28, SignalMoves
    <2>2. ClaimInv(r)'
      BY <1>22, <2>0, <2>1
    <2> QED  BY <1>0, <2>0, <2>2, SameJobs
  <1>29. CASE UNCHANGED vars
    <2>1. ClaimInv(r)'
      BY <1>0, <1>29 DEF vars, ClaimInv, FailuresInv, ResultsOf
    <2>2. FileInv' /\ FinishedInv'
      BY <1>0, <1>29, SameJobs DEF vars
    <2> QED  BY <2>1, <2>2
  <1> QED
    <2>1. CASE Next
      <3>1. \/ \E resume \in BOOLEAN : Begin(r, resume)
            \/ Step(r) \/ Cancel(r) \/ Exit(r) \/ Disturb(r)
        BY <2>1 DEF Next
      <3> QED
        BY <1>1, <1>2, <1>3, <1>4, <1>5, <1>6, <1>7, <1>8, <1>10, <1>11, <1>14, <1>15,
           <1>16, <1>17, <1>18, <1>20, <1>21, <1>24, <1>26, <1>27, <1>28, <3>1
        DEF Step, Disturb
    <2> QED  BY <1>29, <2>1

\* While processes run one at a time, a crawl that has completed has a result for
\* each document of the site or counts it as failed, unless a signal hit its job.
THEOREM Discovery_NothingIsSkipped ==
    ASSUME NEW r, Runs = {r} PROVE Spec => []NothingIsSkipped
  <1>1. SkipInv => NothingIsSkipped
    BY DEF SkipInv, FinishedInv, NothingIsSkipped, AtMost
  <1>2. TypeInv /\ TypeInv' /\ BackedInv /\ SkipInv /\ [Next]_vars => SkipInv'
    BY SkipStep
  <1> QED
    BY <1>1, <1>2, TypeStarts, TypeStep, BackedStarts, BackedStep, SkipStarts, PTL DEF Spec
=============================================================================
