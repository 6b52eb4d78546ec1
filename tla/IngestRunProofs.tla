----------------------------- MODULE IngestRunProofs -----------------------------
(***************************************************************************)
(* The counters, the job row and the reviews of a run of the ingest CLI,   *)
(* proved for any acts, bytes, builds and number of runs.                  *)
(*                                                                         *)
(* There is one worker, so that what it has read of the reviews is still   *)
(* so when it writes (OwnReviews), and every version that appears while a  *)
(* run is under way is the run's own (CountersMatchCorpus).                *)
(***************************************************************************)
EXTENDS IngestRun, PublicationProofs

JobStatus == {"PENDING", "RUNNING", "SUCCEEDED", "FAILED"}

RunTypeOK == jobs \in Seq(JobStatus) /\ run \in Run

Busy == {"create", "discover", "next", "act", "report"}

\* The worker works while the run is at an act, and then only on its terms.
OneActAtATime ==
    /\ In("act") <=> ~At(Self, "idle")
    /\ In("act") => work[Self].dryRun = run.dryRun
    /\ work[Self].stage \in Publishing => ~work[Self].dryRun

\* Every act is still to come, under way or counted; every failure is audited,
\* but for one that is about to be.
InHand == Len(run.acts) + (IF In("act") THEN 1 ELSE 0)

Tally ==
    /\ run.processed = Reported
    /\ run.phase \in {"create", "discover"} => Reported = 0
    /\ run.phase \in Busy => run.processed + InHand = run.found
    /\ run.phase \in Busy =>
        run.audited + (IF In("report") THEN 1 ELSE 0) = run.count["failures"]
    /\ run.type = "PARSE" => Len(run.acts) <= 1 /\ ~In("discover") /\ ~In("report")
    /\ In("discover") => run.acts = <<>>
    /\ In("create") /\ run.type = "FETCH" => run.acts = <<>>

Complete ==
    /\ run.acts = <<>>
    /\ run.processed = run.found /\ Reported = run.found
    /\ run.audited = run.count["failures"]

JobFollowsRun ==
    /\ run.phase \in Busy => jobs # <<>> /\ jobs[Len(jobs)] # "SUCCEEDED"
    /\ In("fail") => jobs # <<>>
    /\ jobs # <<>> =>
        /\ jobs[Len(jobs)] = "SUCCEEDED" => Complete
        /\ In("returned") => jobs[Len(jobs)] = "SUCCEEDED"

\* What the worker has read of the reviews holds until it writes.
OwnReviews ==
    LET j == work[Self] IN
    /\ j.stage = "saveReview" => j.pending = PendingAt(j.doc, j.hash)
    /\ j.stage = "commit" => PendingAt(j.doc, j.hash) \subseteq j.pending

RunInv ==
    /\ IInv
    /\ RunTypeOK
    /\ IsFiniteSet(versions)
    /\ OneActAtATime
    /\ Tally
    /\ JobFollowsRun
    /\ CountersMatchCorpus
    /\ OneOpenReviewPerBytes
    /\ OwnReviews

-----------------------------------------------------------------------------
(* What a step does to the fields of the run.                              *)

Phases == Busy \cup {"fail"} \cup Over

LEMMA OneWorker == Self \in Workers /\ \A w \in Workers : w = Self
  BY RunAssumption DEF Self

LEMMA MovedRun ==
    ASSUME run \in Run, NEW s \in Phases, GoOn(s)
    PROVE  /\ run' \in Run /\ run'.phase = s
           /\ run'.type = run.type /\ run'.dryRun = run.dryRun /\ run'.hash = run.hash
           /\ run'.parser = run.parser
           /\ run'.acts = run.acts /\ run'.found = run.found
           /\ run'.processed = run.processed /\ run'.count = run.count
           /\ run'.audited = run.audited /\ run'.base = run.base
           /\ Reported' = Reported
  BY DEF GoOn, Run, Phases, Busy, Over, Reported

LEMMA StartedRun ==
    ASSUME NEW type \in {"FETCH", "PARSE"}, NEW h \in Hashes, NEW p \in Parsers,
           NEW dry \in BOOLEAN, NEW acts \in Seq(Documents), IsFiniteSet(versions),
           run' = NewRun(type, h, p, dry, acts)
    PROVE  /\ run' \in Run /\ run'.phase = "create"
           /\ run'.type = type /\ run'.dryRun = dry /\ run'.hash = h /\ run'.parser = p
           /\ run'.acts = acts /\ run'.found = Len(acts)
           /\ run'.processed = 0 /\ run'.count = [o \in Outcomes |-> 0]
           /\ run'.audited = 0 /\ run'.base = Cardinality(versions)
           /\ Reported' = 0
  <1>1. Cardinality(versions) \in Nat
    BY FS_CardinalityType
  <1>2. Len(acts) \in Nat
    BY LenProperties
  <1>3. [o \in Outcomes |-> 0] \in [Outcomes -> Nat]
    OBVIOUS
  <1>4. run' = [phase |-> "create", type |-> type, parser |-> p, dryRun |-> dry, hash |-> h,
                acts |-> acts, found |-> Len(acts), processed |-> 0,
                count |-> [o \in Outcomes |-> 0], audited |-> 0,
                base |-> Cardinality(versions)]
    BY DEF NewRun
  <1>5. Reported' = 0
    BY <1>4 DEF Reported, Outcomes
  <1> QED  BY <1>1, <1>2, <1>3, <1>4, <1>5 DEF Run

SumOf(f) == f["published"] + f["unchanged"] + f["reviews"] + f["ready"] + f["failures"]

LEMMA OneMore ==
    ASSUME NEW f \in [Outcomes -> Nat], NEW g \in [Outcomes -> Nat], NEW o \in Outcomes,
           \A x \in Outcomes : g[x] = IF x = o THEN f[x] + 1 ELSE f[x]
    PROVE  SumOf(g) = SumOf(f) + 1
  <1>1. /\ f["published"] \in Nat /\ f["unchanged"] \in Nat /\ f["reviews"] \in Nat
        /\ f["ready"] \in Nat /\ f["failures"] \in Nat
    BY DEF Outcomes
  <1>2. /\ g["published"] = f["published"] + (IF o = "published" THEN 1 ELSE 0)
        /\ g["unchanged"] = f["unchanged"] + (IF o = "unchanged" THEN 1 ELSE 0)
        /\ g["reviews"] = f["reviews"] + (IF o = "reviews" THEN 1 ELSE 0)
        /\ g["ready"] = f["ready"] + (IF o = "ready" THEN 1 ELSE 0)
        /\ g["failures"] = f["failures"] + (IF o = "failures" THEN 1 ELSE 0)
    BY <1>1 DEF Outcomes
  <1> QED  BY <1>1, <1>2 DEF SumOf, Outcomes

LEMMA CountedRun ==
    ASSUME run \in Run, NEW o \in Outcomes, NEW s \in Phases,
           NEW acts \in Seq(Documents),
           \/ run' = [Counted(o) EXCEPT !.phase = s, !.acts = acts]
           \/ acts = run.acts /\ run' = [Counted(o) EXCEPT !.phase = s]
    PROVE  /\ run' \in Run /\ run'.phase = s
           /\ run'.type = run.type /\ run'.dryRun = run.dryRun
           /\ run'.acts = acts /\ run'.found = run.found
           /\ run'.processed = run.processed + 1
           /\ \A x \in Outcomes : run'.count[x] = IF x = o THEN run.count[x] + 1 ELSE run.count[x]
           /\ run'.audited = run.audited /\ run'.base = run.base
           /\ Reported' = Reported + 1
  <1> DEFINE c == [run.count EXCEPT ![o] = @ + 1]
  <1>1. /\ run.count \in [Outcomes -> Nat] /\ run.processed + 1 \in Nat
    BY DEF Run
  <1>2. c \in [Outcomes -> Nat] /\
        \A x \in Outcomes : c[x] = IF x = o THEN run.count[x] + 1 ELSE run.count[x]
    BY <1>1
  <1>3. run' = [run EXCEPT !.processed = @ + 1, !.count = c, !.phase = s, !.acts = acts]
    <2>1. Counted(o) = [run EXCEPT !.processed = @ + 1, !.count = c]
      BY DEF Counted, Run
    <2> HIDE DEF c
    <2> QED  BY <2>1 DEF Run
  <1> HIDE DEF c
  <1>4. /\ run' \in Run /\ run'.phase = s
        /\ run'.type = run.type /\ run'.dryRun = run.dryRun
        /\ run'.acts = acts /\ run'.found = run.found
        /\ run'.processed = run.processed + 1 /\ run'.count = c
        /\ run'.audited = run.audited /\ run'.base = run.base
    BY <1>1, <1>2, <1>3 DEF Run, Phases, Busy, Over
  <1>5. SumOf(c) = SumOf(run.count) + 1
    BY <1>1, <1>2, OneMore
  <1>6. Reported = SumOf(run.count) /\ Reported' = SumOf(c)
    BY <1>4 DEF Reported, SumOf
  <1> QED  BY <1>2, <1>4, <1>5, <1>6

LEMMA MarkedJobs ==
    ASSUME jobs \in Seq(JobStatus), jobs # <<>>, NEW s \in JobStatus, Mark(s)
    PROVE  jobs' \in Seq(JobStatus) /\ jobs' # <<>> /\ jobs'[Len(jobs')] = s
  BY DEF Mark, JobStatus

-----------------------------------------------------------------------------
(* What a step does to the worker, the versions and the reviews.           *)

\* With one worker, any sound job may take the place of its job.
LEMMA ReplacedJob ==
    ASSUME IInv, NEW k \in Job, JobSound(k), work' = [work EXCEPT ![Self] = k],
           UNCHANGED <<database, clock>>
    PROVE  IInv'
  <1>1. UNCHANGED <<docs, versions, nodes, citations, reviews, archives, clock>>
    BY DEF database
  <1>2. work' \in [Workers -> Job] /\ work'[Self] = k
    BY OneWorker DEF IInv, TypeOK
  <1>3. TypeOK'
    BY <1>1, <1>2 DEF IInv, TypeOK
  <1>4. JobSound(k)'
    BY <1>1 DEF JobSound, Listed, Closing, ClosedAll, Fresh
  <1>5. \A w \in Workers : JobSound(work[w])'
    BY <1>2, <1>4, OneWorker
  <1>6. Exclusive'
    BY OneWorker DEF Exclusive
  <1> QED  BY <1>1, <1>3, <1>5, <1>6 DEF IInv, InForceMeansPublished

LEMMA ParsedAgainIsSound ==
    ASSUME NEW k \in Job, k.stage = "archive", ~k.existing, k.seen = {}, k.closed = {}
    PROVE  LET j == [k EXCEPT !.stage = "assess"]
           IN  j \in Job /\ JobSound(j) /\ j.stage = "assess" /\ j.dryRun = k.dryRun
  <1> DEFINE j == [k EXCEPT !.stage = "assess"]
  <1>1. /\ j \in Job /\ j.stage = "assess" /\ j.dryRun = k.dryRun
        /\ ~j.existing /\ j.seen = {} /\ j.closed = {}
    BY DEF Job, Stages
  <1> HIDE DEF j
  <1>2. JobSound(j)
    BY <1>1 DEF JobSound, Publishing, Locking, Early, Saving
  <1> QED  BY <1>1, <1>2 DEF j

\* What a step of the worker does to its job.
LEMMA WorkerSteps ==
    ASSUME TypeOK, Proceed(Self)
    PROVE  /\ \/ work'[Self].stage = "idle"
              \/ /\ work'[Self].doc = work[Self].doc /\ work'[Self].hash = work[Self].hash
                 /\ work'[Self].dryRun = work[Self].dryRun
                 /\ work'[Self].stage \in Publishing =>
                        work[Self].stage \in Publishing \/ ~work[Self].dryRun
           /\ work[Self].stage = "commit" => Commit(Self)
           /\ Commit(Self) => work[Self].stage = "commit" /\ work'[Self].stage = "idle"
  <1> USE OneWorker, IdleIsJob DEF TypeOK, Publishing, Locking, Reviewing
  <1> DEFINE Good == \/ work'[Self].stage = "idle"
                     \/ /\ work'[Self].doc = work[Self].doc
                        /\ work'[Self].hash = work[Self].hash
                        /\ work'[Self].dryRun = work[Self].dryRun
                        /\ work'[Self].stage \in Publishing =>
                               work[Self].stage \in Publishing \/ ~work[Self].dryRun
  <1>1. ASSUME Finish(Self) PROVE work'[Self].stage = "idle"
    BY <1>1 DEF Finish
  <1>2. ASSUME NEW s, Goto(Self, s),
               s \in Publishing => work[Self].stage \in Publishing \/ ~work[Self].dryRun
        PROVE  Good
    BY <1>2 DEF Goto, Job
  <1>3. Archive(Self) \/ Assess(Self) => Good
    BY <1>1, <1>2 DEF Archive, Assess
  <1>4. AskForReview(Self) => Good
    <2>1. ReviewDocument(Self) \/ ReviewPlaceholder(Self) \/ ReviewSave(Self) => Good
      BY <1>1, <1>2 DEF ReviewDocument, ReviewPlaceholder, ReviewSave
    <2>2. ReviewList(Self) => Good
      BY DEF ReviewList, Job
    <2> QED  BY <2>1, <2>2 DEF AskForReview
  <1>5. Publish(Self) => Good
    <2>1. FindSame(Self) \/ CheckOverlap(Self) \/ SaveDocument(Self) \/ InsertVersion(Self)
              \/ Commit(Self) => Good
      BY <1>1, <1>2 DEF FindSame, CheckOverlap, SaveDocument, InsertVersion, Commit, At
    <2>2. FindDocument(Self) => Good
      BY <1>2 DEF FindDocument, At, Job
    <2>3. ListVersions(Self) => Good
      BY DEF ListVersions, At, Job
    <2>4. Supersede(Self) => Good
      BY <1>1 DEF Supersede, At, Job
    <2>5. AcceptReviews(Self) => Good
      BY DEF AcceptReviews, At, Job
    <2> QED  BY <2>1, <2>2, <2>3, <2>4, <2>5 DEF Publish
  <1>6. work[Self].stage = "commit" => Commit(Self)
    BY DEF Proceed, Archive, Assess, AskForReview, Publish, ReviewDocument, ReviewPlaceholder,
           ReviewList, ReviewSave, FindDocument, FindSame, ListVersions, Supersede,
           CheckOverlap, SaveDocument, InsertVersion, AcceptReviews, At
  <1>7. Commit(Self) => work[Self].stage = "commit" /\ work'[Self].stage = "idle"
    BY <1>1 DEF Commit, At
  <1> HIDE DEF Good
  <1>8. Good
    BY <1>3, <1>4, <1>5 DEF Proceed
  <1> QED  BY <1>6, <1>7, <1>8 DEF Good

\* The steps that read or write the reviews.
LEMMA ReviewSteps ==
    ASSUME TypeOK, Proceed(Self)
    PROVE  \/ ReviewList(Self) \/ ReviewSave(Self) \/ AcceptReviews(Self) \/ Commit(Self)
           \/ /\ UNCHANGED <<versions, reviews>>
              /\ work'[Self].stage \notin {"saveReview", "commit"}
  <1> USE OneWorker, IdleIsJob DEF TypeOK
  <1> DEFINE Plain == /\ UNCHANGED <<versions, reviews>>
                      /\ work'[Self].stage \notin {"saveReview", "commit"}
  <1>1. ASSUME Finish(Self) PROVE work'[Self].stage = "idle"
    BY <1>1 DEF Finish
  <1>2. ASSUME NEW s, Goto(Self, s) PROVE work'[Self].stage = s
    BY <1>2 DEF Goto, Job
  <1>3. Archive(Self) \/ Assess(Self) => Plain
    BY <1>1, <1>2 DEF Archive, Assess, database
  <1>4. ReviewDocument(Self) \/ ReviewPlaceholder(Self) => Plain
    BY <1>1, <1>2 DEF ReviewDocument, ReviewPlaceholder, database
  <1>5. FindSame(Self) \/ CheckOverlap(Self) \/ SaveDocument(Self) \/ InsertVersion(Self) => Plain
    BY <1>1, <1>2 DEF FindSame, CheckOverlap, SaveDocument, InsertVersion, database
  <1>6. FindDocument(Self) => Plain
    BY <1>2 DEF FindDocument, Job, database
  <1>7. ListVersions(Self) => Plain
    BY DEF ListVersions, Job, database
  <1>8. Supersede(Self) => Plain
    BY <1>1 DEF Supersede, At, Job, database
  <1> HIDE DEF Plain
  <1>9. Plain \/ ReviewList(Self) \/ ReviewSave(Self) \/ AcceptReviews(Self) \/ Commit(Self)
    BY <1>3, <1>4, <1>5, <1>6, <1>7, <1>8 DEF Proceed, AskForReview, Publish
  <1> QED  BY <1>9 DEF Plain

\* With at most one open review of bytes, reading them by record is reading
\* them by place.
LEMMA OpenReviews ==
    ASSUME TypeOK, OneOpenReviewPerBytes, NEW d \in Documents
    PROVE  /\ reviews[d] \in Seq(Review) /\ DOMAIN reviews[d] \subseteq Nat
           /\ Len(reviews[d]) \in Nat /\ DOMAIN reviews[d] = 1..Len(reviews[d])
           /\ \A k \in DOMAIN reviews[d] :
                /\ reviews[d][k] \in Review
                /\ reviews[d][k].status \in {"PENDING", "ACCEPTED"}
           /\ \A h : \A i, k \in PendingAt(d, h) : i = k
  <1>1. reviews[d] \in Seq(Review)
    BY DEF TypeOK
  <1>2. /\ Len(reviews[d]) \in Nat /\ DOMAIN reviews[d] = 1..Len(reviews[d])
        /\ reviews[d] \in [1..Len(reviews[d]) -> Review]
    BY <1>1, LenProperties
  <1>3. ASSUME NEW k \in DOMAIN reviews[d] PROVE reviews[d][k] \in Review
    <2> HIDE DEF Review
    <2> QED  BY <1>2
  <1>4. ASSUME NEW h, NEW i \in PendingAt(d, h), NEW k \in PendingAt(d, h) PROVE i = k
    <2>1. /\ i \in DOMAIN reviews[d] /\ k \in DOMAIN reviews[d]
          /\ reviews[d][i].status = "PENDING" /\ reviews[d][i].hash = h
          /\ reviews[d][k].status = "PENDING" /\ reviews[d][k].hash = h
      BY DEF PendingAt
    <2>2. reviews[d][i] = reviews[d][k]
      <3>1. \A r, q \in Review : r.status = q.status /\ r.hash = q.hash => r = q
        BY DEF Review
      <3> QED  BY <1>3, <2>1, <3>1
    <2> QED  BY <2>1, <2>2 DEF OneOpenReviewPerBytes
  <1> QED  BY <1>1, <1>2, <1>3, <1>4 DEF Review

\* Saving a review adds one where none of these bytes was open, and otherwise
\* writes what is there.
LEMMA SavedReview ==
    ASSUME TypeOK, OneOpenReviewPerBytes, OwnReviews, ReviewSave(Self),
           NEW d, d = work[Self].doc, NEW h, h = work[Self].hash
    PROVE  \/ UNCHANGED reviews
           \/ /\ PendingAt(d, h) = {}
              /\ reviews' = [reviews EXCEPT ![d] =
                                Append(@, [hash |-> h, status |-> "PENDING"])]
  <1> DEFINE j == work[Self]
             pending == [hash |-> h, status |-> "PENDING"]
  <1>1. j \in Job /\ d \in Documents /\ j.pending = PendingAt(d, h)
    BY OneWorker DEF TypeOK, Job, ReviewSave, At, OwnReviews
  <1>2. reviews' = [reviews EXCEPT ![d] =
                IF j.pending = {} THEN Append(@, pending)
                ELSE [k \in DOMAIN @ |-> IF k \in j.pending THEN pending ELSE @[k]]]
    BY DEF ReviewSave
  <1>3. CASE PendingAt(d, h) = {}
    BY <1>1, <1>2, <1>3
  <1>4. CASE PendingAt(d, h) # {}
    <2>1. \A k \in PendingAt(d, h) : k \in DOMAIN reviews[d] /\ reviews[d][k] = pending
      <3>1. \A k \in PendingAt(d, h) :
                /\ k \in DOMAIN reviews[d]
                /\ reviews[d][k].status = "PENDING" /\ reviews[d][k].hash = h
        BY DEF PendingAt
      <3>2. \A k \in DOMAIN reviews[d] : reviews[d][k] \in Review
        BY <1>1, OpenReviews
      <3>3. \A r \in Review : r.status = "PENDING" /\ r.hash = h => r = pending
        BY DEF Review
      <3> QED  BY <3>1, <3>2, <3>3
    <2> DEFINE s == reviews[d]
               t == [k \in DOMAIN s |-> IF k \in PendingAt(d, h) THEN pending ELSE s[k]]
    <2>2. reviews' = [reviews EXCEPT ![d] = t]
      BY <1>1, <1>2, <1>4
    <2>3. t = s
      <3>1. s \in [DOMAIN s -> Review]
        BY <1>1, OpenReviews
      <3>2. \A k \in DOMAIN s : (IF k \in PendingAt(d, h) THEN pending ELSE s[k]) = s[k]
        BY <2>1
      <3> HIDE DEF s, pending
      <3> QED  BY <3>1, <3>2
    <2> HIDE DEF t, s
    <2>4. reviews' = [reviews EXCEPT ![d] = reviews[d]]
      BY <2>2, <2>3 DEF s
    <2> QED  BY <1>1, <2>4 DEF TypeOK
  <1> QED  BY <1>3, <1>4

\* A commit accepts reviews, and all those of its bytes that are open.
LEMMA CommittedReviews ==
    ASSUME TypeOK, OneOpenReviewPerBytes, OwnReviews, Commit(Self),
           NEW d, d = work[Self].doc, NEW h, h = work[Self].hash
    PROVE  /\ d \in Documents
           /\ \A e \in Documents : DOMAIN reviews'[e] = DOMAIN reviews[e]
           /\ \A e \in Documents : \A k \in DOMAIN reviews[e] :
                /\ reviews'[e][k].hash = reviews[e][k].hash
                /\ \/ reviews'[e][k] = reviews[e][k]
                   \/ reviews'[e][k].status = "ACCEPTED"
           /\ \A k \in DOMAIN reviews[d] :
                reviews[d][k].hash = h => reviews'[d][k].status = "ACCEPTED"
  <1> DEFINE j == work[Self]
             s == reviews[d]
             t == [k \in DOMAIN s |-> IF k \in j.pending
                                      THEN [s[k] EXCEPT !.status = "ACCEPTED"] ELSE s[k]]
  <1>1. j \in Job /\ d \in Documents /\ PendingAt(d, h) \subseteq j.pending
    BY OneWorker DEF TypeOK, Job, Commit, At, OwnReviews
  <1>2. reviews' = [reviews EXCEPT ![d] = t]
    BY DEF Commit
  <1>3. \A k \in DOMAIN s : s[k] \in Review /\ s[k].status \in {"PENDING", "ACCEPTED"}
    BY <1>1, OpenReviews
  <1>4. \A r \in Review : /\ [r EXCEPT !.status = "ACCEPTED"].hash = r.hash
                          /\ [r EXCEPT !.status = "ACCEPTED"].status = "ACCEPTED"
    BY DEF Review
  <1>5. \A k \in DOMAIN s : s[k].hash = h /\ s[k].status = "PENDING" => k \in j.pending
    BY <1>1 DEF PendingAt
  <1>6. /\ DOMAIN t = DOMAIN s
        /\ \A k \in DOMAIN s :
            /\ t[k].hash = s[k].hash
            /\ t[k] = s[k] \/ t[k].status = "ACCEPTED"
            /\ s[k].hash = h => t[k].status = "ACCEPTED"
    <2> HIDE DEF s, j
    <2>1. DOMAIN t = DOMAIN s /\ \A k \in DOMAIN s :
            t[k] = IF k \in j.pending THEN [s[k] EXCEPT !.status = "ACCEPTED"] ELSE s[k]
      OBVIOUS
    <2> HIDE DEF t
    <2>2. ASSUME NEW k \in DOMAIN s
          PROVE  /\ t[k].hash = s[k].hash
                 /\ t[k] = s[k] \/ t[k].status = "ACCEPTED"
                 /\ s[k].hash = h => t[k].status = "ACCEPTED"
      <3>1. CASE k \in j.pending
        <4>1. t[k] = [s[k] EXCEPT !.status = "ACCEPTED"] /\ s[k] \in Review
          BY <1>3, <2>1, <3>1
        <4> QED  BY ONLY <1>4, <4>1
      <3>2. CASE k \notin j.pending
        <4>1. t[k] = s[k] /\ s[k].status \in {"PENDING", "ACCEPTED"}
          BY <1>3, <2>1, <3>2
        <4> QED  BY <1>5, <3>2, <4>1
      <3> QED  BY <3>1, <3>2
    <2> QED  BY <2>1, <2>2
  <1> HIDE DEF t, j
  <1>7. /\ reviews'[d] = t
        /\ \A e \in Documents : e # d => reviews'[e] = reviews[e]
    BY <1>1, <1>2 DEF TypeOK
  <1> HIDE DEF s
  <1>8. s = reviews[d]
    BY DEF s
  <1> QED  BY <1>1, <1>6, <1>7, <1>8

\* What may become of the reviews and what a publication does to them.
ReviewsKept ==
    \A d \in Documents : \A k \in DOMAIN reviews[d] :
        /\ k \in DOMAIN reviews'[d]
        /\ reviews'[d][k].hash = reviews[d][k].hash
        /\ reviews[d][k].status = "ACCEPTED" => reviews'[d][k].status = "ACCEPTED"

ReviewsClosed ==
    \A v \in versions' \ versions : v.status = "PUBLISHED" =>
        \A k \in DOMAIN reviews'[v.doc] :
            reviews'[v.doc][k].hash = v.hash => reviews'[v.doc][k].status = "ACCEPTED"

LEMMA AppendedReview ==
    ASSUME TypeOK, OneOpenReviewPerBytes, NEW d \in Documents, NEW h \in Hashes,
           PendingAt(d, h) = {},
           reviews' = [reviews EXCEPT ![d] = Append(@, [hash |-> h, status |-> "PENDING"])]
    PROVE  OneOpenReviewPerBytes' /\ ReviewsKept
  <1> DEFINE p == [hash |-> h, status |-> "PENDING"]
             s == reviews[d]
             n == Len(s) + 1
  <1>1. p \in Review /\ s \in Seq(Review) /\ Len(s) \in Nat /\ DOMAIN s = 1..Len(s)
    BY OpenReviews DEF Review
  <1>2. /\ reviews'[d] = Append(s, p)
        /\ \A e \in Documents : e # d => reviews'[e] = reviews[e]
    BY DEF TypeOK
  <1>3. \A k \in DOMAIN s : s[k] # p
    BY DEF PendingAt
  <1>4. \A i, k \in DOMAIN s : s[i] = s[k] /\ s[i].status = "PENDING" => i = k
    BY DEF OneOpenReviewPerBytes
  <1> HIDE DEF p, s
  <1> DEFINE t == Append(s, p)
  <1>5. DOMAIN t = 1..n /\ t[n] = p /\ \A k \in DOMAIN s : k \in 1..n /\ t[k] = s[k]
    <2> HIDE DEF Review
    <2> QED  BY <1>1
  <1> HIDE DEF t
  <1>6. ASSUME NEW i \in DOMAIN t, NEW k \in DOMAIN t, t[i] = t[k], t[i].status = "PENDING"
        PROVE  i = k
    <2>1. \A m \in DOMAIN t : m = n \/ m \in DOMAIN s
      BY <1>1, <1>5
    <2> QED  BY <1>3, <1>4, <1>5, <1>6, <2>1
  <1>7. reviews'[d] = t /\ s = reviews[d]
    BY <1>2 DEF t, s
  <1>8. OneOpenReviewPerBytes'
    <2> SUFFICES ASSUME NEW e \in Documents, NEW i \in DOMAIN reviews'[e],
                        NEW k \in DOMAIN reviews'[e],
                        reviews'[e][i] = reviews'[e][k], reviews'[e][i].status = "PENDING"
                 PROVE  i = k
      BY DEF OneOpenReviewPerBytes
    <2>1. CASE e = d
      BY <1>6, <1>7, <2>1
    <2>2. CASE e # d
      BY <1>2, <2>2 DEF OneOpenReviewPerBytes
    <2> QED  BY <2>1, <2>2
  <1>9. ReviewsKept
    <2> SUFFICES ASSUME NEW e \in Documents, NEW k \in DOMAIN reviews[e]
                 PROVE  k \in DOMAIN reviews'[e] /\ reviews'[e][k] = reviews[e][k]
      BY DEF ReviewsKept
    <2>1. CASE e = d
      BY <1>5, <1>7, <2>1
    <2>2. CASE e # d
      BY <1>2, <2>2
    <2> QED  BY <2>1, <2>2
  <1> QED  BY <1>8, <1>9

LEMMA StepKeepsReviews ==
    ASSUME IInv, OneOpenReviewPerBytes, OwnReviews, Proceed(Self)
    PROVE  OneOpenReviewPerBytes' /\ OwnReviews' /\ ReviewsKept /\ ReviewsClosed
  <1> DEFINE d == work[Self].doc
             h == work[Self].hash
  <1>0. /\ TypeOK /\ work \in [Workers -> Job] /\ Self \in Workers
        /\ d \in Documents /\ h \in Hashes
    BY OneWorker DEF IInv, TypeOK, Job
  <1>1. CASE UNCHANGED <<versions, reviews>> /\ work'[Self].stage \notin {"saveReview", "commit"}
    BY <1>1 DEF OneOpenReviewPerBytes, OwnReviews, ReviewsKept, ReviewsClosed
  <1>2. CASE ReviewList(Self)
    <2> DEFINE found == {k \in PendingAt(d, h) : \A i \in PendingAt(d, h) : k <= i}
    <2>1. /\ UNCHANGED <<versions, reviews>>
          /\ work' = [work EXCEPT ![Self].stage = "saveReview", ![Self].pending = found]
      BY <1>2 DEF ReviewList, database
    <2>2. found = PendingAt(d, h)
      <3>1. PendingAt(d, h) \subseteq Nat /\ \A i, k \in PendingAt(d, h) : i = k
        BY <1>0, OpenReviews DEF PendingAt
      <3> HIDE DEF d, h
      <3> QED  BY <3>1
    <2> HIDE DEF found
    <2>3. /\ work'[Self].stage = "saveReview" /\ work'[Self].pending = found
          /\ work'[Self].doc = d /\ work'[Self].hash = h
      BY <1>0, <2>1 DEF Job
    <2>4. PendingAt(d, h)' = PendingAt(d, h)
      BY <2>1, <2>3 DEF PendingAt
    <2> HIDE DEF d, h
    <2>5. OwnReviews'
      BY <2>1, <2>2, <2>3 DEF OwnReviews, PendingAt
    <2> QED  BY <2>1, <2>5 DEF OneOpenReviewPerBytes, ReviewsKept, ReviewsClosed
  <1>3. CASE ReviewSave(Self)
    <2>1. UNCHANGED versions /\ work'[Self].stage = "idle"
      BY <1>0, <1>3, IdleIsJob DEF ReviewSave, Finish
    <2>2. OwnReviews' /\ ReviewsClosed
      BY <2>1 DEF OwnReviews, ReviewsClosed
    <2>3. CASE UNCHANGED reviews
      BY <2>2, <2>3 DEF OneOpenReviewPerBytes, ReviewsKept
    <2>4. CASE /\ PendingAt(d, h) = {}
               /\ reviews' = [reviews EXCEPT ![d] =
                                Append(@, [hash |-> h, status |-> "PENDING"])]
      BY <1>0, <2>2, <2>4, AppendedReview
    <2> QED  BY <1>0, <1>3, <2>3, <2>4, SavedReview
  <1>4. CASE AcceptReviews(Self)
    <2>1. PICK only : /\ UNCHANGED <<versions, reviews>>
                      /\ work' = [work EXCEPT ![Self].stage = "commit",
                                              ![Self].pending = PendingAt(d, h) \cup only]
      BY <1>4 DEF AcceptReviews, database
    <2> DEFINE ks == PendingAt(d, h) \cup only
    <2>2. PendingAt(d, h) \subseteq ks
      OBVIOUS
    <2> HIDE DEF ks
    <2>3. /\ work'[Self].stage = "commit" /\ work'[Self].pending = ks
          /\ work'[Self].doc = d /\ work'[Self].hash = h
      BY <1>0, <2>1 DEF Job, ks
    <2> HIDE DEF d, h
    <2>4. OwnReviews'
      BY <2>1, <2>2, <2>3 DEF OwnReviews, PendingAt
    <2> QED  BY <2>1, <2>4 DEF OneOpenReviewPerBytes, ReviewsKept, ReviewsClosed
  <1>5. CASE Commit(Self)
    <2>1. work'[Self].stage = "idle"
      BY <1>0, <1>5, IdleIsJob DEF Commit, Finish
    <2>2. OwnReviews'
      BY <2>1 DEF OwnReviews
    <2>3. /\ \A e \in Documents : DOMAIN reviews'[e] = DOMAIN reviews[e]
          /\ \A e \in Documents : \A k \in DOMAIN reviews[e] :
                /\ reviews'[e][k].hash = reviews[e][k].hash
                /\ \/ reviews'[e][k] = reviews[e][k]
                   \/ reviews'[e][k].status = "ACCEPTED"
          /\ \A k \in DOMAIN reviews[d] :
                reviews[d][k].hash = h => reviews'[d][k].status = "ACCEPTED"
      BY <1>0, <1>5, CommittedReviews
    <2>4. OneOpenReviewPerBytes' /\ ReviewsKept
      BY <2>3 DEF OneOpenReviewPerBytes, ReviewsKept
    <2>5. ReviewsClosed
      <3>1. PICK new : new = Added(work[Self])
        OBVIOUS
      <3>2. /\ new.doc = d /\ new.hash = h
            /\ \A u \in versions' : u = new \/ u \in versions \/ u.status = "SUPERSEDED"
        BY <1>0, <1>5, <3>1, CommitOrigins
      <3> HIDE DEF d, h
      <3> QED  BY <1>0, <2>3, <3>2 DEF ReviewsClosed
    <2> QED  BY <2>2, <2>4, <2>5
  <1> QED  BY <1>0, <1>1, <1>2, <1>3, <1>4, <1>5, ReviewSteps

-----------------------------------------------------------------------------
(* What a step of the run does to its counters and its job.                *)

RunPart ==
    /\ RunTypeOK /\ OneActAtATime /\ Tally /\ JobFollowsRun /\ CountersMatchCorpus

LEMMA RunFields ==
    ASSUME run \in Run
    PROVE  /\ run.phase \in Phases /\ run.type \in {"FETCH", "PARSE"}
           /\ run.dryRun \in BOOLEAN /\ run.hash \in Hashes /\ run.parser \in Parsers
           /\ run.acts \in Seq(Documents) /\ Len(run.acts) \in Nat
           /\ run.found \in Nat /\ run.processed \in Nat /\ run.audited \in Nat
           /\ run.base \in Nat /\ Reported \in Nat
           /\ \A o \in Outcomes : run.count[o] \in Nat
           /\ run.count["published"] \in Nat /\ run.count["failures"] \in Nat
  <1>1. /\ run.phase \in Phases /\ run.type \in {"FETCH", "PARSE"}
        /\ run.dryRun \in BOOLEAN /\ run.hash \in Hashes /\ run.parser \in Parsers
        /\ run.acts \in Seq(Documents)
        /\ run.found \in Nat /\ run.processed \in Nat /\ run.audited \in Nat
        /\ run.base \in Nat /\ run.count \in [Outcomes -> Nat]
    BY DEF Run, Phases, Busy
  <1>2. Len(run.acts) \in Nat
    BY <1>1, LenProperties
  <1>3. \A o \in Outcomes : run.count[o] \in Nat
    BY <1>1
  <1>4. /\ run.count["published"] \in Nat /\ run.count["unchanged"] \in Nat
        /\ run.count["reviews"] \in Nat /\ run.count["ready"] \in Nat
        /\ run.count["failures"] \in Nat
    BY <1>3 DEF Outcomes
  <1>5. Reported \in Nat
    BY <1>4 DEF Reported
  <1> QED  BY <1>1, <1>2, <1>3, <1>4, <1>5

\* A run begins with nothing done and a job that is pending.
LEMMA BeginsRun ==
    ASSUME RunInv, UNCHANGED vars, NEW type \in {"FETCH", "PARSE"}, NEW h \in Hashes,
           NEW p \in Parsers, NEW dry \in BOOLEAN, NEW acts \in Seq(Documents),
           Len(acts) <= 1, type = "FETCH" => acts = <<>>, run.phase \in Over,
           jobs' = Append(jobs, "PENDING"), run' = NewRun(type, h, p, dry, acts)
    PROVE  RunPart'
  <1>1. /\ run' \in Run /\ run'.phase = "create" /\ run'.type = type /\ run'.dryRun = dry
        /\ run'.acts = acts /\ run'.found = Len(acts) /\ run'.processed = 0
        /\ run'.count = [o \in Outcomes |-> 0] /\ run'.audited = 0
        /\ run'.base = Cardinality(versions) /\ Reported' = 0
    BY StartedRun DEF RunInv
  <1>2. run'.count["published"] = 0 /\ run'.count["failures"] = 0
    BY <1>1 DEF Outcomes
  <1>3. UNCHANGED <<work, versions>> /\ Cardinality(versions) \in Nat /\ Len(acts) \in Nat
    BY FS_CardinalityType, LenProperties DEF vars, RunInv
  <1>4. jobs' \in Seq(JobStatus) /\ jobs' # <<>> /\ jobs'[Len(jobs')] = "PENDING"
    BY DEF RunInv, RunTypeOK, JobStatus
  <1>5. RunTypeOK'
    BY <1>1, <1>4 DEF RunTypeOK
  <1>6. OneActAtATime'
    BY <1>1, <1>3 DEF OneActAtATime, In, At, RunInv, Over
  <1>7. Tally'
    BY <1>1, <1>2, <1>3 DEF Tally, InHand, In, Busy
  <1>8. JobFollowsRun'
    BY <1>1, <1>4 DEF JobFollowsRun, In, Busy
  <1>9. CountersMatchCorpus'
    BY <1>1, <1>2, <1>3 DEF CountersMatchCorpus
  <1> QED  BY <1>5, <1>6, <1>7, <1>8, <1>9 DEF RunPart

\* The steps that only move the run along, and mark its job.
LEMMA MovesRun ==
    ASSUME RunInv, UNCHANGED vars, NEW s \in Phases \ {"create", "act", "report"}, ~In("act"),
           run.phase \in Busy \cup {"fail"}, GoOn(s),
           \/ s \in Busy /\ ~In("report") /\ ~In("fail")
           \/ s \in {"fail", "threw"}
           \/ s = "returned" /\ In("next") /\ run.acts = <<>>,
           s = "discover" => run.acts = <<>> /\ Reported = 0 /\ run.type = "FETCH",
           \/ UNCHANGED jobs /\ s # "returned"
           \/ Mark("RUNNING") /\ s # "returned"
           \/ Mark("FAILED") /\ s = "threw"
           \/ Mark("SUCCEEDED") /\ In("next") /\ run.acts = <<>> /\ s \notin Busy
    PROVE  RunPart'
  <1>0. /\ RunTypeOK /\ OneActAtATime /\ Tally /\ JobFollowsRun /\ CountersMatchCorpus
        /\ jobs # <<>>
    BY DEF RunInv, JobFollowsRun, In
  <1>1. /\ run' \in Run /\ run'.phase = s
        /\ run'.type = run.type /\ run'.dryRun = run.dryRun
        /\ run'.acts = run.acts /\ run'.found = run.found
        /\ run'.processed = run.processed /\ run'.count = run.count
        /\ run'.audited = run.audited /\ run'.base = run.base
        /\ Reported' = Reported
    BY <1>0, MovedRun DEF RunTypeOK
  <1>2. UNCHANGED <<work, versions>>
    BY DEF vars
  <1>3. /\ jobs' \in Seq(JobStatus) /\ jobs' # <<>>
        /\ \/ jobs'[Len(jobs')] = jobs[Len(jobs)] /\ s # "returned"
           \/ jobs'[Len(jobs')] = "RUNNING" /\ s # "returned"
           \/ jobs'[Len(jobs')] = "FAILED" /\ s = "threw"
           \/ /\ jobs'[Len(jobs')] = "SUCCEEDED" /\ In("next") /\ run.acts = <<>>
              /\ s \notin Busy
    BY <1>0, MarkedJobs DEF RunTypeOK, JobStatus
  <1>4. /\ Len(run.acts) \in Nat /\ run.found \in Nat /\ run.processed \in Nat
        /\ run.audited \in Nat /\ run.count["failures"] \in Nat
        /\ run.count["published"] \in Nat /\ run.base \in Nat
        /\ Cardinality(versions) \in Nat
    BY <1>0, RunFields, FS_CardinalityType DEF RunTypeOK, RunInv
  <1>5. RunTypeOK'
    BY <1>1, <1>3 DEF RunTypeOK
  <1>6. OneActAtATime'
    BY <1>0, <1>1, <1>2 DEF OneActAtATime, In, At
  <1>7. Tally'
    BY <1>0, <1>1, <1>4 DEF Tally, InHand, In, Busy
  <1>8. JobFollowsRun'
    <2>1. In("next") /\ run.acts = <<>> => Complete
      BY <1>0, <1>4 DEF Tally, InHand, In, Busy, Complete
    <2>2. Complete' <=> Complete
      BY <1>1 DEF Complete
    <2> QED  BY <1>0, <1>1, <1>3, <2>1, <2>2 DEF JobFollowsRun, In, Busy
  <1>9. CountersMatchCorpus'
    BY <1>0, <1>1, <1>2, <1>4 DEF CountersMatchCorpus, In, Busy
  <1> QED  BY <1>5, <1>6, <1>7, <1>8, <1>9 DEF RunPart

\* The tally of a run that is between two acts.
LEMMA TallyBetween ==
    ASSUME run' \in Run, run'.phase \in {"next", "report"}, run'.processed = Reported',
           run'.processed + Len(run'.acts) = run'.found,
           run'.phase = "next" => run'.audited = run'.count["failures"],
           run'.phase = "report" => run'.audited + 1 = run'.count["failures"],
           run'.type = "PARSE" => Len(run'.acts) <= 1 /\ run'.phase # "report"
    PROVE  Tally'
  <1>0. /\ Len(run'.acts) \in Nat /\ run'.audited \in Nat
    <2>1. run'.acts \in Seq(Documents) /\ run'.audited \in Nat
      BY DEF Run
    <2> QED  BY <2>1, LenProperties
  <1>1. ~In("act")' /\ ~In("discover")' /\ ~In("create")' /\ (In("report")' <=> run'.phase = "report")
    BY DEF In
  <1>2. InHand' = Len(run'.acts)
    BY <1>0, <1>1 DEF InHand
  <1>3. run'.audited + (IF In("report")' THEN 1 ELSE 0) = run'.count["failures"]
    <2>1. CASE run'.phase = "report"
      BY <1>0, <1>1, <2>1
    <2>2. CASE run'.phase = "next"
      BY <1>0, <1>1, <2>2
    <2> QED  BY <2>1, <2>2
  <1> QED  BY <1>1, <1>2, <1>3 DEF Tally

LEMMA DiscoverRuns == RunInv /\ Discover => RunPart'
  <1> SUFFICES ASSUME RunInv, Discover PROVE RunPart'
    OBVIOUS
  <1>0. /\ RunTypeOK /\ OneActAtATime /\ Tally /\ JobFollowsRun /\ CountersMatchCorpus
        /\ In("discover") /\ UNCHANGED <<vars, jobs>> /\ run \in Run
    BY DEF RunInv, Discover, RunTypeOK
  <1>1. CASE GoOn("fail")
    BY <1>0, <1>1, MovesRun DEF Phases, Busy, In
  <1>2. ASSUME NEW n \in 0..MaxActs, NEW s \in [1..n -> Documents],
               run' = [run EXCEPT !.phase = "next", !.acts = s, !.found = n]
        PROVE  RunPart'
    <2>1. n \in Nat /\ s \in Seq(Documents) /\ Len(s) = n
      BY RunAssumption
    <2>2. /\ run' \in Run /\ run'.phase = "next"
          /\ run'.type = run.type /\ run'.dryRun = run.dryRun
          /\ run'.acts = s /\ run'.found = n
          /\ run'.processed = run.processed /\ run'.count = run.count
          /\ run'.audited = run.audited /\ run'.base = run.base
      BY <1>0, <1>2, <2>1 DEF Run
    <2>3. Reported' = Reported /\ Reported = 0
      BY <1>0, <2>2 DEF Reported, Tally, In
    <2>4. UNCHANGED <<work, versions>> /\ run.processed \in Nat
      BY <1>0, RunFields DEF vars
    <2>5. RunTypeOK'
      BY <1>0, <2>2 DEF RunTypeOK
    <2>6. OneActAtATime'
      BY <1>0, <2>2, <2>4 DEF OneActAtATime, In, At
    <2>7. Tally'
      BY <1>0, <2>1, <2>2, <2>3, <2>4 DEF Tally, InHand, In, Busy
    <2>8. JobFollowsRun'
      BY <1>0, <2>2 DEF JobFollowsRun, In, Busy
    <2>9. CountersMatchCorpus'
      BY <1>0, <2>2, <2>4 DEF CountersMatchCorpus, In
    <2> QED  BY <2>5, <2>6, <2>7, <2>8, <2>9 DEF RunPart
  <1> QED  BY <1>1, <1>2 DEF Discover

LEMMA DownloadFailsRuns == RunInv /\ DownloadFails => RunPart'
  <1> SUFFICES ASSUME RunInv, DownloadFails PROVE RunPart'
    OBVIOUS
  <1>0. /\ RunTypeOK /\ OneActAtATime /\ Tally /\ JobFollowsRun /\ CountersMatchCorpus
        /\ In("next") /\ run.acts # <<>> /\ run.type = "FETCH"
        /\ UNCHANGED <<work, versions, jobs>> /\ run \in Run
    BY DEF RunInv, DownloadFails, RunTypeOK, vars
  <1>1. Tail(run.acts) \in Seq(Documents) /\ Len(run.acts) = Len(Tail(run.acts)) + 1
        /\ Len(Tail(run.acts)) \in Nat
    BY <1>0, RunFields
  <1>2. /\ run' \in Run /\ run'.phase = "report"
        /\ run'.type = run.type /\ run'.dryRun = run.dryRun
        /\ run'.acts = Tail(run.acts) /\ run'.found = run.found
        /\ run'.processed = run.processed + 1
        /\ \A x \in Outcomes :
                run'.count[x] = IF x = "failures" THEN run.count[x] + 1 ELSE run.count[x]
        /\ run'.audited = run.audited /\ run'.base = run.base
        /\ Reported' = Reported + 1
    <2>1. "failures" \in Outcomes /\ "report" \in Phases
      BY DEF Outcomes, Phases, Busy
    <2>2. run' = [Counted("failures") EXCEPT !.phase = "report", !.acts = Tail(run.acts)]
      BY <1>0 DEF DownloadFails, Counted, Run
    <2> QED  BY <1>0, <1>1, <2>1, <2>2, CountedRun
  <1>3. /\ run'.count["published"] = run.count["published"]
        /\ run'.count["failures"] = run.count["failures"] + 1
    BY <1>2 DEF Outcomes
  <1>4. /\ run.processed \in Nat /\ run.found \in Nat /\ run.audited \in Nat /\ Reported \in Nat
        /\ run.count["published"] \in Nat /\ run.count["failures"] \in Nat /\ run.base \in Nat
        /\ Cardinality(versions) \in Nat
    BY <1>0, RunFields, FS_CardinalityType DEF RunInv
  <1>5. RunTypeOK'
    BY <1>0, <1>2 DEF RunTypeOK
  <1>6. OneActAtATime'
    BY <1>0, <1>2 DEF OneActAtATime, In, At
  <1>7. Tally'
    <2>1. /\ run.processed = Reported /\ run.processed + Len(run.acts) = run.found
          /\ run.audited = run.count["failures"]
      BY <1>0, <1>1, <1>4 DEF Tally, InHand, In, Busy
    <2>2. /\ run'.processed = Reported' /\ run'.processed + Len(run'.acts) = run'.found
          /\ run'.audited + 1 = run'.count["failures"]
      <3>1. run'.processed = Reported'
        BY ONLY <1>2, <2>1
      <3>2. run'.processed + Len(run'.acts) = run'.found
        BY ONLY <1>1, <1>2, <1>4, <2>1
      <3>3. run'.audited + 1 = run'.count["failures"]
        BY ONLY <1>2, <1>3, <2>1
      <3> QED  BY <3>1, <3>2, <3>3
    <2> QED  BY <1>0, <1>2, <2>2, TallyBetween
  <1>8. JobFollowsRun'
    BY <1>0, <1>2 DEF JobFollowsRun, In, Busy
  <1>9. CountersMatchCorpus'
    BY <1>0, <1>2, <1>3, <1>4 DEF CountersMatchCorpus, In
  <1> QED  BY <1>5, <1>6, <1>7, <1>8, <1>9 DEF RunPart

LEMMA ReportRuns == RunInv /\ Report => RunPart'
  <1> SUFFICES ASSUME RunInv, Report PROVE RunPart'
    OBVIOUS
  <1>0. /\ RunTypeOK /\ OneActAtATime /\ Tally /\ JobFollowsRun /\ CountersMatchCorpus
        /\ In("report") /\ UNCHANGED <<work, versions, jobs>> /\ run \in Run
    BY DEF RunInv, Report, RunTypeOK, vars
  <1>1. PICK s \in {"next", "fail"}, n \in 0..1 :
            /\ run' = [run EXCEPT !.phase = s, !.audited = @ + n]
            /\ s = "next" => n = 1
    BY DEF Report
  <1>2. /\ run.processed \in Nat /\ run.found \in Nat /\ run.audited \in Nat
        /\ run.count["published"] \in Nat /\ run.count["failures"] \in Nat /\ run.base \in Nat
        /\ Cardinality(versions) \in Nat /\ Len(run.acts) \in Nat
    BY <1>0, RunFields, FS_CardinalityType DEF RunInv
  <1>3. /\ run' \in Run /\ run'.phase = s
        /\ run'.type = run.type /\ run'.dryRun = run.dryRun
        /\ run'.acts = run.acts /\ run'.found = run.found
        /\ run'.processed = run.processed /\ run'.count = run.count
        /\ run'.audited = run.audited + n /\ run'.base = run.base
        /\ Reported' = Reported
    <2>1. run.audited + n \in Nat
      BY <1>2
    <2> QED  BY <1>0, <1>1, <2>1 DEF Run, Reported
  <1>5. RunTypeOK'
    BY <1>0, <1>3 DEF RunTypeOK
  <1>6. OneActAtATime'
    BY <1>0, <1>3 DEF OneActAtATime, In, At
  <1>7. Tally'
    <2>1. /\ run.processed = Reported /\ run.processed + Len(run.acts) = run.found
          /\ run.audited + 1 = run.count["failures"] /\ run.type # "PARSE"
      BY <1>0, <1>2 DEF Tally, InHand, In, Busy
    <2>2. s = "next" => run'.audited = run'.count["failures"]
      BY <1>1, <1>2, <1>3, <2>1
    <2>3. CASE s = "next"
      BY <1>2, <1>3, <2>1, <2>2, <2>3, TallyBetween
    <2>4. CASE s = "fail"
      BY <1>3, <2>1, <2>4 DEF Tally, In, Busy
    <2> QED  BY <2>3, <2>4
  <1>8. JobFollowsRun'
    BY <1>0, <1>1, <1>3 DEF JobFollowsRun, In, Busy
  <1>9. CountersMatchCorpus'
    BY <1>0, <1>1, <1>2, <1>3 DEF CountersMatchCorpus, In
  <1> QED  BY <1>5, <1>6, <1>7, <1>8, <1>9 DEF RunPart

\* An act is taken up, downloaded or from the archive.
LEMMA TakesAct ==
    ASSUME RunInv, In("next"), run.acts # <<>>, UNCHANGED <<versions, jobs>>,
           NEW acts \in Seq(Documents), Len(run.acts) = Len(acts) + 1,
           run' = [run EXCEPT !.phase = "act", !.acts = acts],
           NEW k \in Job, work' = [work EXCEPT ![Self] = k],
           k.stage \notin Publishing \cup {"idle"}, k.dryRun = run.dryRun
    PROVE  RunPart'
  <1>0. /\ RunTypeOK /\ OneActAtATime /\ Tally /\ JobFollowsRun /\ CountersMatchCorpus
        /\ run \in Run /\ work'[Self] = k
    BY OneWorker DEF RunInv, RunTypeOK, IInv, TypeOK
  <1>2. /\ run.processed \in Nat /\ run.found \in Nat /\ run.audited \in Nat
        /\ run.count["failures"] \in Nat /\ Len(run.acts) \in Nat /\ Len(acts) \in Nat
    BY <1>0, RunFields, LenProperties
  <1>3. /\ run' \in Run /\ run'.phase = "act"
        /\ run'.type = run.type /\ run'.dryRun = run.dryRun
        /\ run'.acts = acts /\ run'.found = run.found
        /\ run'.processed = run.processed /\ run'.count = run.count
        /\ run'.audited = run.audited /\ run'.base = run.base
        /\ Reported' = Reported
    BY <1>0 DEF Run, Reported
  <1>5. RunTypeOK'
    BY <1>0, <1>3 DEF RunTypeOK
  <1>6. OneActAtATime'
    BY <1>0, <1>3 DEF OneActAtATime, In, At
  <1>7. Tally'
    BY <1>0, <1>2, <1>3 DEF Tally, InHand, In, Busy
  <1>8. JobFollowsRun'
    BY <1>0, <1>3 DEF JobFollowsRun, In, Busy
  <1>9. CountersMatchCorpus'
    BY <1>0, <1>3 DEF CountersMatchCorpus, In
  <1> QED  BY <1>5, <1>6, <1>7, <1>8, <1>9 DEF RunPart

LEMMA OneMade ==
    ASSUME NEW m \in Nat, NEW n \in Nat, NEW base \in Nat, NEW p \in Nat, NEW f \in Nat,
           NEW x \in 0..1, NEW y \in 0..1, p <= m - base, m - base <= p + f,
           \/ n = m /\ x = 0
           \/ n = m + 1 /\ x + y = 1
    PROVE  p + x <= n - base /\ n - base <= (p + x) + (f + y)
  OBVIOUS

LEMMA OneHidden ==
    ASSUME NEW m \in Nat, NEW n, NEW base \in Nat, NEW p \in Nat, NEW f \in Nat,
           p <= m - base, m - base <= p + f, n = m \/ n = m + 1
    PROVE  p <= n - base /\ n - base <= p + f + 1
  OBVIOUS

\* The worker's job ends: with a publication or without, the run is told the
\* outcome, or a failure.
LEMMA EndsAct ==
    ASSUME RunInv, In("act"), UNCHANGED jobs, work'[Self].stage = "idle",
           NEW o \in Outcomes, ActEnds(o),
           \/ Cardinality(versions') = Cardinality(versions) /\ o # "published"
           \/ /\ Cardinality(versions') = Cardinality(versions) + 1
              /\ o \in {"published", "failures"} /\ ~run.dryRun
    PROVE  RunPart'
  <1>0. /\ RunTypeOK /\ OneActAtATime /\ Tally /\ JobFollowsRun /\ CountersMatchCorpus
        /\ run \in Run /\ run.phase = "act"
    BY DEF RunInv, RunTypeOK, In
  <1>1. /\ run.processed \in Nat /\ run.found \in Nat /\ run.audited \in Nat /\ Reported \in Nat
        /\ run.count["published"] \in Nat /\ run.count["failures"] \in Nat /\ run.base \in Nat
        /\ Cardinality(versions) \in Nat /\ Len(run.acts) \in Nat
        /\ run.acts \in Seq(Documents) /\ run.type \in {"FETCH", "PARSE"}
    BY <1>0, RunFields, FS_CardinalityType DEF RunInv
  <1>2. /\ run.processed = Reported /\ run.processed + Len(run.acts) + 1 = run.found
        /\ run.audited = run.count["failures"]
        /\ run.type = "PARSE" => Len(run.acts) <= 1
    <2>1. InHand = Len(run.acts) + 1 /\ ~In("report") /\ run.phase \in Busy
      BY <1>0 DEF InHand, In, Busy
    <2> QED  BY <1>0, <1>1, <2>1 DEF Tally
  <1>3. /\ run.count["published"] <= Cardinality(versions) - run.base
        /\ Cardinality(versions) - run.base <= run.count["published"] + run.count["failures"]
        /\ run.dryRun => Cardinality(versions) - run.base = 0
    BY <1>0, <1>1 DEF CountersMatchCorpus
  <1>4. ASSUME NEW s \in {"next", "report"}, s = "report" <=> o = "failures",
               s = "report" => run.type = "FETCH",
               run' = [Counted(o) EXCEPT !.phase = s]
        PROVE  RunPart'
    <2>1. s \in Phases
      BY DEF Phases, Busy
    <2>2. /\ run' \in Run /\ run'.phase = s
          /\ run'.type = run.type /\ run'.dryRun = run.dryRun
          /\ run'.acts = run.acts /\ run'.found = run.found
          /\ run'.processed = run.processed + 1
          /\ \A x \in Outcomes :
                run'.count[x] = IF x = o THEN run.count[x] + 1 ELSE run.count[x]
          /\ run'.audited = run.audited /\ run'.base = run.base
          /\ Reported' = Reported + 1
      BY <1>0, <1>1, <1>4, <2>1, CountedRun
    <2>3. /\ run'.count["published"] = run.count["published"] + (IF o = "published" THEN 1 ELSE 0)
          /\ run'.count["failures"] = run.count["failures"] + (IF o = "failures" THEN 1 ELSE 0)
      BY <1>1, <2>2 DEF Outcomes
    <2>5. RunTypeOK'
      BY <1>0, <2>2 DEF RunTypeOK
    <2>6. OneActAtATime'
      BY <1>4, <2>2 DEF OneActAtATime, In, At, Publishing, Locking
    <2>7. Tally'
      <3>1. run'.processed = Reported' /\ run'.processed + Len(run'.acts) = run'.found
        <4>1. /\ run'.processed = run.processed + 1 /\ Reported' = Reported + 1
              /\ run'.acts = run.acts /\ run'.found = run.found
          BY <2>2
        <4>2. run'.processed = Reported'
          BY <1>2, <4>1
        <4>3. Len(run'.acts) = Len(run.acts)
          BY <4>1
        <4>4. run.processed + 1 + Len(run.acts) = run.found
          <5>1. run.processed + Len(run.acts) + 1 = run.found
            BY <1>2
          <5>2. run.processed \in Nat /\ Len(run.acts) \in Nat /\ run.found \in Nat
            BY <1>1
          <5> QED  BY ONLY <5>1, <5>2
        <4> QED  BY <4>1, <4>2, <4>3, <4>4
      <3>2. CASE s = "next"
        <4>1. run'.audited = run'.count["failures"]
          BY <1>1, <1>2, <1>4, <2>2, <2>3, <3>2
        <4> QED  BY <1>2, <2>2, <3>1, <3>2, <4>1, TallyBetween
      <3>3. CASE s = "report"
        <4>1. run'.audited + 1 = run'.count["failures"] /\ run'.type # "PARSE"
          BY <1>1, <1>2, <1>4, <2>2, <2>3, <3>3
        <4> QED  BY <2>2, <3>1, <3>3, <4>1, TallyBetween
      <3> QED  BY <3>2, <3>3
    <2>8. JobFollowsRun'
      BY <1>0, <1>4, <2>2 DEF JobFollowsRun, In, Busy
    <2>9. CountersMatchCorpus'
      <3>1. ~(run'.phase \in {"fail", "threw", "killed"})
        BY <1>4, <2>2
      <3>2. /\ run'.base = run.base /\ run'.dryRun = run.dryRun
            /\ run'.count["published"] <= Cardinality(versions') - run.base
            /\ Cardinality(versions') - run.base
                    <= run'.count["published"] + run'.count["failures"]
            /\ run.dryRun => Cardinality(versions') - run.base = 0
        <4> DEFINE x == IF o = "published" THEN 1 ELSE 0
                   y == IF o = "failures" THEN 1 ELSE 0
        <4>1. run'.base = run.base /\ run'.dryRun = run.dryRun
          BY <2>2
        <4>2. x \in 0..1 /\ y \in 0..1
          OBVIOUS
        <4>3. /\ run'.count["published"] = run.count["published"] + x
              /\ run'.count["failures"] = run.count["failures"] + y
          BY <2>3
        <4>4. \/ Cardinality(versions') = Cardinality(versions) /\ x = 0
              \/ Cardinality(versions') = Cardinality(versions) + 1 /\ x + y = 1 /\ ~run.dryRun
          OBVIOUS
        <4>5. Cardinality(versions') \in Nat
          BY <1>1, <4>4
        <4> HIDE DEF x, y
        <4>6. /\ run.count["published"] + x <= Cardinality(versions') - run.base
              /\ Cardinality(versions') - run.base
                    <= (run.count["published"] + x) + (run.count["failures"] + y)
          <5>1. /\ Cardinality(versions) \in Nat /\ run.base \in Nat
                /\ run.count["published"] \in Nat /\ run.count["failures"] \in Nat
            BY <1>1
          <5>2. \/ Cardinality(versions') = Cardinality(versions) /\ x = 0
                \/ Cardinality(versions') = Cardinality(versions) + 1 /\ x + y = 1
            BY <4>4
          <5> QED  BY ONLY <1>3, <4>2, <4>5, <5>1, <5>2, OneMade
        <4>7. run.dryRun => Cardinality(versions') - run.base = 0
          BY <1>3, <4>4
        <4> QED  BY <4>1, <4>3, <4>6, <4>7
      <3> QED  BY <1>1, <2>2, <2>3, <3>1, <3>2 DEF CountersMatchCorpus
    <2> QED  BY <2>5, <2>6, <2>7, <2>8, <2>9 DEF RunPart
  <1>5. ASSUME GoOn("fail"), o = "failures" PROVE RunPart'
    <2>2. /\ run' \in Run /\ run'.phase = "fail"
          /\ run'.type = run.type /\ run'.dryRun = run.dryRun
          /\ run'.acts = run.acts
          /\ run'.processed = run.processed /\ run'.count = run.count
          /\ run'.base = run.base /\ Reported' = Reported
      BY <1>0, <1>5, MovedRun DEF Phases
    <2>5. RunTypeOK'
      BY <1>0, <2>2 DEF RunTypeOK
    <2>6. OneActAtATime'
      BY <2>2 DEF OneActAtATime, In, At, Publishing, Locking
    <2>7. Tally'
      BY <1>2, <2>2 DEF Tally, In, Busy
    <2>8. JobFollowsRun'
      BY <1>0, <2>2 DEF JobFollowsRun, In, Busy
    <2>9. CountersMatchCorpus'
      <3>1. PICK made : made = Cardinality(versions') - run.base
        OBVIOUS
      <3>2. /\ run.count["published"] <= made
            /\ made <= run.count["published"] + run.count["failures"] + 1
            /\ run.dryRun => made = 0
        <4>1. o # "published"
          BY <1>5
        <4>2. \/ Cardinality(versions') = Cardinality(versions)
              \/ Cardinality(versions') = Cardinality(versions) + 1 /\ ~run.dryRun
          BY <4>1
        <4>3. run.dryRun => made = 0
          BY <1>3, <3>1, <4>2
        <4>4. /\ run.count["published"] <= made
              /\ made <= run.count["published"] + run.count["failures"] + 1
          <5>1. \/ Cardinality(versions') = Cardinality(versions)
                \/ Cardinality(versions') = Cardinality(versions) + 1
            BY <4>2
          <5>2. /\ run.count["published"] \in Nat /\ run.count["failures"] \in Nat
                /\ run.base \in Nat /\ Cardinality(versions) \in Nat
            BY <1>1
          <5> QED  BY ONLY <1>3, <3>1, <5>1, <5>2, OneHidden
        <4> QED  BY <4>3, <4>4
      <3>3. run'.phase \in {"fail", "threw", "killed"}
        BY <2>2
      <3> QED  BY ONLY <2>2, <3>1, <3>2, <3>3 DEF CountersMatchCorpus
    <2> QED  BY <2>5, <2>6, <2>7, <2>8, <2>9 DEF RunPart
  <1> QED  BY <1>1, <1>4, <1>5 DEF ActEnds

\* The versions in a step of the worker.
LEMMA StepCounts ==
    ASSUME IInv, IsFiniteSet(versions), Proceed(Self)
    PROVE  /\ IsFiniteSet(versions')
           /\ IF work[Self].stage = "commit"
              THEN Cardinality(versions') = Cardinality(versions) + 1
              ELSE UNCHANGED versions
  <1>1. ASSUME Commit(Self)
        PROVE  /\ IsFiniteSet(versions')
               /\ Cardinality(versions') = Cardinality(versions) + 1
    <2>1. PICK d \in Documents, h \in Hashes, p \in Parsers, now \in Times :
              versions' = Enacted(versions, d, h, p, now)
      BY <1>1, OneWorker, CommitEnacts
    <2> QED  BY <2>1, EnactedAddsOne, TimesAssumption DEF IInv
  <1>2. CASE work[Self].stage = "commit"
    BY <1>1, <1>2, WorkerSteps DEF IInv
  <1>3. CASE work[Self].stage # "commit"
    <2>1. ~ \E w \in Workers : Commit(w)
      BY <1>3, OneWorker DEF Commit, At
    <2>2. [Next]_vars
      BY OneWorker DEF Next
    <2> QED  BY <1>3, <2>1, <2>2, OnlyCommits
  <1> QED  BY <1>2, <1>3

LEMMA WorkRuns == RunInv /\ Work => RunInv'
  <1> SUFFICES ASSUME RunInv, Work PROVE RunInv'
    OBVIOUS
  <1> DEFINE stage == work[Self].stage
  <1>0. /\ IInv /\ TypeOK /\ RunTypeOK /\ OneActAtATime /\ Tally /\ JobFollowsRun
        /\ CountersMatchCorpus /\ OneOpenReviewPerBytes /\ OwnReviews
        /\ IsFiniteSet(versions) /\ In("act") /\ UNCHANGED jobs
    BY DEF RunInv, Work, IInv
  <1>1. ASSUME Proceed(Self),
               IF work'[Self].stage # "idle" THEN UNCHANGED run
               ELSE \E outcome \in {Outcome(stage), "failures"} : ActEnds(outcome)
        PROVE  RunInv'
    <2>1. IInv'
      BY <1>0, <1>1, OneWorker, NextIInv DEF Next
    <2>2. OneOpenReviewPerBytes' /\ OwnReviews' /\ IsFiniteSet(versions')
      BY <1>0, <1>1, StepKeepsReviews, StepCounts
    <2>3. IF stage = "commit" THEN Cardinality(versions') = Cardinality(versions) + 1
                              ELSE UNCHANGED versions
      BY <1>0, <1>1, StepCounts
    <2>4. /\ \/ work'[Self].stage = "idle"
             \/ /\ work'[Self].dryRun = work[Self].dryRun
                /\ work'[Self].stage \in Publishing =>
                       work[Self].stage \in Publishing \/ ~work[Self].dryRun
          /\ stage = "commit" => work'[Self].stage = "idle"
      BY <1>0, <1>1, WorkerSteps
    <2>5. CASE work'[Self].stage # "idle"
      <3>1. UNCHANGED <<run, jobs, versions>>
        BY <1>0, <1>1, <2>3, <2>4, <2>5
      <3>2. OneActAtATime'
        BY <1>0, <2>4, <2>5, <3>1 DEF OneActAtATime, In, At
      <3>3. RunTypeOK' /\ Tally' /\ JobFollowsRun' /\ CountersMatchCorpus'
        BY <1>0, <3>1 DEF RunTypeOK, Tally, InHand, In, Reported, JobFollowsRun, Complete,
                          CountersMatchCorpus
      <3> QED  BY <2>1, <2>2, <3>2, <3>3 DEF RunInv
    <2>6. CASE work'[Self].stage = "idle"
      <3>1. PICK o \in {Outcome(stage), "failures"} : ActEnds(o)
        BY <1>1, <2>6
      <3>2. o \in Outcomes /\ (o = "published" => stage = "commit")
            /\ (stage = "commit" => o \in {"published", "failures"})
        <4> HIDE DEF stage
        <4> QED  BY DEF Outcome, Outcomes
      <3>3. stage = "commit" => ~run.dryRun
        BY <1>0 DEF OneActAtATime, Publishing, Locking
      <3>4. RunPart'
        BY <1>0, <2>3, <2>6, <3>1, <3>2, <3>3, EndsAct
      <3> QED  BY <2>1, <2>2, <3>4 DEF RunInv, RunPart
    <2> QED  BY <2>5, <2>6
  <1>2. ASSUME Abandon(Self), ActEnds("failures") PROVE RunInv'
    <2>1. IInv'
      BY <1>0, <1>2, OneWorker, NextIInv DEF Next
    <2>2. UNCHANGED <<versions, reviews>> /\ work'[Self].stage = "idle"
      BY <1>0, <1>2, OneWorker, IdleIsJob DEF Abandon, Finish, database, TypeOK
    <2>3. OneOpenReviewPerBytes' /\ OwnReviews' /\ IsFiniteSet(versions')
      BY <1>0, <2>2 DEF OneOpenReviewPerBytes, OwnReviews
    <2>4. RunPart'
      <3>1. "failures" \in Outcomes
        BY DEF Outcomes
      <3> QED  BY <1>0, <1>2, <2>2, <3>1, EndsAct
    <2> QED  BY <2>1, <2>3, <2>4 DEF RunInv, RunPart
  <1> QED  BY <1>1, <1>2 DEF Work

LEMMA KilledRuns == RunInv /\ Killed => RunInv'
  <1> SUFFICES ASSUME RunInv, Killed PROVE RunInv'
    OBVIOUS
  <1>0. /\ IInv /\ TypeOK /\ RunTypeOK /\ OneActAtATime /\ Tally /\ JobFollowsRun
        /\ CountersMatchCorpus /\ OneOpenReviewPerBytes
        /\ IsFiniteSet(versions) /\ run \in Run /\ run.phase \notin Over
        /\ UNCHANGED <<database, clock, jobs>> /\ UNCHANGED <<versions, reviews>>
    BY DEF RunInv, Killed, IInv, RunTypeOK, database
  <1>1. IInv' /\ work'[Self].stage = "idle"
    <2>1. Idle \in Job /\ Idle.stage = "idle" /\ JobSound(Idle)
      BY IdleIsJob, IdleIsSound
    <2>2. work' = [work EXCEPT ![Self] = Idle]
      BY DEF Killed, Finish
    <2> QED  BY <1>0, <2>1, <2>2, OneWorker, ReplacedJob DEF TypeOK
  <1>2. OneOpenReviewPerBytes' /\ OwnReviews' /\ IsFiniteSet(versions')
    BY <1>0, <1>1 DEF OneOpenReviewPerBytes, OwnReviews
  <1>3. /\ run' \in Run /\ run'.phase = "killed"
        /\ run'.type = run.type /\ run'.dryRun = run.dryRun
        /\ run'.acts = run.acts /\ run'.found = run.found
        /\ run'.processed = run.processed /\ run'.count = run.count
        /\ run'.audited = run.audited /\ run'.base = run.base /\ Reported' = Reported
    BY <1>0, MovedRun DEF Killed, Phases, Over
  <1>4. RunTypeOK'
    BY <1>0, <1>3 DEF RunTypeOK
  <1>5. OneActAtATime'
    BY <1>1, <1>3 DEF OneActAtATime, In, At, Publishing, Locking
  <1>6. Tally'
    BY <1>0, <1>3 DEF Tally, In, Busy
  <1>7. JobFollowsRun'
    <2>1. Complete' <=> Complete
      BY <1>3 DEF Complete
    <2> QED  BY <1>0, <1>3, <2>1 DEF JobFollowsRun, In, Busy
  <1>8. CountersMatchCorpus'
    <2>1. /\ Cardinality(versions) \in Nat /\ run.base \in Nat
          /\ run.count["published"] \in Nat /\ run.count["failures"] \in Nat
      BY <1>0, RunFields, FS_CardinalityType
    <2> QED  BY <1>0, <1>3, <2>1 DEF CountersMatchCorpus, Over
  <1> QED  BY <1>1, <1>2, <1>4, <1>5, <1>6, <1>7, <1>8 DEF RunInv

\* The steps that leave the corpus alone.
LEMMA QuietRuns ==
    ASSUME RunInv, UNCHANGED vars, RunPart' PROVE RunInv'
  <1>1. IInv'
    BY NextIInv DEF RunInv
  <1>2. UNCHANGED <<versions, reviews, work>>
    BY DEF vars
  <1>3. IsFiniteSet(versions') /\ OneOpenReviewPerBytes' /\ OwnReviews'
    BY <1>2 DEF RunInv, OneOpenReviewPerBytes, OwnReviews, PendingAt
  <1> QED  BY <1>1, <1>3 DEF RunInv, RunPart

LEMMA TakesActRuns ==
    ASSUME RunInv, IInv', RunPart', UNCHANGED <<versions, reviews>>,
           work'[Self].stage \in {"archive", "assess"}
    PROVE  RunInv'
  BY DEF RunInv, RunPart, OneOpenReviewPerBytes, OwnReviews

LEMMA OneAct ==
    ASSUME NEW s \in Seq(Documents), s # <<>>, Len(s) <= 1
    PROVE  Head(s) \in Documents /\ Len(s) = 1
  OBVIOUS

LEMMA InitRunInv == RunInit => RunInv
  <1> SUFFICES ASSUME RunInit PROVE RunInv
    OBVIOUS
  <1>1. IInv /\ versions = {} /\ reviews = [d \in Documents |-> <<>>]
        /\ work[Self].stage = "idle"
    BY InitIInv, OneWorker, IdleIsJob DEF RunInit, Init
  <1>2. IsFiniteSet(versions) /\ Cardinality(versions) = 0
    BY <1>1, FS_EmptySet
  <1> DEFINE h == CHOOSE h \in Hashes : TRUE
             p == CHOOSE p \in Parsers : TRUE
             zero == [o \in Outcomes |-> 0]
  <1>3. h \in Hashes /\ p \in Parsers /\ zero \in [Outcomes -> Nat]
    BY ActsAssumption
  <1>4. run = [phase |-> "returned", type |-> "FETCH", parser |-> p, dryRun |-> FALSE,
               hash |-> h, acts |-> <<>>, found |-> 0, processed |-> 0,
               count |-> zero, audited |-> 0, base |-> 0]
    BY <1>2 DEF RunInit, NewRun
  <1>5. zero["published"] = 0 /\ zero["unchanged"] = 0 /\ zero["reviews"] = 0
        /\ zero["ready"] = 0 /\ zero["failures"] = 0
    BY DEF Outcomes
  <1> HIDE DEF h, p, zero
  <1>6. run \in Run
    BY <1>3, <1>4 DEF Run, Over
  <1>7. RunTypeOK
    BY <1>6 DEF RunTypeOK, RunInit
  <1>8. Reported = 0
    BY <1>4, <1>5 DEF Reported
  <1>9. OneActAtATime
    BY <1>1, <1>4 DEF OneActAtATime, In, At, Publishing, Locking
  <1>10. Tally
    BY <1>4, <1>8 DEF Tally, In, Busy
  <1>11. JobFollowsRun
    BY <1>4 DEF JobFollowsRun, In, Busy, RunInit
  <1>12. CountersMatchCorpus
    BY <1>2, <1>4, <1>5 DEF CountersMatchCorpus
  <1>13. OneOpenReviewPerBytes /\ OwnReviews
    BY <1>1 DEF OneOpenReviewPerBytes, OwnReviews
  <1> QED  BY <1>1, <1>2, <1>7, <1>9, <1>10, <1>11, <1>12, <1>13 DEF RunInv

LEMMA NextRunInv == RunInv /\ [RunNext]_allVars => RunInv'
  <1> SUFFICES ASSUME RunInv, [RunNext]_allVars PROVE RunInv'
    OBVIOUS
  <1>0. /\ IInv /\ RunTypeOK /\ run \in Run /\ Tally /\ OneActAtATime /\ JobFollowsRun
        /\ IsFiniteSet(versions)
    BY DEF RunInv, RunTypeOK
  <1>1. ASSUME NEW p \in Parsers, NEW dry \in BOOLEAN, Fetch(p, dry) PROVE RunInv'
    <2>1. run.hash \in Hashes /\ <<>> \in Seq(Documents) /\ Len(<<>>) = 0
      BY <1>0, RunFields
    <2>2. /\ run.phase \in Over /\ jobs' = Append(jobs, "PENDING") /\ UNCHANGED vars
          /\ run' = NewRun("FETCH", run.hash, p, dry, <<>>)
      BY <1>1 DEF Fetch
    <2>3. RunPart'
      <3>1. PICK acts, type : acts = <<>> /\ type = "FETCH"
        OBVIOUS
      <3>2. /\ acts \in Seq(Documents) /\ Len(acts) <= 1 /\ type \in {"FETCH", "PARSE"}
            /\ type = "FETCH" => acts = <<>>
        BY <2>1, <3>1
      <3>3. run' = NewRun(type, run.hash, p, dry, acts)
        BY <2>2, <3>1
      <3> QED  BY <2>1, <2>2, <3>2, <3>3, BeginsRun
    <2> QED  BY <2>2, <2>3, QuietRuns
  <1>2. ASSUME NEW p \in Parsers, NEW dry \in BOOLEAN, NEW d \in Documents, NEW h \in Hashes,
               Republish(d, h, p, dry)
        PROVE  RunInv'
    <2>1. <<d>> \in Seq(Documents) /\ Len(<<d>>) = 1
      OBVIOUS
    <2>2. /\ run.phase \in Over /\ jobs' = Append(jobs, "PENDING") /\ UNCHANGED vars
          /\ run' = NewRun("PARSE", h, p, dry, <<d>>)
      BY <1>2 DEF Republish
    <2>3. RunPart'
      <3>1. PICK acts, type : acts = <<d>> /\ type = "PARSE"
        OBVIOUS
      <3>2. /\ acts \in Seq(Documents) /\ Len(acts) <= 1 /\ type \in {"FETCH", "PARSE"}
            /\ type = "FETCH" => acts = <<>>
        BY <2>1, <3>1
      <3>3. run' = NewRun(type, h, p, dry, acts)
        BY <2>2, <3>1
      <3> QED  BY <2>1, <2>2, <3>2, <3>3, BeginsRun
    <2> QED  BY <2>2, <2>3, QuietRuns
  <1>3. ASSUME MarkRunning PROVE RunInv'
    <2>1. RunPart'
      <3>1. In("create") /\ UNCHANGED vars /\ run.phase = "create" /\ Reported = 0
        BY <1>0, <1>3 DEF MarkRunning, In, Tally
      <3>2. run.type = "FETCH" => run.acts = <<>>
        BY <1>0, <3>1 DEF Tally
      <3> QED  BY <1>0, <1>3, <3>1, <3>2, MovesRun, RunFields DEF MarkRunning, In, Phases, Busy, Over
    <2> QED  BY <1>3, <2>1, QuietRuns DEF MarkRunning
  <1>4. ASSUME MarkSucceeded \/ MarkFailed PROVE RunInv'
    <2>1. RunPart'
      BY <1>4, MovesRun DEF MarkSucceeded, MarkFailed, In, Phases, Busy, Over
    <2> QED  BY <1>4, <2>1, QuietRuns DEF MarkSucceeded, MarkFailed
  <1>5. ASSUME Discover \/ DownloadFails \/ Report PROVE RunInv'
    <2>1. RunPart'
      BY <1>5, DiscoverRuns, DownloadFailsRuns, ReportRuns
    <2> QED  BY <1>5, <2>1, QuietRuns DEF Discover, DownloadFails, Report
  <1>6. ASSUME NEW h \in Hashes, TakeUp(h) PROVE RunInv'
    <2>1. /\ Head(run.acts) \in Documents /\ Tail(run.acts) \in Seq(Documents)
          /\ Len(run.acts) = Len(Tail(run.acts)) + 1 /\ run.acts # <<>> /\ In("next")
          /\ run.parser \in Parsers /\ run.dryRun \in BOOLEAN
      BY <1>0, <1>6, RunFields DEF TakeUp
    <2> DEFINE k == NewJob(Head(run.acts), h, run.parser, run.dryRun)
    <2>2. k \in Job /\ k.stage = "archive" /\ k.dryRun = run.dryRun
      <3>1. k \in Job
        BY <2>1, NewJobType
      <3> QED  BY <3>1 DEF NewJob
    <2>3. /\ work' = [work EXCEPT ![Self] = k] /\ UNCHANGED <<versions, reviews, jobs>>
          /\ run' = [run EXCEPT !.phase = "act", !.acts = Tail(run.acts)]
      BY <1>6 DEF TakeUp, Start, database
    <2>4. IInv'
      BY <1>0, <1>6, <2>1, OneWorker, NextIInv DEF TakeUp, Next
    <2> HIDE DEF k
    <2>5. RunPart'
      BY <2>1, <2>2, <2>3, TakesAct DEF Publishing, Locking
    <2>6. work'[Self].stage = "archive"
      BY <1>0, <2>2, <2>3, OneWorker DEF IInv, TypeOK
    <2> QED  BY <2>3, <2>4, <2>5, <2>6, TakesActRuns
  <1>7. ASSUME Reparse PROVE RunInv'
    <2>1. /\ Head(run.acts) \in Documents /\ run.acts # <<>> /\ In("next")
          /\ Len(run.acts) = Len(<<>>) + 1 /\ <<>> \in Seq(Documents)
          /\ run.parser \in Parsers /\ run.dryRun \in BOOLEAN /\ run.hash \in Hashes
      <3>1. /\ In("next") /\ run.type = "PARSE" /\ run.acts # <<>>
            /\ run.acts \in Seq(Documents) /\ Len(run.acts) <= 1
            /\ run.parser \in Parsers /\ run.dryRun \in BOOLEAN /\ run.hash \in Hashes
        BY <1>0, <1>7, RunFields DEF Reparse, Tally
      <3>2. Head(run.acts) \in Documents /\ Len(run.acts) = 1
        BY <3>1, OneAct
      <3> QED  BY <3>1, <3>2
    <2> DEFINE k == [NewJob(Head(run.acts), run.hash, run.parser, run.dryRun)
                        EXCEPT !.stage = "assess"]
    <2>2. k \in Job /\ JobSound(k) /\ k.stage = "assess" /\ k.dryRun = run.dryRun
      <3> DEFINE j == NewJob(Head(run.acts), run.hash, run.parser, run.dryRun)
      <3>1. j \in Job
        BY <2>1, NewJobType
      <3>2. /\ j.stage = "archive" /\ j.existing = FALSE /\ j.seen = {} /\ j.closed = {}
            /\ j.dryRun = run.dryRun
        BY DEF NewJob
      <3> HIDE DEF j
      <3>3. k = [j EXCEPT !.stage = "assess"]
        BY DEF j
      <3> HIDE DEF k
      <3> QED  BY <3>1, <3>2, <3>3, ParsedAgainIsSound
    <2>3. /\ work' = [work EXCEPT ![Self] = k] /\ UNCHANGED <<versions, reviews, jobs>>
          /\ UNCHANGED <<database, clock>>
          /\ run' = [run EXCEPT !.phase = "act", !.acts = <<>>]
      BY <1>7 DEF Reparse, database
    <2> HIDE DEF k
    <2>4. IInv'
      BY <1>0, <2>2, <2>3, ReplacedJob
    <2>5. RunPart'
      BY <2>1, <2>2, <2>3, TakesAct DEF Publishing, Locking
    <2>6. work'[Self].stage = "assess"
      BY <1>0, <2>2, <2>3, OneWorker DEF IInv, TypeOK
    <2> QED  BY <2>3, <2>4, <2>5, <2>6, TakesActRuns
  <1>8. CASE Tick /\ UNCHANGED runVars
    <2>1. IInv' /\ UNCHANGED <<versions, reviews, work, jobs, run>>
      BY <1>0, <1>8, NextIInv DEF Tick, Next, database, runVars
    <2>2. RunPart'
      BY <2>1 DEF RunInv, RunPart, RunTypeOK, OneActAtATime, In, At, Tally, InHand, Reported,
         JobFollowsRun, Complete, CountersMatchCorpus
    <2>3. IsFiniteSet(versions') /\ OneOpenReviewPerBytes' /\ OwnReviews'
      BY <2>1 DEF RunInv, OneOpenReviewPerBytes, OwnReviews, PendingAt
    <2> QED  BY <2>1, <2>2, <2>3 DEF RunInv, RunPart
  <1>9. CASE UNCHANGED allVars
    <2>1. UNCHANGED vars /\ UNCHANGED <<versions, work, jobs, run>>
      BY <1>9 DEF allVars, vars, runVars
    <2>2. RunPart'
      BY <2>1 DEF RunInv, RunPart, RunTypeOK, OneActAtATime, In, At, Tally, InHand, Reported,
         JobFollowsRun, Complete, CountersMatchCorpus
    <2> QED  BY <2>1, <2>2, QuietRuns
  <1> QED
    BY <1>1, <1>2, <1>3, <1>4, <1>5, <1>6, <1>7, <1>8, <1>9, WorkRuns, KilledRuns DEF RunNext

-----------------------------------------------------------------------------
(***************************************************************************)
(* The inductive invariant of the runs, whatever fails, is killed or loses *)
(* its answer.                                                             *)
(***************************************************************************)
THEOREM IngestRun_RunInv == RunSpec => []RunInv
  BY InitRunInv, NextRunInv, PTL DEF RunSpec

(***************************************************************************)
(* A run never reports a publication it did not make, hides at most one it *)
(* made (among its failures, or by not returning), and publishes nothing   *)
(* in a dry run (service.ts:118-129, 299-307, 437-446).                    *)
(***************************************************************************)
THEOREM IngestRun_CountersMatchCorpus == RunSpec => []CountersMatchCorpus
  <1>1. RunInv => CountersMatchCorpus
    BY DEF RunInv
  <1> QED  BY <1>1, IngestRun_RunInv, PTL

(***************************************************************************)
(* A job that says SUCCEEDED is that of a run that has counted every act   *)
(* it discovered once and audited every failure; a run that returns has    *)
(* such a job (service.ts:106-166).                                        *)
(***************************************************************************)
THEOREM IngestRun_SucceededIsComplete == RunSpec => []SucceededIsComplete
  <1>1. RunInv => SucceededIsComplete
    BY DEF RunInv, JobFollowsRun, Complete, SucceededIsComplete, In
  <1> QED  BY <1>1, IngestRun_RunInv, PTL

(***************************************************************************)
(* With one process at a time, killed and started again at any point, the  *)
(* bytes of an act wait for at most one review (retainOrCreateReview).     *)
(***************************************************************************)
THEOREM IngestRun_OneOpenReviewPerBytes == RunSpec => []OneOpenReviewPerBytes
  <1>1. RunInv => OneOpenReviewPerBytes
    BY DEF RunInv
  <1> QED  BY <1>1, IngestRun_RunInv, PTL

(***************************************************************************)
(* With one process at a time, no review is lost, none that was accepted   *)
(* is opened again, and publishing bytes closes every review that waits    *)
(* for them (service.ts:722-739, 756-797).                                 *)
(***************************************************************************)
THEOREM IngestRun_ReviewsFollowPublication == RunSpec => ReviewsFollowPublication
  <1>1. RunInv /\ [RunNext]_allVars => [ReviewsKept /\ ReviewsClosed]_vars
    <2> SUFFICES ASSUME RunInv, [RunNext]_allVars PROVE ReviewsKept /\ ReviewsClosed
      OBVIOUS
    <2>1. CASE UNCHANGED <<versions, reviews>>
      BY <2>1 DEF ReviewsKept, ReviewsClosed
    <2>2. CASE Proceed(Self)
      BY <2>2, StepKeepsReviews DEF RunInv
    <2>3. Proceed(Self) \/ UNCHANGED <<versions, reviews>>
      BY DEF RunNext, allVars, vars, database, Fetch, Republish, MarkRunning, Discover, TakeUp,
             Start, DownloadFails, Reparse, Work, Abandon, Report, MarkSucceeded, MarkFailed,
             Killed, Tick
    <2> QED  BY <2>1, <2>2, <2>3
  <1> QED
    BY <1>1, IngestRun_RunInv, PTL
    DEF RunSpec, ReviewsFollowPublication, ReviewsKept, ReviewsClosed

(***************************************************************************)
(* A run of the CLI implements the history of the corpus as well: whatever *)
(* statement fails or loses its answer, wherever the process is killed and *)
(* however often it is started again, each change of the version rows is   *)
(* one whole publication (service.ts:87-352, 479-575).                    *)
(***************************************************************************)
THEOREM IngestRun_ImplementsHistory == RunSpec => ImplementsHistory
  <1>1. RunInit => History!Init
    BY DEF RunInit, Init, History!Init
  <1>2. RunInv /\ [RunNext]_allVars => [History!Next]_versions
    <2> SUFFICES ASSUME RunInv, [RunNext]_allVars PROVE [History!Next]_versions
      OBVIOUS
    <2>1. Proceed(Self) => Next
      BY OneWorker DEF Next
    <2>2. CASE Proceed(Self)
      BY <2>1, <2>2, StepIsPublication DEF RunInv
    <2>3. CASE UNCHANGED versions
      BY <2>3
    <2>4. Proceed(Self) \/ UNCHANGED versions
      BY DEF RunNext, allVars, vars, database, Fetch, Republish, MarkRunning, Discover, TakeUp,
             Start, DownloadFails, Reparse, Work, Abandon, Report, MarkSucceeded, MarkFailed,
             Killed, Tick
    <2> QED  BY <2>2, <2>3, <2>4
  <1> QED
    BY <1>1, <1>2, IngestRun_RunInv, PTL DEF RunSpec, ImplementsHistory, History!Spec
=============================================================================
