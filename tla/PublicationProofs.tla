--------------------------- MODULE PublicationProofs ---------------------------
(***************************************************************************)
(* The ingest keeps the history of the corpus, for any number of acts,     *)
(* processes, parser builds and clock readings.                            *)
(*                                                                         *)
(* A transaction computes its update from rows it listed several           *)
(* statements earlier.  Until it has the document's row, others may commit *)
(* versions of the document; each such commit takes a number that is the   *)
(* next one of some earlier list, so the transaction's own next number is  *)
(* either still right, or taken (Listed).  The unique key on the numbers   *)
(* then refuses the insert of a stale update, and the row lock keeps what  *)
(* passed the insert valid up to the commit (Fresh, Exclusive).            *)
(***************************************************************************)
EXTENDS Publication, CorpusTablesProofs, SequenceTheorems

Update(j, v) == Superseded(v, Canonicalization(j.seen, j.hash, j.parser), j.now)

Listed(j) ==
    /\ Keyed(j.seen) /\ j.now \in Times
    /\ \A v \in j.seen : v.doc = j.doc
    /\ \/ j.seen = VersionsOf(versions, j.doc)
       \/ \E v \in versions : v.doc = j.doc /\ v.number = NextNumber(j.seen)

Closing(j) ==
    \A u \in j.closed :
        \E v \in PublishedOf(j.seen) : u = Update(j, v) /\ IntervalAccepted(u)

ClosedAll(j) == Closing(j) /\ \A v \in PublishedOf(j.seen) : Update(j, v) \in j.closed

Fresh(j) ==
    /\ j.seen = VersionsOf(versions, j.doc)
    /\ ~HasVersion(versions, j.doc, j.hash, j.parser)

Early  == {"archive", "assess", "findDocument"}
Saving == {"saveDocument"} \cup Locking

JobSound(j) ==
    /\ j.stage \in Publishing => Parsed[<<j.hash, j.parser>>].ok
    /\ j.stage \in Early => ~j.existing
    /\ j.stage \in Early \cup {"findSame", "listVersions"} => j.seen = {} /\ j.closed = {}
    /\ j.stage \in {"findSame", "listVersions", "supersede"} => j.existing
    /\ (j.stage \in Publishing /\ j.existing) => docs[j.doc] # Absent
    /\ j.stage = "supersede" => Listed(j) /\ Closing(j)
    /\ (j.stage \in Saving /\ j.existing) => Listed(j) /\ ClosedAll(j)
    /\ (j.stage \in Saving /\ ~j.existing) => j.seen = {} /\ j.closed = {}
    /\ (j.stage \in Locking /\ ~j.existing) => docs[j.doc] = Absent
    /\ j.stage \in {"acceptReviews", "commit"} => Fresh(j)

\* A document's row is written by one transaction at a time.
Exclusive ==
    \A w, x \in Workers :
        (/\ work[w].stage \in Locking /\ work[x].stage \in Locking
         /\ work[w].doc = work[x].doc) => w = x

IInv ==
    /\ TypeOK
    /\ HasHistory(versions)
    /\ InForceMeansPublished
    /\ Exclusive
    /\ \A w \in Workers : JobSound(work[w])

-----------------------------------------------------------------------------
LEMMA NewJobType ==
    ASSUME NEW d \in Documents, NEW h \in Hashes, NEW p \in Parsers, NEW dry \in BOOLEAN
    PROVE  NewJob(d, h, p, dry) \in Job
  BY DEF NewJob, Job, Stages, Instant

LEMMA IdleIsJob == Idle \in Job /\ Idle.stage = "idle"
  <1>1. /\ (CHOOSE d \in Documents : TRUE) \in Documents
        /\ (CHOOSE h \in Hashes : TRUE) \in Hashes
        /\ (CHOOSE p \in Parsers : TRUE) \in Parsers
    BY ActsAssumption
  <1> DEFINE j == NewJob(CHOOSE d \in Documents : TRUE, CHOOSE h \in Hashes : TRUE,
                         CHOOSE p \in Parsers : TRUE, FALSE)
  <1>2. j \in Job
    BY <1>1, NewJobType
  <1>3. Idle = [j EXCEPT !.stage = "idle"]
    BY DEF Idle
  <1> HIDE DEF j
  <1> QED  BY <1>2, <1>3 DEF Job, Stages

LEMMA IdleIsSound ==
    ASSUME NEW j, j.stage \in {"idle"} \cup Reviewing PROVE JobSound(j)
  BY DEF JobSound, Reviewing, Publishing, Locking, Early, Saving

LEMMA InitIInv == Init => IInv
  <1> SUFFICES ASSUME Init PROVE IInv
    OBVIOUS
  <1>1. TypeOK
    <2>1. work \in [Workers -> Job]
      BY IdleIsJob DEF Init
    <2>2. reviews \in [Documents -> Seq(Review)]
      BY DEF Init
    <2> QED  BY <2>1, <2>2 DEF Init, TypeOK, DocStatus
  <1>2. HasHistory(versions)
    BY NoHistoryYet DEF Init
  <1>3. InForceMeansPublished
    BY DEF Init, InForceMeansPublished, VersionsOf, Absent
  <1>4. \A w \in Workers : work[w].stage = "idle"
    BY IdleIsJob DEF Init
  <1>5. Exclusive
    BY <1>4 DEF Exclusive, Locking
  <1>6. \A w \in Workers : JobSound(work[w])
    BY <1>4, IdleIsSound
  <1> QED  BY <1>1, <1>2, <1>3, <1>5, <1>6 DEF IInv

-----------------------------------------------------------------------------
(***************************************************************************)
(* A commit publishes: its stale-looking update is what the committed rows *)
(* of this moment call for.                                                *)
(***************************************************************************)
LEMMA FreshIsUpToDate ==
    ASSUME IInv, NEW w \in Workers, work[w].stage \in {"acceptReviews", "commit"},
           NEW j, j = work[w]
    PROVE  \E now \in Times :
             /\ j.closed = Closed(versions, j.doc, j.hash, j.parser, now)
             /\ \A u \in j.closed : IntervalAccepted(u)
  <1>1. JobSound(j) /\ Fresh(j) /\ j.stage \in Saving /\ j \in Job /\ clock \in Times
    BY DEF IInv, TypeOK, JobSound, Saving, Locking
  <1>2. CASE j.existing
    <2>1. Closing(j) /\ ClosedAll(j) /\ j.now \in Times
      BY <1>1, <1>2 DEF JobSound, Listed, ClosedAll
    <2>2. j.seen = VersionsOf(versions, j.doc)
      BY <1>1 DEF Fresh
    <2>3. \A u : u \in j.closed <=> \E v \in PublishedOf(j.seen) : u = Update(j, v)
      BY <2>1 DEF Closing, ClosedAll
    <2>4. j.closed = {Update(j, v) : v \in PublishedOf(j.seen)}
      BY <2>3
    <2>5. j.closed = Closed(versions, j.doc, j.hash, j.parser, j.now)
      BY <2>2, <2>4 DEF Closed, Update
    <2> QED  BY <2>1, <2>5 DEF Closing
  <1>3. CASE ~j.existing
    <2>1. j.closed = {} /\ VersionsOf(versions, j.doc) = {}
      BY <1>1, <1>3 DEF JobSound, Fresh
    <2>2. Closed(versions, j.doc, j.hash, j.parser, clock) = {}
      BY <2>1 DEF Closed, PublishedOf
    <2> QED  BY <1>1, <2>1, <2>2
  <1> QED  BY <1>2, <1>3

LEMMA CommitEnacts ==
    ASSUME IInv, NEW w \in Workers, Commit(w), NEW j, j = work[w]
    PROVE  /\ j.doc \in Documents /\ j.hash \in Hashes /\ j.parser \in Parsers
           /\ Parsed[<<j.hash, j.parser>>].ok
           /\ ~HasVersion(versions, j.doc, j.hash, j.parser)
           /\ j.seen = VersionsOf(versions, j.doc)
           /\ \E now \in Times :
                /\ versions' = Enacted(versions, j.doc, j.hash, j.parser, now)
                /\ \A u \in Closed(versions, j.doc, j.hash, j.parser, now) : IntervalAccepted(u)
  <1>1. j \in Job /\ JobSound(j) /\ j.stage = "commit"
    BY DEF IInv, TypeOK, Commit, At
  <1>2. Fresh(j) /\ Parsed[<<j.hash, j.parser>>].ok
    BY <1>1 DEF JobSound, Publishing, Locking
  <1>3. versions' = Overlaid(versions, j.closed)
                       \cup {NewVersion(j.doc, j.seen, j.hash, j.parser)}
    BY DEF Commit, Visible, Added
  <1>4. PICK now \in Times :
            /\ j.closed = Closed(versions, j.doc, j.hash, j.parser, now)
            /\ \A u \in j.closed : IntervalAccepted(u)
    BY <1>1, FreshIsUpToDate
  <1>5. versions' = Enacted(versions, j.doc, j.hash, j.parser, now)
    BY <1>2, <1>3, <1>4 DEF Enacted, Fresh
  <1> QED  BY <1>1, <1>2, <1>4, <1>5 DEF Job, Fresh

LEMMA CommitHasHistory ==
    ASSUME IInv, NEW w \in Workers, Commit(w) PROVE HasHistory(versions')
  <1>1. HasHistory(versions)
    BY DEF IInv
  <1>2. PICK now \in Times :
          versions' = Enacted(versions, work[w].doc, work[w].hash, work[w].parser, now)
    BY CommitEnacts
  <1>3. work[w].doc \in Documents /\ work[w].hash \in Hashes /\ work[w].parser \in Parsers
    BY CommitEnacts
  <1>4. now \in Instant
    BY TimesAssumption
  <1> QED  BY <1>1, <1>2, <1>3, <1>4, EnactedHasHistory

\* Only a commit changes the versions.
LEMMA OnlyCommits ==
    ASSUME [Next]_vars
    PROVE  (\E w \in Workers : Commit(w)) \/ UNCHANGED versions
  BY DEF Next, Proceed, AskForReview, Publish, vars, database, Start, Archive, Assess,
         ReviewDocument, ReviewPlaceholder, ReviewList, ReviewSave, FindDocument,
         FindSame, ListVersions, Supersede, CheckOverlap, SaveDocument, InsertVersion,
         AcceptReviews, Abandon, Tick

LEMMA NextHasHistory ==
    ASSUME IInv, [Next]_vars PROVE HasHistory(versions')
  BY OnlyCommits, CommitHasHistory DEF IInv

(***************************************************************************)
(* A commit keeps every row under its key, adds one of the number that was *)
(* next, and touches no other document.                                    *)
(***************************************************************************)
LEMMA CommitRows ==
    ASSUME IInv, NEW w \in Workers, Commit(w), NEW d, d = work[w].doc
    PROVE  /\ \A v \in versions : \E u \in versions' : SameRow(u, v) /\ Preserved(v, u)
           /\ \E u \in versions' :
                u.doc = d /\ u.number = NextNumber(VersionsOf(versions, d))
           /\ \A v : v.doc # d => (v \in versions' <=> v \in versions)
  <1> DEFINE h == work[w].hash
             p == work[w].parser
  <1>1. d \in Documents /\ h \in Hashes /\ p \in Parsers
    BY CommitEnacts
  <1>2. PICK now \in Times : versions' = Enacted(versions, d, h, p, now)
    BY CommitEnacts
  <1>3. now \in Instant /\ HasHistory(versions)
    BY TimesAssumption DEF IInv
  <1> HIDE DEF h, p
  <1> DEFINE c   == Canonicalization(VersionsOf(versions, d), h, p)
             new == NewVersion(d, VersionsOf(versions, d), h, p)
  <1>4. \A r : r \in versions' <=>
             \/ r \in versions /\ ~(r.doc = d /\ r.status = "PUBLISHED")
             \/ \E v \in versions :
                  v.doc = d /\ v.status = "PUBLISHED" /\ r = Superseded(v, c, now)
             \/ r = new
    BY <1>1, <1>2, <1>3, EnactedRows
  <1>5. new.doc = d /\ new.number = NextNumber(VersionsOf(versions, d))
    BY <1>1, <1>3, NewVersionRow
  <1>6. \A v \in versions :
            /\ SameRow(Superseded(v, c, now), v)
            /\ v.status = "PUBLISHED" => Preserved(v, Superseded(v, c, now))
    BY <1>3, SupersededRow, CanonicalizationIsBoolean DEF HasHistory, SameRow, Preserved
  <1> HIDE DEF c, new
  <1>7. ASSUME NEW v \in versions
        PROVE  \E u \in versions' : SameRow(u, v) /\ Preserved(v, u)
    BY <1>4, <1>6 DEF SameRow, Preserved
  <1>8. ASSUME NEW v, v.doc # d PROVE v \in versions' <=> v \in versions
    BY <1>4, <1>5, <1>6, <1>8 DEF SameRow
  <1> QED  BY <1>4, <1>5, <1>7, <1>8

-----------------------------------------------------------------------------
(***************************************************************************)
(* The status of a document follows its versions.                          *)
(***************************************************************************)
LEMMA OnlyCommitsAndPlaceholders ==
    ASSUME [Next]_vars
    PROVE  \/ \E w \in Workers : Commit(w) \/ ReviewPlaceholder(w)
           \/ UNCHANGED <<docs, versions>>
  BY DEF Next, Proceed, AskForReview, Publish, vars, database, Start, Archive, Assess,
         ReviewDocument, ReviewList, ReviewSave, FindDocument,
         FindSame, ListVersions, Supersede, CheckOverlap, SaveDocument, InsertVersion,
         AcceptReviews, Abandon, Tick

LEMMA NextInForce ==
    ASSUME IInv, [Next]_vars PROVE InForceMeansPublished'
  <1> USE DEF InForceMeansPublished, VersionsOf
  <1>1. ASSUME NEW w \in Workers, Commit(w) PROVE InForceMeansPublished'
    <2> DEFINE d == work[w].doc
    <2>1. docs' = [docs EXCEPT ![d] = "IN_FORCE"] /\ docs \in [Documents -> DocStatus]
      BY <1>1 DEF Commit, IInv, TypeOK
    <2>2. (\E u \in versions' : u.doc = d)
          /\ \A v : v.doc # d => (v \in versions' <=> v \in versions)
      BY <1>1, CommitRows
    <2> HIDE DEF d
    <2>3. ASSUME NEW e \in Documents PROVE docs'[e] = "IN_FORCE" <=> {v \in versions' : v.doc = e} # {}
      <3>1. CASE e = d
        BY <2>1, <2>2, <3>1
      <3>2. CASE e # d
        <4>1. {v \in versions' : v.doc = e} = {v \in versions : v.doc = e}
          BY <2>2, <3>2
        <4> QED  BY <2>1, <3>2, <4>1 DEF IInv
      <3> QED  BY <3>1, <3>2
    <2> QED  BY <2>3
  <1>2. ASSUME NEW w \in Workers, ReviewPlaceholder(w) PROVE InForceMeansPublished'
    <2>1. UNCHANGED versions
      BY <1>2 DEF ReviewPlaceholder
    <2>2. \A e \in Documents : docs'[e] = "IN_FORCE" <=> docs[e] = "IN_FORCE"
      BY <1>2 DEF ReviewPlaceholder, IInv, TypeOK, Absent
    <2> QED  BY <2>1, <2>2 DEF IInv
  <1>3. CASE UNCHANGED <<docs, versions>>
    BY <1>3 DEF IInv
  <1> QED  BY <1>1, <1>2, <1>3, OnlyCommitsAndPlaceholders

(***************************************************************************)
(* A worker that enters a Locking stage has found the row free; no step    *)
(* changes the document a worker in such a stage is working on.            *)
(***************************************************************************)
LEMMA EntersLocking ==
    ASSUME TypeOK, [Next]_vars, NEW w \in Workers, work'[w].stage \in Locking
    PROVE  \/ work[w].stage \in Locking /\ work'[w].doc = work[w].doc
           \/ /\ SaveDocument(w) /\ ~DocumentLocked(w, work[w].doc)
              /\ work'[w].doc = work[w].doc
              /\ \A x \in Workers \ {w} : work'[x] = work[x]
  <1> USE IdleIsJob DEF TypeOK, Locking
  <1>1. ASSUME NEW x \in Workers, NEW d \in Documents, NEW h \in Hashes,
               NEW p \in Parsers, NEW dry \in BOOLEAN, Start(x, d, h, p, dry)
        PROVE  work[w].stage \in Locking /\ work'[w].doc = work[w].doc
    BY <1>1 DEF Start, NewJob
  <1> DEFINE Stays == work[w].stage \in Locking /\ work'[w].doc = work[w].doc
  <1>2. ASSUME NEW x \in Workers, Finish(x) PROVE Stays
    BY <1>2 DEF Finish
  <1>3. ASSUME NEW x \in Workers, NEW s, Goto(x, s),
               s \in Locking => work[x].stage \in Locking
        PROVE  Stays
    BY <1>3 DEF Goto, Job
  <1>4. ASSUME NEW x \in Workers, Archive(x) \/ Assess(x) \/ Abandon(x) PROVE Stays
    BY <1>2, <1>3, <1>4 DEF Archive, Assess, Abandon
  <1>5. ASSUME NEW x \in Workers, AskForReview(x) PROVE Stays
    <2>1. CASE ReviewDocument(x) \/ ReviewPlaceholder(x) \/ ReviewSave(x)
      BY <1>2, <1>3, <2>1 DEF ReviewDocument, ReviewPlaceholder, ReviewSave
    <2>2. CASE ReviewList(x)
      BY <2>2 DEF ReviewList, Job
    <2> QED  BY <1>5, <2>1, <2>2 DEF AskForReview
  <1>6. ASSUME NEW x \in Workers, Publish(x), ~SaveDocument(x) PROVE Stays
    <2>1. CASE FindDocument(x)
      <3>1. CASE work' = [work EXCEPT ![x].stage = "findSame", ![x].existing = TRUE]
        BY <3>1 DEF Job
      <3>2. CASE Goto(x, "saveDocument")
        BY <1>3, <3>2
      <3> QED  BY <2>1, <3>1, <3>2 DEF FindDocument
    <2>2. CASE FindSame(x) \/ CheckOverlap(x)
      BY <1>2, <1>3, <2>2 DEF FindSame, CheckOverlap
    <2>3. CASE ListVersions(x)
      BY <2>3 DEF ListVersions, Job
    <2>4. CASE Supersede(x)
      <3>1. PICK u : \/ Finish(x)
                     \/ work' = [work EXCEPT ![x].closed = @ \cup {u}]
        BY <2>4 DEF Supersede
      <3>2. CASE work' = [work EXCEPT ![x].closed = @ \cup {u}]
        BY <3>2 DEF Job
      <3> QED  BY <1>2, <3>1, <3>2
    <2>5. CASE InsertVersion(x)
      BY <1>2, <1>3, <2>5 DEF InsertVersion, At
    <2>6. CASE AcceptReviews(x)
      BY <2>6 DEF AcceptReviews, At, Job
    <2>7. CASE Commit(x)
      BY <1>2, <2>7 DEF Commit
    <2> QED  BY <1>6, <2>1, <2>2, <2>3, <2>4, <2>5, <2>6, <2>7 DEF Publish
  <1>7. ASSUME NEW x \in Workers, SaveDocument(x)
        PROVE  \/ Stays
               \/ /\ x = w /\ ~DocumentLocked(w, work[w].doc)
                  /\ work'[w].doc = work[w].doc
                  /\ \A y \in Workers \ {w} : work'[y] = work[y]
    <2>1. CASE Finish(x)
      BY <1>2, <2>1
    <2>2. CASE Goto(x, "insertVersion") /\ ~DocumentLocked(x, work[x].doc)
      <3>1. CASE x = w
        BY <2>2, <3>1 DEF Goto, Job
      <3>2. CASE x # w
        BY <2>2, <3>2 DEF Goto, Job
      <3> QED  BY <3>1, <3>2
    <2> QED  BY <1>7, <2>1, <2>2 DEF SaveDocument
  <1>8. CASE Tick \/ UNCHANGED vars
    BY <1>8 DEF Tick, vars
  <1> QED  BY <1>1, <1>4, <1>5, <1>6, <1>7, <1>8 DEF Next, Proceed

LEMMA NextExclusive ==
    ASSUME IInv, [Next]_vars PROVE Exclusive'
  <1> SUFFICES ASSUME NEW w \in Workers, NEW x \in Workers,
                      work'[w].stage \in Locking, work'[x].stage \in Locking,
                      work'[w].doc = work'[x].doc, w # x
               PROVE  FALSE
    BY DEF Exclusive
  <1>1. CASE work[w].stage \in Locking /\ work[x].stage \in Locking
              /\ work'[w].doc = work[w].doc /\ work'[x].doc = work[x].doc
    BY <1>1 DEF IInv, Exclusive
  <1>2. ASSUME NEW y \in Workers, NEW z \in Workers, y # z,
               work'[z].stage \in Locking, work'[y].doc = work'[z].doc,
               ~DocumentLocked(y, work[y].doc), work'[y].doc = work[y].doc,
               \A u \in Workers \ {y} : work'[u] = work[u]
        PROVE  FALSE
    BY <1>2 DEF DocumentLocked
  <1> QED  BY <1>1, <1>2, EntersLocking DEF IInv

-----------------------------------------------------------------------------
(***************************************************************************)
(* The jobs of the workers that do not take the step.                      *)
(***************************************************************************)
LEMMA OthersStaySound ==
    ASSUME IInv, [Next]_vars, NEW x \in Workers, work'[x] = work[x], ~Commit(x),
           ~ReviewPlaceholder(x), NEW j, j = work[x]
    PROVE  JobSound(j)'
  <1>0. j \in Job /\ JobSound(j) /\ docs \in [Documents -> DocStatus]
    BY DEF IInv, TypeOK
  <1>1. CASE UNCHANGED <<docs, versions>>
    BY <1>0, <1>1 DEF JobSound, Listed, Closing, ClosedAll, Fresh, Update
  <1>2. ASSUME NEW w \in Workers, ReviewPlaceholder(w), x # w PROVE JobSound(j)'
    <2>1. UNCHANGED versions
      BY <1>2 DEF ReviewPlaceholder
    <2>2. docs[j.doc] # Absent => docs'[j.doc] # Absent
      BY <1>0, <1>2 DEF ReviewPlaceholder, Absent, Job
    <2>3. (j.stage \in Locking /\ ~j.existing) => docs'[j.doc] = docs[j.doc]
      BY <1>0, <1>2 DEF ReviewPlaceholder, InsertPending, Job
    <2> QED
      BY <1>0, <2>1, <2>2, <2>3 DEF JobSound, Listed, Closing, ClosedAll, Fresh, Update
  <1>3. ASSUME NEW w \in Workers, Commit(w), x # w PROVE JobSound(j)'
    <2> DEFINE d == work[w].doc
    <2>1. docs' = [docs EXCEPT ![d] = "IN_FORCE"]
      BY <1>3 DEF Commit
    <2>2. docs[j.doc] # Absent => docs'[j.doc] # Absent
      BY <1>0, <2>1 DEF Absent, Job
    <2>3. j.stage \in Locking => j.doc # d
      BY <1>3 DEF IInv, Exclusive, Commit, At, Locking
    <2>4. (j.stage \in Locking /\ ~j.existing) => docs'[j.doc] = docs[j.doc]
      BY <1>0, <2>1, <2>3 DEF Job
    <2>5. /\ \A v \in versions : \E u \in versions' : SameRow(u, v)
          /\ \E u \in versions' :
                u.doc = d /\ u.number = NextNumber(VersionsOf(versions, d))
          /\ \A v : v.doc # d => (v \in versions' <=> v \in versions)
      BY <1>3, CommitRows
    <2> HIDE DEF d
    <2>6. j.doc # d => VersionsOf(versions', j.doc) = VersionsOf(versions, j.doc)
      BY <2>5 DEF VersionsOf
    <2>7. Listed(j) => Listed(j)'
      <3>1. CASE j.seen = VersionsOf(versions, j.doc) /\ j.doc # d
        BY <2>6, <3>1 DEF Listed
      <3>2. CASE j.seen = VersionsOf(versions, j.doc) /\ j.doc = d
        BY <2>5, <3>2 DEF Listed
      <3>3. CASE \E v \in versions : v.doc = j.doc /\ v.number = NextNumber(j.seen)
        BY <2>5, <3>3 DEF Listed, SameRow
      <3> QED  BY <3>1, <3>2, <3>3 DEF Listed
    <2>8. j.stage \in {"acceptReviews", "commit"} => Fresh(j)'
      <3> SUFFICES ASSUME j.stage \in {"acceptReviews", "commit"} PROVE Fresh(j)'
        OBVIOUS
      <3>1. j.doc # d /\ Fresh(j)
        BY <1>0, <2>3 DEF JobSound, Locking
      <3>2. ~HasVersion(versions', j.doc, j.hash, j.parser)
        BY <2>5, <3>1 DEF Fresh, HasVersion
      <3> QED  BY <2>6, <3>1, <3>2 DEF Fresh
    <2>9. (Closing(j) => Closing(j)') /\ (ClosedAll(j) => ClosedAll(j)')
      BY DEF Closing, ClosedAll, Update
    <2> QED
      BY <1>0, <2>2, <2>4, <2>7, <2>8, <2>9 DEF JobSound
  <1> QED  BY <1>1, <1>2, <1>3, OnlyCommitsAndPlaceholders

-----------------------------------------------------------------------------
(***************************************************************************)
(* The job of the worker that takes the step.                              *)
(***************************************************************************)

\* Once nothing is left to supersede, everything that was published is closed.
LEMMA NothingLeft ==
    ASSUME NEW j \in Job, Listed(j), Closing(j), ToSupersede(j) = {}
    PROVE  ClosedAll(j)
  <1> SUFFICES ASSUME NEW v \in PublishedOf(j.seen) PROVE Update(j, v) \in j.closed
    BY DEF ClosedAll
  <1>1. PICK u \in j.closed : SameRow(u, v)
    BY DEF ToSupersede
  <1>2. PICK x \in PublishedOf(j.seen) : u = Update(j, x)
    BY DEF Closing
  <1>3. x \in Version /\ x \in j.seen /\ v \in j.seen /\ j.now \in Instant
    BY DEF PublishedOf, Job
  <1>4. SameRow(x, v)
    BY <1>1, <1>2, <1>3, SupersededRow, CanonicalizationIsBoolean DEF Update, SameRow
  <1>5. x = v
    BY <1>3, <1>4 DEF Listed, Keyed
  <1> QED  BY <1>2, <1>5

(***************************************************************************)
(* The unique keys see a stale list: had another version been committed    *)
(* since, the number would be taken; and a version of the same bytes and   *)
(* build would be seen, even one the transaction is superseding.           *)
(***************************************************************************)
LEMMA AllowedIsFresh ==
    ASSUME IInv, NEW w \in Workers, work[w].stage = "insertVersion",
           NEW j, j = work[w], ConstraintsAllow(Visible(j), Added(j))
    PROVE  Fresh(j)
  <1>0. j \in Job /\ JobSound(j) /\ HasHistory(versions)
    BY DEF IInv, TypeOK
  <1>1. Added(j).doc = j.doc /\ Added(j).number = NextNumber(j.seen)
        /\ Added(j).hash = j.hash /\ Added(j).parser = j.parser
    BY DEF Added, NewVersion
  <1>2. \A v \in versions : \E u \in Visible(j) : SameRow(u, v)
    BY DEF Visible, Overlaid, SameRow
  <1>3. \A u \in Visible(j) : ~SameRow(u, Added(j))
    BY DEF ConstraintsAllow
  <1>4. ~\E v \in versions : v.doc = j.doc /\ v.number = NextNumber(j.seen)
    BY <1>1, <1>2, <1>3 DEF SameRow
  <1>5. j.seen = VersionsOf(versions, j.doc)
    <2>1. CASE j.existing
      BY <1>0, <1>4, <2>1 DEF JobSound, Saving, Locking, Listed
    <2>2. CASE ~j.existing
      <3>1. j.seen = {} /\ docs[j.doc] = Absent
        BY <1>0, <2>2 DEF JobSound, Saving, Locking
      <3>2. VersionsOf(versions, j.doc) = {}
        BY <1>0, <3>1 DEF IInv, InForceMeansPublished, Absent, Job
      <3> QED  BY <3>1, <3>2
    <2> QED  BY <2>1, <2>2
  <1>6. \A u \in j.closed : \E v \in versions :
            SameRow(u, v) /\ u.hash = v.hash /\ u.parser = v.parser
    <2> SUFFICES ASSUME NEW u \in j.closed
                 PROVE  \E v \in versions :
                            SameRow(u, v) /\ u.hash = v.hash /\ u.parser = v.parser
      OBVIOUS
    <2>1. j.existing
      BY <1>0 DEF JobSound, Saving, Locking
    <2>2. PICK v \in PublishedOf(j.seen) : u = Update(j, v)
      BY <1>0, <2>1 DEF JobSound, Saving, Locking, ClosedAll, Closing
    <2>3. v \in versions /\ v \in Version /\ j.now \in Instant
      BY <1>0, <1>5, <2>2 DEF PublishedOf, VersionsOf, Job
    <2> QED
      BY <2>2, <2>3, SupersededRow, CanonicalizationIsBoolean DEF Update, SameRow
  <1>7. ASSUME NEW v \in versions, v.doc = j.doc, v.hash = j.hash, v.parser = j.parser
        PROVE  FALSE
    <2>1. v \notin Visible(j)
      BY <1>1, <1>7 DEF ConstraintsAllow, HasVersion
    <2>2. PICK u \in j.closed : SameRow(u, v)
      BY <2>1 DEF Visible, Overlaid
    <2>3. PICK x \in versions : SameRow(u, x) /\ u.hash = x.hash /\ u.parser = x.parser
      BY <1>6
    <2>4. x = v
      <3>1. SameRow(x, v) /\ Keyed(versions)
        BY <1>0, <2>2, <2>3 DEF SameRow, HasHistory
      <3> QED  BY <1>7, <2>3, <3>1 DEF Keyed
    <2>5. u \in Visible(j) /\ u.doc = j.doc /\ u.hash = j.hash /\ u.parser = j.parser
      BY <1>7, <2>2, <2>3, <2>4 DEF Visible, Overlaid, SameRow
    <2> QED  BY <1>1, <2>5 DEF ConstraintsAllow, HasVersion
  <1> QED  BY <1>5, <1>7 DEF Fresh, HasVersion

LEMMA PublishIsSound ==
    ASSUME IInv, NEW w \in Workers, Publish(w), ~Commit(w)
    PROVE  JobSound(work'[w])
  <1> DEFINE j == work[w]
  <1>0. j \in Job /\ JobSound(j) /\ work \in [Workers -> Job] /\ clock \in Times
    BY DEF IInv, TypeOK
  <1>1. ASSUME Finish(w) PROVE JobSound(work'[w])
    BY <1>0, <1>1, IdleIsJob, IdleIsSound DEF Finish
  <1>2. CASE FindDocument(w)
    <2>1. CASE docs[j.doc] # Absent
      <3>1. work'[w] = [j EXCEPT !.stage = "findSame", !.existing = TRUE]
        BY <1>0, <1>2, <2>1 DEF FindDocument
      <3> QED
        BY <1>0, <1>2, <2>1, <3>1
        DEF FindDocument, At, Job, JobSound, Publishing, Locking, Saving, Early
    <2>2. CASE docs[j.doc] = Absent
      <3>1. work'[w] = [j EXCEPT !.stage = "saveDocument"]
        BY <1>0, <1>2, <2>2 DEF FindDocument, Goto
      <3> QED
        BY <1>0, <1>2, <3>1
        DEF FindDocument, At, Job, JobSound, Publishing, Locking, Saving, Early
    <2> QED  BY <2>1, <2>2
  <1>3. CASE FindSame(w)
    <2>1. CASE Goto(w, "listVersions")
      <3>1. work'[w] = [j EXCEPT !.stage = "listVersions"]
        BY <1>0, <2>1 DEF Goto
      <3> QED
        BY <1>0, <1>3, <3>1
        DEF FindSame, At, Job, JobSound, Publishing, Locking, Saving, Early
    <2> QED  BY <1>1, <1>3, <2>1 DEF FindSame
  <1>4. CASE ListVersions(w)
    <2>1. work'[w] = [j EXCEPT !.stage = "supersede", !.now = clock,
                               !.seen = VersionsOf(versions, j.doc)]
      BY <1>0, <1>4 DEF ListVersions
    <2>2. /\ work'[w].stage = "supersede" /\ work'[w].closed = {}
          /\ work'[w].seen = VersionsOf(versions, j.doc) /\ work'[w].now = clock
          /\ work'[w].doc = j.doc /\ work'[w].existing = j.existing
          /\ work'[w].hash = j.hash /\ work'[w].parser = j.parser
      BY <1>0, <1>4, <2>1 DEF ListVersions, At, Job, JobSound
    <2>3. Keyed(VersionsOf(versions, j.doc))
      BY DEF IInv, HasHistory, Keyed, VersionsOf
    <2>4. Listed(work'[w]) /\ Closing(work'[w])
      BY <1>0, <2>2, <2>3 DEF Listed, Closing, VersionsOf
    <2> QED
      BY <1>0, <1>4, <2>2, <2>4
      DEF ListVersions, At, JobSound, Publishing, Locking, Saving, Early
  <1>5. CASE Supersede(w)
    <2>0. Listed(j) /\ Closing(j) /\ j.stage = "supersede"
      BY <1>0, <1>5 DEF Supersede, At, JobSound
    <2>1. PICK v \in ToSupersede(j) :
            \/ Finish(w)
            \/ /\ IntervalAccepted(Update(j, v))
               /\ work' = [work EXCEPT ![w].closed = @ \cup {Update(j, v)}]
      BY <1>5 DEF Supersede, Update
    <2>2. CASE /\ IntervalAccepted(Update(j, v))
               /\ work' = [work EXCEPT ![w].closed = @ \cup {Update(j, v)}]
      <3>1. work'[w] = [j EXCEPT !.closed = @ \cup {Update(j, v)}]
        BY <1>0, <2>2
      <3> HIDE DEF j
      <3> DEFINE k == work'[w]
      <3>2. /\ k.stage = "supersede" /\ k.closed = j.closed \cup {Update(j, v)}
            /\ k.seen = j.seen /\ k.now = j.now /\ k.doc = j.doc
            /\ k.existing = j.existing /\ k.hash = j.hash /\ k.parser = j.parser
        BY <1>0, <2>0, <3>1 DEF Job
      <3> HIDE DEF k
      <3>3. \A x : Update(k, x) = Update(j, x)
        BY <3>2 DEF Update
      <3>4. v \in PublishedOf(k.seen)
        BY <2>1, <3>2 DEF ToSupersede
      <3>5. Closing(k)
        BY <2>0, <2>2, <3>2, <3>3, <3>4 DEF Closing
      <3>6. Listed(k)
        BY <2>0, <3>2 DEF Listed
      <3>7. JobSound(k)
        BY <1>0, <2>0, <3>2, <3>5, <3>6
        DEF JobSound, Publishing, Locking, Saving, Early
      <3> QED  BY <3>7 DEF k
    <2> QED  BY <1>1, <2>1, <2>2
  <1>6. CASE CheckOverlap(w)
    <2>1. CASE Goto(w, "saveDocument")
      <3>1. work'[w] = [j EXCEPT !.stage = "saveDocument"]
        BY <1>0, <2>1 DEF Goto
      <3>2. Listed(j) /\ ClosedAll(j) /\ j.existing /\ j.stage = "supersede"
        BY <1>0, <1>6, NothingLeft DEF CheckOverlap, At, JobSound
      <3>3. Listed(work'[w]) /\ ClosedAll(work'[w])
        BY <1>0, <3>1, <3>2 DEF Listed, ClosedAll, Closing, Update, Job
      <3> QED
        BY <1>0, <3>1, <3>2, <3>3
        DEF Job, JobSound, Publishing, Locking, Saving, Early
    <2> QED  BY <1>1, <1>6, <2>1 DEF CheckOverlap
  <1>7. CASE SaveDocument(w)
    <2>1. CASE Goto(w, "insertVersion") /\ (j.existing \/ docs[j.doc] = Absent)
      <3>1. work'[w] = [j EXCEPT !.stage = "insertVersion"] /\ j.stage = "saveDocument"
        BY <1>0, <1>7, <2>1 DEF Goto, SaveDocument, At
      <3>2. j.existing => Listed(work'[w]) /\ ClosedAll(work'[w])
        BY <1>0, <3>1 DEF Listed, ClosedAll, Closing, Update, Job, JobSound, Saving
      <3> QED
        BY <1>0, <2>1, <3>1, <3>2
        DEF Job, JobSound, Publishing, Locking, Saving, Early
    <2> QED  BY <1>1, <1>7, <2>1 DEF SaveDocument
  <1>8. CASE InsertVersion(w)
    <2>1. CASE Goto(w, "acceptReviews") /\ ConstraintsAllow(Visible(j), Added(j))
      <3>1. work'[w] = [j EXCEPT !.stage = "acceptReviews"] /\ j.stage = "insertVersion"
        BY <1>0, <1>8, <2>1 DEF Goto, InsertVersion, At
      <3>2. j.existing => Listed(work'[w]) /\ ClosedAll(work'[w])
        BY <1>0, <3>1
        DEF Listed, ClosedAll, Closing, Update, Job, JobSound, Saving, Locking
      <3>3. Fresh(j)
        BY <2>1, <3>1, AllowedIsFresh
      <3>4. Fresh(work'[w])
        BY <1>0, <3>1, <3>3 DEF Fresh, Job
      <3> QED
        BY <1>0, <3>1, <3>2, <3>4
        DEF Job, JobSound, Publishing, Locking, Saving, Early
    <2> QED  BY <1>1, <1>8, <2>1 DEF InsertVersion
  <1>9. CASE AcceptReviews(w)
    <2>1. PICK ks : work'[w] = [j EXCEPT !.stage = "commit", !.pending = ks]
      BY <1>0, <1>9 DEF AcceptReviews
    <2>2. j.stage = "acceptReviews"
      BY <1>9 DEF AcceptReviews, At
    <2> HIDE DEF j
    <2> DEFINE k == work'[w]
    <2>3. /\ k.stage = "commit" /\ k.closed = j.closed
          /\ k.seen = j.seen /\ k.now = j.now /\ k.doc = j.doc
          /\ k.existing = j.existing /\ k.hash = j.hash /\ k.parser = j.parser
      BY <1>0, <2>1 DEF Job
    <2> HIDE DEF k
    <2>4. j.existing => Listed(k) /\ ClosedAll(k)
      BY <1>0, <2>2, <2>3
      DEF Listed, ClosedAll, Closing, Update, JobSound, Saving, Locking
    <2>5. Fresh(k)
      BY <1>0, <2>2, <2>3 DEF Fresh, JobSound
    <2>6. JobSound(k)
      BY <1>0, <2>2, <2>3, <2>4, <2>5
      DEF JobSound, Publishing, Locking, Saving, Early
    <2> QED  BY <2>6 DEF k
  <1> QED
    BY <1>2, <1>3, <1>4, <1>5, <1>6, <1>7, <1>8, <1>9 DEF Publish

(***************************************************************************)
(* Every other step of a worker leaves it a job that promises nothing, or  *)
(* moves it on with nothing read yet.                                      *)
(***************************************************************************)
LEMMA ReviewStages ==
    ASSUME TypeOK, NEW w \in Workers, AskForReview(w)
    PROVE  work'[w].stage \in {"idle"} \cup Reviewing
  BY IdleIsJob
  DEF TypeOK, Job, AskForReview, ReviewDocument, ReviewPlaceholder, ReviewList,
      ReviewSave, Goto, Finish, Reviewing

LEMMA StepIsSound ==
    ASSUME IInv, [Next]_vars, NEW w \in Workers
    PROVE  \/ JobSound(work[w])'
           \/ work'[w] = work[w] /\ ~Commit(w) /\ ~ReviewPlaceholder(w)
  <1> DEFINE Done == JobSound(work[w])'
             Rest == work'[w] = work[w] /\ ~Commit(w) /\ ~ReviewPlaceholder(w)
  <1>0. work \in [Workers -> Job] /\ JobSound(work[w]) /\ work[w] \in Job
    BY DEF IInv, TypeOK
  <1>1. ASSUME UNCHANGED <<docs, versions>>, JobSound(work'[w]) PROVE Done
    BY <1>1 DEF JobSound, Listed, Closing, ClosedAll, Fresh, Update
  <1>2. ASSUME Finish(w) PROVE Done
    <2>1. work'[w].stage = "idle"
      BY <1>0, <1>2, IdleIsJob DEF Finish
    <2> QED  BY <2>1 DEF JobSound, Publishing, Locking, Early, Saving
  <1>3. ASSUME NEW x \in Workers, x # w,
               \/ \E d \in Documents, h \in Hashes, p \in Parsers, dry \in BOOLEAN :
                    Start(x, d, h, p, dry)
               \/ Proceed(x) \/ Abandon(x)
        PROVE  work'[w] = work[w]
    <2>1. \E k : work' = [work EXCEPT ![x] = k]
      <3>1. ASSUME Finish(x) \/ \E s : Goto(x, s)
            PROVE  \E k : work' = [work EXCEPT ![x] = k]
        BY <3>1 DEF Finish, Goto
      <3>2. CASE \E d \in Documents, h \in Hashes, p \in Parsers, dry \in BOOLEAN :
                    Start(x, d, h, p, dry)
        BY <3>2 DEF Start
      <3>3. CASE Archive(x) \/ Assess(x) \/ Abandon(x)
        BY <3>1, <3>3 DEF Archive, Assess, Abandon
      <3>4. CASE AskForReview(x)
        <4>1. CASE ReviewDocument(x) \/ ReviewPlaceholder(x) \/ ReviewSave(x)
          BY <3>1, <4>1 DEF ReviewDocument, ReviewPlaceholder, ReviewSave
        <4>2. CASE ReviewList(x)
          BY <4>2 DEF ReviewList
        <4> QED  BY <3>4, <4>1, <4>2 DEF AskForReview
      <3>5. CASE Publish(x)
        <4>1. CASE FindSame(x) \/ CheckOverlap(x) \/ SaveDocument(x) \/ InsertVersion(x)
                   \/ Commit(x)
          BY <3>1, <4>1 DEF FindSame, CheckOverlap, SaveDocument, InsertVersion, Commit
        <4>2. CASE FindDocument(x) \/ ListVersions(x) \/ Supersede(x) \/ AcceptReviews(x)
          BY <3>1, <4>2 DEF FindDocument, ListVersions, Supersede, AcceptReviews
        <4> QED  BY <3>5, <4>1, <4>2 DEF Publish
      <3> QED  BY <1>3, <3>2, <3>3, <3>4, <3>5 DEF Proceed
    <2> QED  BY <1>0, <1>3, <2>1
  <1>4. ASSUME NEW d \in Documents, NEW h \in Hashes, NEW p \in Parsers,
               NEW dry \in BOOLEAN, Start(w, d, h, p, dry)
        PROVE  Done
    <2>1. work'[w] = NewJob(d, h, p, dry)
      BY <1>0, <1>4 DEF Start
    <2>2. /\ work'[w].stage = "archive" /\ ~work'[w].existing
          /\ work'[w].seen = {} /\ work'[w].closed = {}
      BY <2>1 DEF NewJob
    <2> QED  BY <2>2 DEF JobSound, Publishing, Locking, Early, Saving
  <1>5. ASSUME Archive(w) PROVE Done
    <2>1. work'[w] = [work[w] EXCEPT !.stage = "assess"] /\ work[w].stage = "archive"
      BY <1>0, <1>5 DEF Archive, Goto, At
    <2> QED
      BY <1>0, <2>1 DEF Job, JobSound, Publishing, Locking, Early, Saving
  <1>6. ASSUME Assess(w) PROVE Done
    <2>1. CASE Goto(w, "findOrCreate")
      <3>1. work'[w].stage = "findOrCreate"
        BY <1>0, <2>1 DEF Goto, Job
      <3> QED  BY <3>1 DEF JobSound, Publishing, Locking, Early, Saving
    <2>2. CASE Goto(w, "findDocument") /\ Parsed[<<work[w].hash, work[w].parser>>].ok
      <3>1. work'[w] = [work[w] EXCEPT !.stage = "findDocument"] /\ work[w].stage = "assess"
        BY <1>0, <1>6, <2>2 DEF Assess, Goto, At
      <3> QED
        BY <1>0, <2>2, <3>1 DEF Job, JobSound, Publishing, Locking, Early, Saving
    <2> QED  BY <1>2, <1>6, <2>1, <2>2 DEF Assess
  <1>7. ASSUME AskForReview(w) PROVE Done
    BY <1>7, ReviewStages
    DEF IInv, JobSound, Reviewing, Publishing, Locking, Early, Saving
  <1>8. ASSUME Publish(w), ~Commit(w) PROVE Done
    <2>1. UNCHANGED <<docs, versions>>
      BY <1>8 DEF Publish, FindDocument, FindSame, ListVersions, Supersede, CheckOverlap,
                  SaveDocument, InsertVersion, AcceptReviews, database
    <2>2. JobSound(work'[w])
      BY <1>8, PublishIsSound
    <2> QED  BY <1>1, <2>1, <2>2
  <1>9. ASSUME Commit(w) \/ Abandon(w) PROVE Done
    BY <1>2, <1>9 DEF Commit, Abandon
  <1>10. ASSUME UNCHANGED work PROVE Done \/ Rest
    <2>1. CASE Commit(w) \/ ReviewPlaceholder(w)
      BY <1>7, <1>9, <2>1 DEF AskForReview
    <2> QED  BY <1>10, <2>1
  <1>11. CASE Tick \/ UNCHANGED vars
    BY <1>10, <1>11 DEF Tick, vars
  <1>12. ASSUME NEW x \in Workers, x # w,
                \/ \E d \in Documents, h \in Hashes, p \in Parsers, dry \in BOOLEAN :
                     Start(x, d, h, p, dry)
                \/ Proceed(x) \/ Abandon(x)
         PROVE  Done \/ Rest
    BY <1>3, <1>7, <1>9, <1>12 DEF AskForReview
  <1> QED
    BY <1>4, <1>5, <1>6, <1>7, <1>8, <1>9, <1>11, <1>12 DEF Next, Proceed

-----------------------------------------------------------------------------
(***************************************************************************)
(* Types.  The versions are typed because they have a history; the other   *)
(* tables follow from the rows a commit writes.                            *)
(***************************************************************************)
LEMMA AddedIsVersion ==
    ASSUME IInv, NEW w \in Workers, work[w].stage \in {"acceptReviews", "commit"}
    PROVE  Added(work[w]) \in Version /\ Added(work[w]).number \in Nat
  <1>1. work[w] \in Job /\ work[w].seen = VersionsOf(versions, work[w].doc)
    BY DEF IInv, TypeOK, JobSound, Fresh
  <1>2. Added(work[w]) \in Version
    BY <1>1, NewVersionRow DEF IInv, Added, Job
  <1> QED  BY <1>2 DEF Version

\* A table whose rows of one version have been replaced.
Rewritten(rows, v, locators) ==
    {n \in rows : ~OfVersion(n, v)} \cup
    {[doc |-> v.doc, number |-> v.number, locator |-> l] : l \in locators}

(***************************************************************************)
(* What SaveTree leaves: the rows of other versions, and those of this     *)
(* one's parse.                                                            *)
(***************************************************************************)
LEMMA SaveTreeRows ==
    ASSUME NEW ns, NEW cs, NEW v, NEW tables,
           tables = SaveTree([nodes |-> ns, citations |-> cs], v),
           NEW tree, tree = Parsed[<<v.hash, v.parser>>].tree
    PROVE  /\ tables.nodes = Rewritten(ns, v, tree)
           /\ tables.citations = Rewritten(cs, v, tree \ {Root})
  <1> DEFINE added == {[doc |-> v.doc, number |-> v.number, locator |-> l] : l \in tree}
             t == ReplaceForVersion([nodes |-> ns, citations |-> cs], v)
  <1>1. /\ t.nodes = {n \in ns : ~OfVersion(n, v)} \cup added
        /\ t.citations = {c \in cs : ~OfVersion(c, v)}
        /\ t = [nodes |-> t.nodes, citations |-> t.citations]
    BY DEF ReplaceForVersion
  <1>2. tables = [t EXCEPT !.citations =
                      @ \cup {n \in t.nodes : OfVersion(n, v) /\ n.locator # Root}]
    BY DEF SaveTree, PublishCitations
  <1> HIDE DEF t
  <1>3. tables.nodes = t.nodes /\ tables.citations =
            t.citations \cup {n \in t.nodes : OfVersion(n, v) /\ n.locator # Root}
    BY <1>1, <1>2
  <1>4. {n \in t.nodes : OfVersion(n, v) /\ n.locator # Root}
            = {[doc |-> v.doc, number |-> v.number, locator |-> l] : l \in tree \ {Root}}
    BY <1>1 DEF OfVersion
  <1> QED  BY <1>1, <1>3, <1>4 DEF Rewritten

LEMMA SaveTreeType ==
    ASSUME NEW ns \in SUBSET NodeRow, NEW cs \in SUBSET NodeRow, NEW v \in Version,
           NEW tables, tables = SaveTree([nodes |-> ns, citations |-> cs], v)
    PROVE  tables.nodes \subseteq NodeRow /\ tables.citations \subseteq NodeRow
  <1> DEFINE tree == Parsed[<<v.hash, v.parser>>].tree
  <1>1. tree \subseteq Locators /\ v.doc \in Documents /\ v.number \in Nat
    BY ParsedAssumption DEF Version
  <1>2. /\ tables.nodes = Rewritten(ns, v, tree)
        /\ tables.citations = Rewritten(cs, v, tree \ {Root})
    BY SaveTreeRows
  <1> HIDE DEF tree
  <1> QED  BY <1>1, <1>2 DEF Rewritten, NodeRow

LEMMA NextTablesType ==
    ASSUME IInv, [Next]_vars
    PROVE  /\ docs' \in [Documents -> DocStatus]
           /\ nodes' \subseteq NodeRow /\ citations' \subseteq NodeRow
           /\ archives' \subseteq Hashes /\ clock' \in Times
  <1> DEFINE Typed == /\ docs' \in [Documents -> DocStatus]
                      /\ nodes' \subseteq NodeRow /\ citations' \subseteq NodeRow
                      /\ archives' \subseteq Hashes /\ clock' \in Times
  <1> USE DEF IInv, TypeOK
  <1>1. ASSUME NEW w \in Workers, Commit(w) PROVE Typed
    <2>1. Added(work[w]) \in Version
      BY <1>1, AddedIsVersion DEF Commit, At
    <2>2. nodes' \subseteq NodeRow /\ citations' \subseteq NodeRow
      BY <1>1, <2>1, SaveTreeType DEF Commit
    <2>3. docs' \in [Documents -> DocStatus]
      BY <1>1 DEF Commit, DocStatus
    <2> QED  BY <1>1, <2>2, <2>3 DEF Commit
  <1>2. ASSUME NEW w \in Workers, ReviewPlaceholder(w) PROVE Typed
    BY <1>2 DEF ReviewPlaceholder, DocStatus
  <1>3. ASSUME NEW w \in Workers, Archive(w) PROVE Typed
    BY <1>3 DEF Archive, Job
  <1>4. CASE Tick
    BY <1>4 DEF Tick, database
  <1>5. CASE UNCHANGED <<docs, nodes, citations, archives, clock>>
    BY <1>5
  <1>6. \/ \E w \in Workers : Commit(w) \/ ReviewPlaceholder(w) \/ Archive(w)
        \/ Tick \/ UNCHANGED <<docs, nodes, citations, archives, clock>>
    <2> DEFINE Same == UNCHANGED <<docs, nodes, citations, archives, clock>>
    <2>1. ASSUME NEW w \in Workers, Assess(w) \/ Abandon(w) PROVE Same
      BY <2>1 DEF Assess, Abandon, database
    <2>2. ASSUME NEW w \in Workers, ReviewDocument(w) \/ ReviewList(w) \/ ReviewSave(w)
          PROVE  Same
      BY <2>2 DEF ReviewDocument, ReviewList, ReviewSave, database
    <2>3. ASSUME NEW w \in Workers, Publish(w), ~Commit(w) PROVE Same
      BY <2>3 DEF Publish, FindDocument, FindSame, ListVersions, Supersede, CheckOverlap,
                  SaveDocument, InsertVersion, AcceptReviews, database
    <2>4. ASSUME NEW w \in Workers, NEW d \in Documents, NEW h \in Hashes, NEW p \in Parsers,
                 NEW dry \in BOOLEAN, Start(w, d, h, p, dry)
          PROVE  Same
      BY <2>4 DEF Start, database
    <2>5. CASE UNCHANGED vars
      BY <2>5 DEF vars
    <2> QED
      BY <2>1, <2>2, <2>3, <2>4, <2>5 DEF Next, Proceed, AskForReview
  <1> QED  BY <1>1, <1>2, <1>3, <1>4, <1>5, <1>6

LEMMA NextReviewsType ==
    ASSUME TypeOK, [Next]_vars PROVE reviews' \in [Documents -> Seq(Review)]
  <1> USE DEF TypeOK
  \* Rewriting the entries of a list of reviews gives a list of reviews.
  <1>0. ASSUME NEW s \in Seq(Review)
        PROVE  /\ \A f \in [DOMAIN s -> Review] : f \in Seq(Review)
               /\ \A k \in DOMAIN s : s[k] \in Review
    <2>1. s \in [1..Len(s) -> Review] /\ Len(s) \in Nat /\ DOMAIN s = 1..Len(s)
      BY LenProperties
    <2>2. ASSUME NEW f \in [DOMAIN s -> Review] PROVE f \in Seq(Review)
      <3>1. f \in [1..Len(s) -> Review]
        BY <2>1
      <3> QED  BY <2>1, <3>1, SeqDef
    <2>3. ASSUME NEW k \in DOMAIN s PROVE s[k] \in Review
      <3> HIDE DEF Review
      <3> QED  BY <2>1
    <2> QED  BY <2>2, <2>3
  <1>1. ASSUME NEW w \in Workers, Commit(w) PROVE reviews' \in [Documents -> Seq(Review)]
    <2> DEFINE s == reviews[work[w].doc]
               f == [k \in DOMAIN s |-> IF k \in work[w].pending
                                        THEN [s[k] EXCEPT !.status = "ACCEPTED"] ELSE s[k]]
    <2>1. s \in Seq(Review)
      BY DEF Job
    <2>2. ASSUME NEW k \in DOMAIN s
          PROVE  s[k] \in Review /\ [s[k] EXCEPT !.status = "ACCEPTED"] \in Review
      <3>1. s[k] \in Review
        BY <1>0, <2>1
      <3>2. ASSUME NEW r \in Review PROVE [r EXCEPT !.status = "ACCEPTED"] \in Review
        BY DEF Review
      <3> QED  BY <3>1, <3>2
    <2> HIDE DEF s
    <2>3. f \in [DOMAIN s -> Review]
      BY <2>2
    <2>4. f \in Seq(Review)
      BY <1>0, <2>1, <2>3
    <2>5. reviews' = [reviews EXCEPT ![work[w].doc] = f]
      BY <1>1 DEF Commit, s
    <2> HIDE DEF f
    <2> QED  BY <2>4, <2>5
  <1>2. ASSUME NEW w \in Workers, ReviewSave(w) PROVE reviews' \in [Documents -> Seq(Review)]
    <2> DEFINE j == work[w]
               s == reviews[j.doc]
               r == [hash |-> j.hash, status |-> "PENDING"]
               f == [k \in DOMAIN s |-> IF k \in j.pending THEN r ELSE s[k]]
    <2>1. s \in Seq(Review) /\ r \in Review
      BY DEF Job, Review
    <2> HIDE DEF s, r
    <2>2. f \in [DOMAIN s -> Review]
      BY <1>0, <2>1
    <2>3. f \in Seq(Review)
      BY <1>0, <2>1, <2>2
    <2>5. Append(s, r) \in Seq(Review)
      BY <2>1
    <2>4. reviews' = [reviews EXCEPT ![j.doc] = IF j.pending = {} THEN Append(s, r) ELSE f]
      BY <1>2 DEF ReviewSave, s, r
    <2> HIDE DEF f
    <2> QED  BY <2>3, <2>4, <2>5
  <1>3. (\E w \in Workers : Commit(w) \/ ReviewSave(w)) \/ UNCHANGED reviews
    BY DEF Next, Proceed, AskForReview, Publish, vars, database, Start, Archive, Assess,
           ReviewDocument, ReviewPlaceholder, ReviewList, FindDocument,
           FindSame, ListVersions, Supersede, CheckOverlap, SaveDocument, InsertVersion,
           AcceptReviews, Abandon, Tick
  <1> QED  BY <1>1, <1>2, <1>3

LEMMA NextWorkType ==
    ASSUME TypeOK, [Next]_vars PROVE work' \in [Workers -> Job]
  <1> USE DEF TypeOK
  <1>0. ASSUME NEW w \in Workers, NEW k \in Job, work' = [work EXCEPT ![w] = k]
        PROVE  work' \in [Workers -> Job]
    BY <1>0
  <1>1. ASSUME NEW w \in Workers, NEW s \in Stages, Goto(w, s)
        PROVE  work' \in [Workers -> Job]
    BY <1>1 DEF Goto, Job
  <1>2. ASSUME NEW w \in Workers, Finish(w) PROVE work' \in [Workers -> Job]
    BY <1>2, IdleIsJob DEF Finish
  <1>3. ASSUME NEW w \in Workers, Archive(w) \/ Assess(w) \/ Abandon(w)
        PROVE  work' \in [Workers -> Job]
    BY <1>1, <1>2, <1>3 DEF Archive, Assess, Abandon, Stages, Publishing, Reviewing
  <1>4. ASSUME NEW w \in Workers, AskForReview(w) PROVE work' \in [Workers -> Job]
    <2>1. CASE ReviewDocument(w) \/ ReviewPlaceholder(w) \/ ReviewSave(w)
      BY <1>1, <1>2, <2>1 DEF ReviewDocument, ReviewPlaceholder, ReviewSave, Stages, Reviewing
    <2>2. CASE ReviewList(w)
      <3>1. reviews[work[w].doc] \in Seq(Review)
        BY DEF Job
      <3>2. DOMAIN reviews[work[w].doc] \subseteq Nat
        BY <3>1
      <3>3. PICK ks \in SUBSET Nat :
                work' = [work EXCEPT ![w].stage = "saveReview", ![w].pending = ks]
        BY <2>2, <3>2 DEF ReviewList, PendingAt
      <3>4. [work[w] EXCEPT !.stage = "saveReview", !.pending = ks] \in Job
        BY DEF Job, Stages, Reviewing
      <3> QED  BY ONLY <1>0, <3>3, <3>4, Zenon
    <2> QED  BY <1>4, <2>1, <2>2 DEF AskForReview
  <1>5. ASSUME NEW w \in Workers, Publish(w) PROVE work' \in [Workers -> Job]
    <2> USE DEF Stages, Publishing, Locking
    <2>1. CASE FindSame(w) \/ CheckOverlap(w) \/ SaveDocument(w) \/ InsertVersion(w) \/ Commit(w)
      BY <1>1, <1>2, <2>1 DEF FindSame, CheckOverlap, SaveDocument, InsertVersion, Commit
    <2>2. CASE FindDocument(w)
      <3>1. [work[w] EXCEPT !.stage = "findSame", !.existing = TRUE] \in Job
        BY DEF Job
      <3>2. CASE work' = [work EXCEPT ![w].stage = "findSame", ![w].existing = TRUE]
        BY ONLY <1>0, <3>1, <3>2, Zenon
      <3> QED  BY <1>1, <2>2, <3>2 DEF FindDocument
    <2>3. CASE ListVersions(w)
      <3>1. VersionsOf(versions, work[w].doc) \in SUBSET Version /\ clock \in Instant
        BY TimesAssumption DEF VersionsOf
      <3>2. [work[w] EXCEPT !.stage = "supersede", !.seen = VersionsOf(versions, work[w].doc),
                            !.now = clock] \in Job
        BY <3>1 DEF Job
      <3>3. work' = [work EXCEPT ![w].stage = "supersede",
                                 ![w].seen = VersionsOf(versions, work[w].doc), ![w].now = clock]
        BY <2>3 DEF ListVersions
      <3>4. ASSUME NEW a, NEW b, NEW c
            PROVE  [work EXCEPT ![w].stage = a, ![w].seen = b, ![w].now = c]
                    = [work EXCEPT ![w] = [work[w] EXCEPT !.stage = a, !.seen = b, !.now = c]]
        OBVIOUS
      <3>5. work' = [work EXCEPT ![w] = [work[w] EXCEPT !.stage = "supersede",
                            !.seen = VersionsOf(versions, work[w].doc), !.now = clock]]
        BY <3>3, <3>4
      <3> QED  BY ONLY <1>0, <3>2, <3>5, Zenon
    <2>4. CASE Supersede(w)
      <3>1. PICK v \in ToSupersede(work[w]) :
              \/ Finish(w)
              \/ work' = [work EXCEPT ![w].closed = @ \cup {Update(work[w], v)}]
        BY <2>4 DEF Supersede, Update
      <3>2. v \in Version /\ work[w].now \in Instant
        BY DEF ToSupersede, PublishedOf, Job
      <3>3. Update(work[w], v) \in Version
        BY <3>2, SupersededRow, CanonicalizationIsBoolean DEF Update
      <3>4. [work[w] EXCEPT !.closed = @ \cup {Update(work[w], v)}] \in Job
        BY <3>3 DEF Job
      <3>5. CASE work' = [work EXCEPT ![w].closed = @ \cup {Update(work[w], v)}]
        BY ONLY <1>0, <3>4, <3>5, Zenon
      <3> QED  BY <1>2, <3>1, <3>5
    <2>5. CASE AcceptReviews(w)
      <3>1. reviews[work[w].doc] \in Seq(Review)
        BY DEF Job
      <3>2. DOMAIN reviews[work[w].doc] \subseteq Nat
        BY <3>1
      <3>3. PICK ks \in SUBSET Nat :
                work' = [work EXCEPT ![w].stage = "commit", ![w].pending = ks]
        BY <2>5, <3>2 DEF AcceptReviews, PendingAt
      <3>4. [work[w] EXCEPT !.stage = "commit", !.pending = ks] \in Job
        BY DEF Job
      <3> QED  BY ONLY <1>0, <3>3, <3>4, Zenon
    <2> QED  BY <1>5, <2>1, <2>2, <2>3, <2>4, <2>5 DEF Publish
  <1>6. ASSUME NEW w \in Workers, NEW d \in Documents, NEW h \in Hashes, NEW p \in Parsers,
               NEW dry \in BOOLEAN, Start(w, d, h, p, dry)
        PROVE  work' \in [Workers -> Job]
    BY <1>0, <1>6, NewJobType DEF Start
  <1>7. CASE Tick \/ UNCHANGED vars
    BY <1>7 DEF Tick, vars
  <1> QED  BY <1>3, <1>4, <1>5, <1>6, <1>7 DEF Next, Proceed

LEMMA NextType == ASSUME IInv, [Next]_vars PROVE TypeOK'
  <1>1. versions' \subseteq Version
    BY NextHasHistory DEF HasHistory
  <1> QED
    BY <1>1, NextTablesType, NextReviewsType, NextWorkType DEF IInv, TypeOK

LEMMA NextIInv == IInv /\ [Next]_vars => IInv'
  <1> SUFFICES ASSUME IInv, [Next]_vars PROVE IInv'
    OBVIOUS
  <1>1. TypeOK' /\ InForceMeansPublished' /\ Exclusive'
    BY NextType, NextInForce, NextExclusive
  <1>2. HasHistory(versions')
    BY NextHasHistory
  <1>3. ASSUME NEW w \in Workers PROVE JobSound(work[w])'
    <2>1. CASE work'[w] = work[w] /\ ~Commit(w) /\ ~ReviewPlaceholder(w)
      <3>1. PICK j : j = work[w]
        OBVIOUS
      <3>2. JobSound(j)'
        BY <2>1, <3>1, OthersStaySound
      <3>3. j = work'[w]
        BY <2>1, <3>1
      <3> QED  BY <3>2, <3>3
    <2> QED  BY <2>1, StepIsSound
  <1> QED  BY <1>1, <1>2, <1>3 DEF IInv

-----------------------------------------------------------------------------
(***************************************************************************)
(* The versions after a commit come from those before, under their key and *)
(* with their provenance, or are the one it adds under a number of its     *)
(* own.                                                                    *)
(***************************************************************************)
LEMMA CommitOrigins ==
    ASSUME IInv, NEW w \in Workers, Commit(w), NEW new, new = Added(work[w])
    PROVE  /\ new \in Version /\ new \in versions'
           /\ new.doc = work[w].doc /\ new.hash = work[w].hash /\ new.status = "PUBLISHED"
           /\ \A v \in versions : ~SameRow(v, new)
           /\ \A u \in versions' :
                u = new \/ \E v \in versions : Preserved(v, u)
           /\ \A u \in versions' :
                \/ u = new
                \/ u \in versions /\ ~(u.doc = work[w].doc /\ u.status = "PUBLISHED")
                \/ u.status = "SUPERSEDED"
  <1> DEFINE d == work[w].doc
             h == work[w].hash
             p == work[w].parser
  <1>1. /\ d \in Documents /\ h \in Hashes /\ p \in Parsers
        /\ work[w].seen = VersionsOf(versions, d)
    BY CommitEnacts
  <1>2. PICK now \in Times : versions' = Enacted(versions, d, h, p, now)
    BY CommitEnacts
  <1>3. now \in Instant /\ HasHistory(versions)
    BY TimesAssumption DEF IInv
  <1>4. new = NewVersion(d, VersionsOf(versions, d), h, p)
    BY <1>1 DEF Added
  <1> HIDE DEF d, h, p
  <1>5. /\ new \in Version /\ new.doc = d /\ new.hash = h /\ new.status = "PUBLISHED"
        /\ new.number = NextNumber(VersionsOf(versions, d))
    BY <1>1, <1>3, <1>4, NewVersionRow
  <1> DEFINE c == Canonicalization(VersionsOf(versions, d), h, p)
  <1>6. \A r : r \in versions' <=>
             \/ r \in versions /\ ~(r.doc = d /\ r.status = "PUBLISHED")
             \/ \E v \in versions :
                  v.doc = d /\ v.status = "PUBLISHED" /\ r = Superseded(v, c, now)
             \/ r = new
    BY <1>1, <1>2, <1>3, <1>4, EnactedRows
  <1>7. \A v \in versions :
            /\ v.status = "PUBLISHED" => Preserved(v, Superseded(v, c, now))
            /\ Superseded(v, c, now).status = "SUPERSEDED"
    BY <1>3, SupersededRow, CanonicalizationIsBoolean DEF HasHistory, SameRow, Preserved
  <1> HIDE DEF c
  <1>8. \A v \in versions : ~SameRow(v, new)
    <2>1. \A v \in versions : v.doc = d => v.number \in Nat /\ v.number < new.number
      BY <1>3, <1>5, NextNumberIsFresh DEF HasHistory, Version
    <2> QED  BY <1>5, <2>1 DEF SameRow
  <1>9. ASSUME NEW u \in versions', u # new PROVE \E v \in versions : Preserved(v, u)
    BY <1>6, <1>7, <1>9 DEF Preserved, SameRow
  <1>10. ASSUME NEW u \in versions'
         PROVE  \/ u = new
                \/ u \in versions /\ ~(u.doc = d /\ u.status = "PUBLISHED")
                \/ u.status = "SUPERSEDED"
    BY <1>6, <1>7
  <1> QED  BY <1>5, <1>6, <1>8, <1>9, <1>10 DEF d, h

\* The locators that the rows of a table have for a version.
LocatorsOf(rows, v) == {n.locator : n \in {m \in rows : OfVersion(m, v)}}

\* Writing the rows of one version leaves those of the others, and it exactly
\* the ones written.
LEMMA RewrittenRows ==
    ASSUME NEW rows, NEW v, NEW ls, NEW after, after = Rewritten(rows, v, ls)
    PROVE  /\ LocatorsOf(after, v) = ls
           /\ \A x : ~SameRow(x, v) => LocatorsOf(after, x) = LocatorsOf(rows, x)
           /\ \A n \in after : OfVersion(n, v) \/ n \in rows
  <1> DEFINE added == {[doc |-> v.doc, number |-> v.number, locator |-> l] : l \in ls}
  <1>1. {m \in after : OfVersion(m, v)} = added
    BY DEF OfVersion, Rewritten
  <1>2. ASSUME NEW x, ~SameRow(x, v)
        PROVE  {m \in after : OfVersion(m, x)} = {m \in rows : OfVersion(m, x)}
    BY <1>2 DEF OfVersion, SameRow, Rewritten
  <1>3. {n.locator : n \in added} = ls
    <2>1. ASSUME NEW l \in ls PROVE l \in {n.locator : n \in added}
      <3>1. [doc |-> v.doc, number |-> v.number, locator |-> l] \in added
        OBVIOUS
      <3>2. [doc |-> v.doc, number |-> v.number, locator |-> l].locator = l
        OBVIOUS
      <3> HIDE DEF added
      <3> QED  BY <3>1, <3>2
    <2>2. \A n \in added : n.locator \in ls
      OBVIOUS
    <2> QED  BY <2>1, <2>2
  <1>4. \A n \in after : OfVersion(n, v) \/ n \in rows
    BY DEF OfVersion, Rewritten
  <1> QED  BY <1>1, <1>2, <1>3, <1>4 DEF LocatorsOf

LEMMA SameRowSameRows ==
    ASSUME NEW u, NEW v, SameRow(u, v), NEW rows
    PROVE  /\ LocatorsOf(rows, u) = LocatorsOf(rows, v)
           /\ \A n : OfVersion(n, u) <=> OfVersion(n, v)
  BY DEF LocatorsOf, OfVersion, SameRow

\* EveryNodeIsCited, of any tables.
Tree(v) == Parsed[<<v.hash, v.parser>>].tree

Cited(vs, ns, cs) ==
    /\ \A v \in vs : LocatorsOf(ns, v) = Tree(v) /\ LocatorsOf(cs, v) = Tree(v) \ {Root}
    /\ \A n \in ns \cup cs : \E v \in vs : OfVersion(n, v)

LEMMA NextIsCited ==
    ASSUME IInv, EveryNodeIsCited, [Next]_vars PROVE EveryNodeIsCited'
  <1>0. /\ EveryNodeIsCited <=> Cited(versions, nodes, citations)
        /\ EveryNodeIsCited' <=> Cited(versions', nodes', citations')
    BY DEF EveryNodeIsCited, Cited, Tree, LocatorsOf
  <1>1. ASSUME NEW w \in Workers, Commit(w) PROVE Cited(versions', nodes', citations')
    <2> DEFINE new == Added(work[w])
    <2>1. /\ nodes' = Rewritten(nodes, new, Tree(new))
          /\ citations' = Rewritten(citations, new, Tree(new) \ {Root})
      <3>1. PICK tables :
                /\ tables = SaveTree([nodes |-> nodes, citations |-> citations], new)
                /\ nodes' = tables.nodes /\ citations' = tables.citations
        BY <1>1 DEF Commit
      <3>2. PICK tree : tree = Parsed[<<new.hash, new.parser>>].tree
        OBVIOUS
      <3> HIDE DEF new
      <3>3. /\ tables.nodes = Rewritten(nodes, new, tree)
            /\ tables.citations = Rewritten(citations, new, tree \ {Root})
        BY ONLY <3>1, <3>2, SaveTreeRows
      <3> QED  BY <3>1, <3>2, <3>3 DEF Tree
    <2>2. /\ new \in versions'
          /\ \A v \in versions : ~SameRow(v, new)
          /\ \A u \in versions' : u = new \/ \E v \in versions : Preserved(v, u)
      BY <1>1, CommitOrigins
    <2>3. \A v \in versions : \E u \in versions' : SameRow(u, v)
      BY <1>1, CommitRows
    <2> HIDE DEF new
    <2>4. /\ LocatorsOf(nodes', new) = Tree(new)
          /\ \A x : ~SameRow(x, new) => LocatorsOf(nodes', x) = LocatorsOf(nodes, x)
          /\ \A n \in nodes' : OfVersion(n, new) \/ n \in nodes
      BY <2>1, RewrittenRows
    <2>5. /\ LocatorsOf(citations', new) = Tree(new) \ {Root}
          /\ \A x : ~SameRow(x, new) => LocatorsOf(citations', x) = LocatorsOf(citations, x)
          /\ \A n \in citations' : OfVersion(n, new) \/ n \in citations
      BY <2>1, RewrittenRows
    <2>6. ASSUME NEW u \in versions'
          PROVE  LocatorsOf(nodes', u) = Tree(u) /\ LocatorsOf(citations', u) = Tree(u) \ {Root}
      <3>1. CASE u = new
        BY <2>4, <2>5, <3>1
      <3>2. ASSUME NEW v \in versions, Preserved(v, u)
            PROVE  LocatorsOf(nodes', u) = Tree(u) /\ LocatorsOf(citations', u) = Tree(u) \ {Root}
        <4>1. SameRow(u, v) /\ Tree(u) = Tree(v)
          BY <3>2 DEF Preserved, Tree
        <4>2. /\ LocatorsOf(nodes', u) = LocatorsOf(nodes', v)
              /\ LocatorsOf(citations', u) = LocatorsOf(citations', v)
          BY <4>1, SameRowSameRows
        <4>3. /\ LocatorsOf(nodes', v) = LocatorsOf(nodes, v)
              /\ LocatorsOf(citations', v) = LocatorsOf(citations, v)
          BY <2>2, <2>4, <2>5
        <4>4. LocatorsOf(nodes, v) = Tree(v) /\ LocatorsOf(citations, v) = Tree(v) \ {Root}
          BY <1>0 DEF Cited
        <4> QED  BY <4>1, <4>2, <4>3, <4>4
      <3> QED  BY <2>2, <3>1, <3>2
    <2>7. ASSUME NEW n \in nodes' \cup citations' PROVE \E u \in versions' : OfVersion(n, u)
      <3>1. CASE OfVersion(n, new)
        BY <2>2, <3>1
      <3>2. CASE n \in nodes \cup citations
        <4>1. PICK v \in versions : OfVersion(n, v)
          BY <1>0, <3>2 DEF Cited
        <4>2. PICK u \in versions' : SameRow(u, v)
          BY <2>3
        <4> QED  BY <4>1, <4>2, SameRowSameRows
      <3> QED  BY <2>4, <2>5, <3>1, <3>2
    <2> QED  BY <2>6, <2>7 DEF Cited
  <1>2. ASSUME NEW w \in Workers, ~Commit(w), Proceed(w) \/ Abandon(w)
        PROVE  UNCHANGED <<versions, nodes, citations>>
    <2>1. CASE Archive(w) \/ Assess(w) \/ Abandon(w)
      BY <2>1 DEF Archive, Assess, Abandon, database
    <2>2. CASE AskForReview(w)
      BY <2>2 DEF AskForReview, ReviewDocument, ReviewPlaceholder, ReviewList, ReviewSave,
                  database
    <2>3. CASE Publish(w)
      BY <1>2, <2>3 DEF Publish, FindDocument, FindSame, ListVersions, Supersede,
                  CheckOverlap, SaveDocument, InsertVersion, AcceptReviews, database
    <2> QED  BY <1>2, <2>1, <2>2, <2>3 DEF Proceed
  <1>3. \/ \E w \in Workers : Commit(w)
        \/ UNCHANGED <<versions, nodes, citations>>
    BY <1>2 DEF Next, Start, Tick, vars, database
  <1> QED  BY <1>0, <1>1, <1>3

(***************************************************************************)
(* The version of the same bytes that a commit supersedes was made by      *)
(* another build, for the bytes and build of the new one are nowhere; so   *)
(* the update is a canonicalization, whichever of the versions of these    *)
(* bytes is the first by number.                                           *)
(***************************************************************************)
LEMMA ReparseKeepsDates ==
    ASSUME IInv, NEW w \in Workers, Commit(w),
           NEW v \in versions, NEW u \in versions', NEW n \in versions',
           v.status = "PUBLISHED", u.status = "SUPERSEDED", SameRow(u, v),
           n.status = "PUBLISHED", n.doc = v.doc, n.hash = v.hash
    PROVE  u.to = v.to /\ n.from = Unknown
  <1> DEFINE d == work[w].doc
             h == work[w].hash
             p == work[w].parser
             seen == VersionsOf(versions, d)
  <1>1. /\ d \in Documents /\ h \in Hashes /\ p \in Parsers
        /\ work[w].seen = seen /\ ~HasVersion(versions, d, h, p)
    BY CommitEnacts
  <1>2. PICK now \in Times : versions' = Enacted(versions, d, h, p, now)
    BY CommitEnacts
  <1>3. now \in Instant /\ HasHistory(versions) /\ HasHistory(versions')
    BY TimesAssumption, CommitHasHistory DEF IInv
  <1> HIDE DEF d, h, p
  <1> DEFINE c   == Canonicalization(seen, h, p)
             new == NewVersion(d, seen, h, p)
  <1>4. \A r : r \in versions' <=>
             \/ r \in versions /\ ~(r.doc = d /\ r.status = "PUBLISHED")
             \/ \E x \in versions :
                  x.doc = d /\ x.status = "PUBLISHED" /\ r = Superseded(x, c, now)
             \/ r = new
    BY <1>1, <1>2, <1>3, EnactedRows
  <1>5. /\ new.doc = d /\ new.hash = h /\ new.status = "PUBLISHED"
        /\ c => new.from = Unknown
    BY <1>1, <1>3, NewVersionRow
  <1>6. \A x \in versions :
            /\ SameRow(Superseded(x, c, now), x)
            /\ Superseded(x, c, now).status = "SUPERSEDED"
            /\ c => Superseded(x, c, now).to = x.to
    BY <1>3, SupersededRow, CanonicalizationIsBoolean DEF HasHistory, SameRow
  <1> HIDE DEF c, new
  \* v itself is superseded, so the commit is of its document and n is new.
  <1>7. u \notin versions
    BY <1>3 DEF HasHistory, Keyed
  <1>8. PICK x \in versions :
            x.doc = d /\ x.status = "PUBLISHED" /\ u = Superseded(x, c, now)
    BY <1>4, <1>5, <1>7
  <1>9. x = v /\ v.doc = d
    <2>1. SameRow(x, v)
      BY <1>6, <1>8 DEF SameRow
    <2> QED  BY <1>3, <1>8, <2>1 DEF HasHistory, Keyed
  <1>10. n = new
    BY <1>4, <1>6, <1>9
  \* No version of these bytes is by this build.
  <1>11. c
    <2>1. \A y \in seen : y.hash = h => y.parser # p
      BY <1>1 DEF HasVersion, VersionsOf
    <2>2. v \in seen /\ v.hash = h
      BY <1>5, <1>9, <1>10 DEF VersionsOf
    <2>3. \A y \in seen : y.number \in Nat
      BY <1>3 DEF HasHistory, Version, VersionsOf
    <2>4. \E y \in seen : y.hash = h /\ \A z \in seen : z.hash = h => y.number <= z.number
      <3> DEFINE ks == {y.number : y \in {z \in seen : z.hash = h}}
      <3>1. ks \subseteq Nat /\ ks # {}
        BY <2>2, <2>3
      <3>2. PICK k \in ks : \A m \in ks : k <= m
        BY <3>1, LeastNumber
      <3> QED  BY <3>2
    <2> QED  BY <2>1, <2>4 DEF c, Canonicalization
  <1> QED  BY <1>5, <1>6, <1>8, <1>9, <1>10, <1>11

-----------------------------------------------------------------------------
(***************************************************************************)
(* The inductive invariant of the ingest.                                  *)
(***************************************************************************)
THEOREM Publication_IInv == Spec => []IInv
  BY InitIInv, NextIInv, PTL DEF Spec

(***************************************************************************)
(* Every state of the ingest is well-typed (the rows and the locals of     *)
(* publish and retainOrCreateReview).                                      *)
(***************************************************************************)
THEOREM Publication_TypeOK == Spec => []TypeOK
  <1>1. IInv => TypeOK
    BY DEF IInv
  <1> QED  BY <1>1, Publication_IInv, PTL

(***************************************************************************)
(* Whatever transactions interleave, fail or are retried, an act with      *)
(* versions has exactly one published version, the newest                  *)
(* (service.ts:479-575).                                                   *)
(***************************************************************************)
THEOREM Publication_OneCurrentVersion == Spec => []OneCurrentVersion
  <1>1. IInv => OneCurrentVersion
    BY DEF IInv, HasHistory, OneCurrentVersion, History!OneCurrentVersion
  <1> QED  BY <1>1, Publication_IInv, PTL

(***************************************************************************)
(* No number is used twice and no gap is left, although transactions       *)
(* compute it from rows they listed earlier (service.ts:520).              *)
(***************************************************************************)
THEOREM Publication_NumbersContiguous == Spec => []NumbersContiguous
  <1>1. IInv => NumbersContiguous
    BY DEF IInv, HasHistory, Keyed, NumbersContiguous, History!NumbersContiguous,
           SameRow, History!SameRow
  <1> QED  BY <1>1, Publication_IInv, PTL

(***************************************************************************)
(* A document is in force exactly when it has versions: a placeholder for  *)
(* a review never replaces a law (placeholderDocument).                    *)
(***************************************************************************)
THEOREM Publication_InForceMeansPublished == Spec => []InForceMeansPublished
  <1>1. IInv => InForceMeansPublished
    BY DEF IInv
  <1> QED  BY <1>1, Publication_IInv, PTL

(***************************************************************************)
(* A committed version keeps its text, number and provenance; it is only   *)
(* ever superseded, once.  The update writes back columns listed earlier,  *)
(* and still undoes nothing (service.ts:513-518).                          *)
(***************************************************************************)
THEOREM Publication_VersionsOnlySuperseded == Spec => VersionsOnlySuperseded
  <1>1. IInv /\ [Next]_vars =>
            [\A v \in versions : \E u \in versions' : Preserved(v, u)]_vars
    <2> SUFFICES ASSUME IInv, [Next]_vars
                 PROVE  \A v \in versions : \E u \in versions' : Preserved(v, u)
      OBVIOUS
    <2>1. CASE UNCHANGED versions
      BY <2>1 DEF Preserved, SameRow
    <2>2. ASSUME NEW w \in Workers, Commit(w)
          PROVE  \A v \in versions : \E u \in versions' : Preserved(v, u)
      BY <2>2, CommitRows
    <2> QED  BY <2>1, <2>2, OnlyCommits
  <1> QED  BY <1>1, Publication_IInv, PTL DEF Spec, VersionsOnlySuperseded

(***************************************************************************)
(* Every version, current or superseded, keeps the nodes of its own parse  *)
(* and a citation of each but the root, and no row is left of a version    *)
(* that is not there (replaceForVersion, publishCitations).                *)
(***************************************************************************)
THEOREM Publication_EveryNodeIsCited == Spec => []EveryNodeIsCited
  <1>1. Init => EveryNodeIsCited
    BY DEF Init, EveryNodeIsCited
  <1>2. IInv /\ EveryNodeIsCited /\ [Next]_vars => EveryNodeIsCited'
    BY NextIsCited
  <1> QED  BY <1>1, <1>2, Publication_IInv, PTL DEF Spec

(***************************************************************************)
(* When a version takes the place of one of the same bytes, parsed by      *)
(* another build, neither gets a bound it had not (service.ts:516).        *)
(***************************************************************************)
THEOREM Publication_ReparseInventsNoDates == Spec => ReparseInventsNoDates
  <1> DEFINE A == \A v \in versions, u, n \in versions' :
                    (/\ v.status = "PUBLISHED" /\ u.status = "SUPERSEDED" /\ SameRow(u, v)
                     /\ n.status = "PUBLISHED" /\ n.doc = v.doc /\ n.hash = v.hash)
                    => u.to = v.to /\ n.from = Unknown
  <1>1. IInv /\ [Next]_vars => [A]_vars
    <2> SUFFICES ASSUME IInv, [Next]_vars PROVE A
      OBVIOUS
    <2> SUFFICES ASSUME NEW v \in versions, NEW u \in versions', NEW n \in versions',
                        v.status = "PUBLISHED", u.status = "SUPERSEDED", SameRow(u, v),
                        n.status = "PUBLISHED", n.doc = v.doc, n.hash = v.hash
                 PROVE  u.to = v.to /\ n.from = Unknown
      OBVIOUS
    <2>1. CASE UNCHANGED versions
      BY <2>1 DEF IInv, HasHistory, Keyed
    <2>2. ASSUME NEW w \in Workers, Commit(w) PROVE u.to = v.to /\ n.from = Unknown
      BY <2>2, ReparseKeepsDates
    <2> QED  BY <2>1, <2>2, OnlyCommits
  <1> QED  BY <1>1, Publication_IInv, PTL DEF Spec, ReparseInventsNoDates

\* The history's operators on rows are those of the ingest.
LEMMA HistoryVocabulary ==
    /\ \A rows, d : History!VersionsOf(rows, d) = VersionsOf(rows, d)
    /\ \A rows : History!PublishedOf(rows) = PublishedOf(rows)
    /\ \A seen, h, p : History!Canonicalization(seen, h, p) = Canonicalization(seen, h, p)
    /\ \A v, c, now : History!Superseded(v, c, now) = Superseded(v, c, now)
    /\ \A v : History!IntervalAccepted(v) <=> IntervalAccepted(v)
    /\ \A rows, d, h, p : History!HasVersion(rows, d, h, p) <=> HasVersion(rows, d, h, p)
    /\ \A rows, updates : History!Overlaid(rows, updates) = Overlaid(rows, updates)
    /\ \A d, seen, h, p : History!NewVersion(d, seen, h, p) = NewVersion(d, seen, h, p)
  BY DEF History!VersionsOf, VersionsOf, History!PublishedOf, PublishedOf,
         History!Canonicalization, Canonicalization, History!Superseded, Superseded,
         History!IntervalAccepted, IntervalAccepted, History!Unknown, Unknown,
         History!HasVersion, HasVersion, History!Overlaid, Overlaid,
         History!SameRow, SameRow, History!NewVersion, NewVersion,
         History!NextNumber, NextNumber

\* A commit is a publication; every other step is a stutter of the history.
LEMMA StepIsPublication ==
    ASSUME IInv, [Next]_vars
    PROVE  [History!Next]_versions
  <1>1. ASSUME NEW w \in Workers, Commit(w) PROVE History!Next
    <2> DEFINE d == work[w].doc
               h == work[w].hash
               p == work[w].parser
    <2>1. /\ d \in Documents /\ h \in Hashes /\ p \in Parsers
          /\ Parsed[<<h, p>>].ok /\ ~HasVersion(versions, d, h, p)
      BY <1>1, CommitEnacts
    <2>2. PICK now \in Times :
            /\ versions' = Enacted(versions, d, h, p, now)
            /\ \A u \in Closed(versions, d, h, p, now) : IntervalAccepted(u)
      BY <1>1, CommitEnacts
    <2> HIDE DEF d, h, p
    <2>3. History!Publish(d, h, p, now)
      BY <2>1, <2>2, HistoryVocabulary DEF History!Publish, Enacted, Closed
    <2> QED  BY <2>1, <2>3 DEF History!Next
  <1> QED  BY <1>1, OnlyCommits

(***************************************************************************)
(* The ingest implements the history of the corpus: a READ COMMITTED       *)
(* transaction that commits has the effect of one indivisible publication  *)
(* (service.ts:479-575, unit-of-work.ts).                                  *)
(***************************************************************************)
THEOREM Publication_ImplementsHistory == Spec => ImplementsHistory
  <1>1. Init => History!Init
    BY DEF Init, History!Init
  <1>2. IInv /\ [Next]_vars => [History!Next]_versions
    BY StepIsPublication
  <1> QED
    BY <1>1, <1>2, Publication_IInv, PTL DEF Spec, ImplementsHistory, History!Spec
=============================================================================
