----------------------------- MODULE RetrievalProofs -----------------------------
(***************************************************************************)
(* What the history of the corpus promises its readers, and what a request *)
(* of several queries makes of it while the ingest publishes in between:   *)
(* for any acts, bytes, parser builds, clock readings and requests.        *)
(*                                                                         *)
(* A committed row is superseded at most once and keeps everything else    *)
(* (Held), so what a query has read of a version stays true of the row     *)
(* under the same key; and what was published at a moment of the request   *)
(* is remembered by the history variables (Windows).                       *)
(***************************************************************************)
EXTENDS Retrieval, CorpusTablesProofs, SequenceTheorems

-----------------------------------------------------------------------------
(* The history.                                                            *)

CorpusHasHistory == HasHistory(corpus)

LEMMA HistoryGrows == CorpusHasHistory /\ [Next]_corpus => CorpusHasHistory'
  <1> SUFFICES ASSUME HasHistory(corpus), [Next]_corpus PROVE HasHistory(corpus')
    BY DEF CorpusHasHistory
  <1>1. ASSUME NEW d \in Documents, NEW h \in Hashes, NEW p \in Parsers,
               NEW now \in Times, Publish(d, h, p, now)
        PROVE  HasHistory(corpus')
    <2>1. now \in Instant
      BY TimesAssumption
    <2>2. corpus' = Enacted(corpus, d, h, p, now)
      BY <1>1 DEF Publish, Enacted, Closed
    <2> QED  BY <2>1, <2>2, EnactedHasHistory
  <1>2. CASE UNCHANGED corpus
    BY <1>2
  <1> QED  BY <1>1, <1>2 DEF Next

(***************************************************************************)
(* The rows of the corpus always are those of a history of publications.   *)
(***************************************************************************)
THEOREM History_HasHistory == Spec => []CorpusHasHistory
  <1>1. Init => CorpusHasHistory
    BY NoHistoryYet DEF Init, CorpusHasHistory
  <1> QED  BY <1>1, HistoryGrows, PTL DEF Spec

(***************************************************************************)
(* A document that has versions has one current version, the newest: the   *)
(* promise publish (service.ts:510-519) makes to the readers.              *)
(***************************************************************************)
THEOREM History_OneCurrentVersion == Spec => [](TypeOK /\ OneCurrentVersion)
  <1>1. CorpusHasHistory => TypeOK /\ OneCurrentVersion
    BY DEF CorpusHasHistory, HasHistory, TypeOK, OneCurrentVersion
  <1> QED  BY <1>1, History_HasHistory, PTL

(***************************************************************************)
(* Version numbers are 1, 2, ... without a gap or a repetition             *)
(* (service.ts:520).                                                       *)
(***************************************************************************)
THEOREM History_NumbersContiguous == Spec => []NumbersContiguous
  <1>1. CorpusHasHistory => NumbersContiguous
    BY DEF CorpusHasHistory, HasHistory, Keyed, NumbersContiguous
  <1> QED  BY <1>1, History_HasHistory, PTL

-----------------------------------------------------------------------------
(* The readers.                                                            *)

\* What becomes of a committed row.
Held(v, u) ==
    /\ SameRow(u, v)
    /\ u.hash = v.hash /\ u.parser = v.parser /\ u.from = v.from
    /\ v.to \in {Unknown, u.to}

\* The authority says of a committed node what its row says, or said while the
\* end was open.
Backed(a) ==
    \E v \in corpus :
        /\ SameRow(v, a) /\ a.locator \in TreeOf(v)
        /\ a.from = v.from /\ a.to \in {Unknown, v.to}

Good(a) ==
    /\ Backed(a)
    /\ AsOf # Unknown => CoversInstant(a, AsOf)
    /\ (AsOf = Unknown /\ request.by # "node") => WasCurrent(a)

\* A node that a query for citations has returned.
Found(id) ==
    /\ \E v \in corpus : SameRow(v, id) /\ id.locator \in TreeOf(v)
    /\ AsOf = Unknown => WasCurrent(id)

\* Nothing that was published throughout, and that q may mean, is missing.
Covers(q, ids) ==
    \A v \in steady : v.doc \in q.docs =>
        IdsIn(v, q.locators \cap (TreeOf(v) \ {Root})) \subseteq ids

GoodVerdict(w) ==
    /\ \A id \in w.node :
        /\ \E v \in corpus : SameRow(v, id)
        /\ AsOf # Unknown => CoversInstant(RowOf(id), AsOf)
    /\ (w.status = "VALID" /\ AsOf = Unknown) => Covers(w.query, w.node)

Windows ==
    stage # "idle" => PublishedOf(corpus) \subseteq current /\ steady \subseteq PublishedOf(corpus)

Loading ==
    stage = "load" =>
        /\ ByCitation /\ todo # <<>>
        /\ AsOf = Unknown => Covers(Head(todo), matched)

ReadInv ==
    /\ CorpusHasHistory
    /\ ReaderTypeOK
    /\ Windows
    /\ Loading
    /\ stage = "tree" => request.by = "document"
    /\ \A a \in answer : Good(a)
    /\ \A id \in matched : Found(id)
    /\ \A k \in DOMAIN verdicts : GoodVerdict(verdicts[k])
    /\ DocumentAnswerIsOneText

-----------------------------------------------------------------------------
LEMMA IngestKeeps ==
    ASSUME CorpusHasHistory, Next
    PROVE  CorpusHasHistory' /\ \A v \in corpus : \E u \in corpus' : Held(v, u)
  <1>1. PICK d \in Documents, h \in Hashes, p \in Parsers, now \in Times :
            Publish(d, h, p, now)
    BY DEF Next
  <1>2. now \in Instant /\ HasHistory(corpus)
    BY TimesAssumption DEF CorpusHasHistory
  <1>3. corpus' = Enacted(corpus, d, h, p, now)
    BY <1>1 DEF Publish, Enacted, Closed
  <1> DEFINE c   == Canonicalization(VersionsOf(corpus, d), h, p)
             new == NewVersion(d, VersionsOf(corpus, d), h, p)
  <1>4. \A r : r \in corpus' <=>
             \/ r \in corpus /\ ~(r.doc = d /\ r.status = "PUBLISHED")
             \/ \E v \in corpus :
                  v.doc = d /\ v.status = "PUBLISHED" /\ r = Superseded(v, c, now)
             \/ r = new
    BY <1>2, <1>3, EnactedRows
  <1>5. \A v \in corpus : Held(v, v) /\ Held(v, Superseded(v, c, now))
    BY <1>2, SupersededRow, CanonicalizationIsBoolean DEF HasHistory, Held, SameRow
  <1> HIDE DEF c, new
  <1>6. \A v \in corpus : \E u \in corpus' : Held(v, u)
    BY <1>4, <1>5
  <1>7. CorpusHasHistory'
    BY <1>2, <1>3, EnactedHasHistory DEF CorpusHasHistory
  <1> QED  BY <1>6, <1>7

LEMMA RowIs ==
    ASSUME CorpusHasHistory, NEW v \in corpus, NEW id, SameRow(v, id)
    PROVE  RowOf(id) = v
  <1>1. \A u \in corpus : u.doc = id.doc /\ u.number = id.number => u = v
    BY DEF CorpusHasHistory, HasHistory, Keyed, SameRow
  <1>2. v.doc = id.doc /\ v.number = id.number
    BY DEF SameRow
  <1> QED  BY <1>1, <1>2 DEF RowOf

LEMMA Rows ==
    ASSUME CorpusHasHistory, NEW v \in corpus
    PROVE  /\ v \in Version /\ v.doc \in Documents /\ v.number \in Nat
           /\ v.from \in Bound /\ v.to \in Bound
           /\ TreeOf(v) \subseteq Locators /\ Root \in TreeOf(v) /\ IsFiniteSet(TreeOf(v))
  <1>1. v \in Version
    BY DEF CorpusHasHistory, HasHistory
  <1>2. <<v.hash, v.parser>> \in Hashes \X Parsers
    BY <1>1 DEF Version
  <1>3. TreeOf(v) \subseteq Locators
    BY <1>2, ParsedAssumption DEF TreeOf
  <1> QED  BY <1>1, <1>2, <1>3, ParsedAssumption, TreesAssumption DEF TreeOf, Version

\* The authority made of a node of a committed row.
LEMMA AuthorityIs ==
    ASSUME CorpusHasHistory, NEW v \in corpus, NEW id, SameRow(v, id),
           id.locator \in TreeOf(v), NEW a, a = ToAuthority(id, v)
    PROVE  /\ a \in Authority /\ Backed(a)
           /\ a.doc = id.doc /\ a.number = id.number /\ a.locator = id.locator
           /\ a.from = v.from /\ a.to = v.to /\ SameRow(v, a)
           /\ \A t : CoversInstant(v, t) => CoversInstant(a, t)
  <1>1. /\ a.doc = id.doc /\ a.number = id.number /\ a.locator = id.locator
        /\ a.from = v.from /\ a.to = v.to
    BY DEF ToAuthority
  <1>2. SameRow(v, a)
    BY <1>1 DEF SameRow
  <1>3. Backed(a)
    BY <1>1, <1>2 DEF Backed
  <1>4. id.doc \in Documents /\ id.number \in Nat /\ id.locator \in Locators
        /\ v.from \in Bound /\ v.to \in Bound
    BY Rows DEF SameRow
  <1>5. a \in Authority
    BY <1>4 DEF ToAuthority, Authority
  <1>6. \A t : CoversInstant(v, t) => CoversInstant(a, t)
    BY <1>1 DEF CoversInstant, HasAsOfProvenance
  <1> QED  BY <1>1, <1>2, <1>3, <1>5, <1>6

LEMMA IdsAre ==
    ASSUME NEW v, NEW ls, NEW id
    PROVE  id \in IdsIn(v, ls) <=>
             id = [doc |-> v.doc, number |-> v.number, locator |-> id.locator] /\ id.locator \in ls
  BY DEF IdsIn

LEMMA IdFields ==
    ASSUME NEW v, NEW ls, NEW id \in IdsIn(v, ls)
    PROVE  id.doc = v.doc /\ id.number = v.number /\ id.locator \in ls /\ SameRow(v, id)
  BY DEF IdsIn, SameRow

-----------------------------------------------------------------------------
(* A publication in the middle of a request.                               *)

LEMMA IngestReads == ReadInv /\ Ingest => ReadInv'
  <1> SUFFICES ASSUME ReadInv, Ingest PROVE ReadInv'
    OBVIOUS
  <1>0. /\ CorpusHasHistory /\ ReaderTypeOK /\ Next /\ UNCHANGED reader
        /\ current' = current \cup PublishedOf(corpus')
        /\ steady' = steady \cap PublishedOf(corpus')
        /\ UNCHANGED <<stage, request, todo, matched, answer, verdicts>>
    BY DEF ReadInv, Ingest, reader
  <1>1. CorpusHasHistory' /\ \A v \in corpus : \E u \in corpus' : Held(v, u)
    BY <1>0, IngestKeeps
  <1>2. corpus' \subseteq Version /\ PublishedOf(corpus') \subseteq corpus'
    BY <1>1 DEF CorpusHasHistory, HasHistory, PublishedOf
  <1>3. ReaderTypeOK'
    <2>1. current' \subseteq Version /\ steady' \subseteq Version
      BY <1>0, <1>2 DEF ReaderTypeOK
    <2> QED  BY <1>0, <1>2, <2>1 DEF ReaderTypeOK, TypeOK
  <1>4. Windows'
    BY <1>0 DEF Windows, ReadInv
  <1>5. ASSUME NEW v, NEW u, Held(v, u)
        PROVE  TreeOf(u) = TreeOf(v) /\ u.doc = v.doc /\ u.number = v.number
               /\ (\A ls : IdsIn(u, ls) = IdsIn(v, ls))
    BY <1>5 DEF Held, SameRow, TreeOf, IdsIn
  <1>6. \A a : WasCurrent(a) => WasCurrent(a)'
    BY <1>0 DEF WasCurrent
  <1>7. ASSUME NEW a, Backed(a) PROVE Backed(a)'
    <2>1. PICK v \in corpus : SameRow(v, a) /\ a.locator \in TreeOf(v)
                              /\ a.from = v.from /\ a.to \in {Unknown, v.to}
      BY <1>7 DEF Backed
    <2>2. PICK u \in corpus' : Held(v, u)
      BY <1>1
    <2>3. SameRow(u, a) /\ a.locator \in TreeOf(u) /\ a.from = u.from
      BY <1>5, <2>1, <2>2 DEF Held, SameRow
    <2>4. a.to \in {Unknown, u.to}
      BY <2>1, <2>2 DEF Held
    <2> QED  BY <2>3, <2>4 DEF Backed, TreeOf
  <1>8. (\A a \in answer : Good(a))'
    BY <1>0, <1>6, <1>7 DEF ReadInv, Good, AsOf
  <1>9. ASSUME NEW id \in matched' PROVE Found(id)'
    <2>1. Found(id) /\ AsOf' = AsOf
      BY <1>0, <1>9 DEF ReadInv, AsOf
    <2>2. PICK v \in corpus : SameRow(v, id) /\ id.locator \in TreeOf(v)
      BY <2>1 DEF Found
    <2>3. PICK u \in corpus' : Held(v, u)
      BY <1>1
    <2>4. SameRow(u, id) /\ id.locator \in TreeOf(u)
      BY <1>5, <2>2, <2>3 DEF Held, SameRow
    <2>5. AsOf = Unknown => WasCurrent(id)'
      BY <1>6, <2>1 DEF Found
    <2> QED  BY <2>1, <2>4, <2>5 DEF Found, TreeOf
  <1>9a. (\A id \in matched : Found(id))'
    BY <1>9
  <1>10. \A q, ids : Covers(q, ids) => Covers(q, ids)'
    BY <1>0 DEF Covers, IdsIn, TreeOf
  <1>11. Loading'
    BY <1>0, <1>10 DEF ReadInv, Loading, ByCitation, AsOf
  <1>12. ASSUME NEW w, GoodVerdict(w) PROVE GoodVerdict(w)'
    <2>1. AsOf' = AsOf
      BY <1>0 DEF AsOf
    <2>2. PICK q, ids : q = w.query /\ ids = w.node
      OBVIOUS
    <2>3. (w.status = "VALID" /\ AsOf = Unknown) => Covers(q, ids)'
      BY <1>10, <1>12, <2>2 DEF GoodVerdict
    <2>4. ASSUME NEW id \in ids
          PROVE  /\ \E u \in corpus' : SameRow(u, id)
                 /\ AsOf # Unknown => CoversInstant(RowOf(id)', AsOf)
      <3>1. PICK v \in corpus : SameRow(v, id)
        BY <1>12, <2>2, <2>4 DEF GoodVerdict
      <3>2. PICK u \in corpus' : Held(v, u)
        BY <1>1
      <3>3. SameRow(u, id)
        BY <3>1, <3>2 DEF Held, SameRow
      <3>4. RowOf(id) = v
        BY <1>0, <3>1, RowIs
      <3>5. RowOf(id)' = u
        <4>1. \A x \in corpus' : x.doc = id.doc /\ x.number = id.number => x = u
          BY <1>1, <3>3 DEF CorpusHasHistory, HasHistory, Keyed, SameRow
        <4> QED  BY <3>3, <4>1 DEF RowOf, SameRow
      <3>6. AsOf # Unknown => CoversInstant(v, AsOf)
        BY <1>12, <2>2, <2>4, <3>4 DEF GoodVerdict
      <3>7. AsOf # Unknown => CoversInstant(u, AsOf)
        BY <3>2, <3>6 DEF Held, CoversInstant, HasAsOfProvenance
      <3> QED  BY <3>3, <3>5, <3>7
    <2>5. \A id \in w.node : \E v \in corpus' : SameRow(v, id)
      BY <2>2, <2>4
    <2>6. \A id \in w.node : AsOf' # Unknown => CoversInstant(RowOf(id)', AsOf')
      BY <2>1, <2>2, <2>4
    <2>7. (w.status = "VALID" /\ AsOf' = Unknown) => Covers(w.query, w.node)'
      BY <2>1, <2>2, <2>3 DEF Covers, IdsIn, TreeOf
    <2> QED  BY <2>5, <2>6, <2>7 DEF GoodVerdict, CoversInstant
  <1>12a. (\A k \in DOMAIN verdicts : GoodVerdict(verdicts[k]))'
    <2> SUFFICES ASSUME NEW k \in DOMAIN verdicts PROVE GoodVerdict(verdicts[k])'
      BY <1>0
    <2>1. PICK w : w = verdicts[k]
      OBVIOUS
    <2>2. GoodVerdict(w)
      BY <2>1 DEF ReadInv
    <2>3. GoodVerdict(w)' /\ verdicts'[k] = w
      BY <1>0, <1>12, <2>1, <2>2
    <2> QED  BY <2>3 DEF GoodVerdict, Covers
  <1>13. DocumentAnswerIsOneText'
    <2> SUFFICES ASSUME Answered, request.by = "document", answer # {}
                 PROVE  DocumentAnswerIsOneText'
      BY <1>0 DEF DocumentAnswerIsOneText, Answered
    <2>1. PICK v \in corpus :
            /\ {[doc |-> a.doc, number |-> a.number, locator |-> a.locator] : a \in answer}
                    \subseteq IdsIn(v, TreeOf(v))
            /\ Cardinality(answer) < MaxAuthorities =>
                    Cardinality(answer) = Cardinality(TreeOf(v))
      BY DEF ReadInv, DocumentAnswerIsOneText
    <2>2. PICK u \in corpus' : Held(v, u)
      BY <1>1
    <2>3. TreeOf(u) = TreeOf(v) /\ IdsIn(u, TreeOf(u)) = IdsIn(v, TreeOf(v))
      BY <1>5, <2>2
    <2> QED  BY <1>0, <2>1, <2>3 DEF DocumentAnswerIsOneText, Answered, TreeOf, IdsIn
  <1>14. (stage = "tree" => request.by = "document")'
    BY <1>0 DEF ReadInv
  <1> QED
    BY <1>1, <1>3, <1>4, <1>8, <1>9a, <1>11, <1>12a, <1>13, <1>14 DEF ReadInv

-----------------------------------------------------------------------------
(* The steps of a request: the corpus stays as it is.                      *)

Alone == UNCHANGED <<corpus, request, history>>

LEMMA AloneKeeps ==
    ASSUME Alone
    PROVE  /\ AsOf' = AsOf
           /\ \A a : Good(a) => Good(a)'
           /\ \A id : Found(id) => Found(id)'
           /\ \A w : GoodVerdict(w) => GoodVerdict(w)'
           /\ CorpusHasHistory => CorpusHasHistory'
           /\ \A q, ids : Covers(q, ids) => Covers(q, ids)'
  <1>0. corpus' = corpus /\ request' = request /\ current' = current /\ steady' = steady
    BY DEF Alone, history
  <1>1. AsOf' = AsOf
    BY <1>0 DEF AsOf
  <1>2. \A a : Backed(a) => Backed(a)'
    BY <1>0 DEF Backed, TreeOf
  <1>3. \A a : WasCurrent(a) => WasCurrent(a)'
    BY <1>0 DEF WasCurrent
  <1>4. \A a : Good(a) => Good(a)'
    BY <1>0, <1>1, <1>2, <1>3 DEF Good
  <1>5. \A id : Found(id) => Found(id)'
    BY <1>0, <1>1, <1>3 DEF Found, TreeOf
  <1>6. \A q, ids : Covers(q, ids) => Covers(q, ids)'
    BY <1>0 DEF Covers, IdsIn, TreeOf
  <1>7. ASSUME NEW w, GoodVerdict(w) PROVE GoodVerdict(w)'
    <2>1. PICK q, ids : q = w.query /\ ids = w.node
      OBVIOUS
    <2>2. (w.status = "VALID" /\ AsOf' = Unknown) => Covers(w.query, w.node)'
      BY <1>1, <1>6, <1>7, <2>1 DEF GoodVerdict, Covers, IdsIn, TreeOf
    <2>3. \A id \in w.node : \E v \in corpus' : SameRow(v, id)
      BY <1>0, <1>7 DEF GoodVerdict
    <2>4. \A id : RowOf(id)' = RowOf(id)
      BY <1>0 DEF RowOf
    <2>5. \A id \in w.node : AsOf' # Unknown => CoversInstant(RowOf(id)', AsOf')
      BY <1>1, <1>7, <2>4 DEF GoodVerdict
    <2> QED  BY <2>2, <2>3, <2>5 DEF GoodVerdict, CoversInstant
  <1>8. CorpusHasHistory => CorpusHasHistory'
    BY <1>0 DEF CorpusHasHistory
  <1> QED  BY <1>1, <1>4, <1>5, <1>6, <1>7, <1>8

LEMMA VerdictsKept ==
    ASSUME ReadInv, Alone, verdicts' = verdicts
    PROVE  (\A k \in DOMAIN verdicts : GoodVerdict(verdicts[k]))'
  <1> SUFFICES ASSUME NEW k \in DOMAIN verdicts PROVE GoodVerdict(verdicts[k])'
    OBVIOUS
  <1>1. PICK w : w = verdicts[k]
    OBVIOUS
  <1>2. GoodVerdict(w)' /\ verdicts'[k] = w
    BY <1>1, AloneKeeps DEF ReadInv
  <1> QED  BY <1>2 DEF GoodVerdict, Covers

\* What a query returned: a node of a row that its filters let through.
LEMMA ReadIsGood ==
    ASSUME ReadInv, stage # "idle", NEW v \in corpus,
           request.by # "node" => v \in Eligible(AsOf), Admits(v, AsOf),
           NEW id, id \in IdsIn(v, TreeOf(v)), NEW a, a = ToAuthority(id, v)
    PROVE  a \in Authority /\ Good(a)
  <1>1. CorpusHasHistory /\ PublishedOf(corpus) \subseteq current
    BY DEF ReadInv, Windows
  <1>2. SameRow(v, id) /\ id.locator \in TreeOf(v)
    BY IdFields
  <1>3. a \in Authority /\ Backed(a) /\ SameRow(v, a)
        /\ \A t : CoversInstant(v, t) => CoversInstant(a, t)
    BY <1>1, <1>2, AuthorityIs
  <1>4. AsOf # Unknown => CoversInstant(a, AsOf)
    BY <1>3 DEF Admits
  <1>5. (AsOf = Unknown /\ request.by # "node") => WasCurrent(a)
    BY <1>1, <1>3 DEF Eligible, WasCurrent
  <1> QED  BY <1>3, <1>4, <1>5 DEF Good

LEMMA RespondReads ==
    ASSUME ReadInv, stage # "idle", Alone, UNCHANGED <<todo, matched, verdicts>>,
           NEW found, \A a \in found : a \in Authority /\ Good(a),
           Respond(found), DocumentAnswerIsOneText'
    PROVE  ReadInv'
  <1>0. corpus' = corpus /\ request' = request /\ current' = current /\ steady' = steady
        /\ todo' = todo /\ matched' = matched /\ verdicts' = verdicts
    BY DEF Alone, history
  <1>1. stage' = "answered" /\ \A a \in answer' : a \in found
    BY DEF Respond
  <1>2. (\A a \in answer : Good(a))'
    BY <1>1, AloneKeeps
  <1>3. answer' \subseteq Authority
    BY <1>1
  <1>4. ReaderTypeOK'
    BY <1>0, <1>1, <1>3 DEF ReadInv, ReaderTypeOK, TypeOK, Stages
  <1>5. (\A id \in matched : Found(id))'
    BY <1>0, AloneKeeps DEF ReadInv
  <1>6. (\A k \in DOMAIN verdicts : GoodVerdict(verdicts[k]))'
    BY <1>0, VerdictsKept
  <1>7. Windows' /\ Loading' /\ (stage = "tree" => request.by = "document")'
    BY <1>0, <1>1 DEF ReadInv, Windows, Loading
  <1>8. CorpusHasHistory'
    BY AloneKeeps DEF ReadInv
  <1> QED  BY <1>2, <1>4, <1>5, <1>6, <1>7, <1>8 DEF ReadInv

\* An answer that is not a document's.
LEMMA NoDocument ==
    ASSUME Alone, request.by # "document" \/ answer' = {}
    PROVE  DocumentAnswerIsOneText'
  BY DEF Alone, DocumentAnswerIsOneText

LEMMA LookupNodeReads == ReadInv /\ LookupNode => ReadInv'
  <1> SUFFICES ASSUME ReadInv, LookupNode PROVE ReadInv'
    OBVIOUS
  <1> DEFINE id    == request.node
             rows  == {v \in corpus : id \in IdsIn(v, TreeOf(v)) /\ Admits(v, AsOf)}
             found == {ToAuthority(id, v) : v \in rows}
  <1>1. /\ stage = "lookup" /\ request.by = "node" /\ Respond(found)
        /\ Alone /\ UNCHANGED <<todo, matched, verdicts>>
    BY DEF LookupNode, Alone
  <1>2. \A a \in found : a \in Authority /\ Good(a)
    <2> TAKE a \in found
    <2>1. PICK v \in rows : a = ToAuthority(id, v)
      OBVIOUS
    <2>2. v \in corpus /\ id \in IdsIn(v, TreeOf(v)) /\ Admits(v, AsOf)
      OBVIOUS
    <2>3. PICK i : i = id
      OBVIOUS
    <2> HIDE DEF id, rows, found
    <2> QED  BY <1>1, <2>1, <2>2, <2>3, ReadIsGood
  <1> HIDE DEF found
  <1>3. DocumentAnswerIsOneText'
    BY <1>1, NoDocument
  <1> QED  BY <1>1, <1>2, <1>3, RespondReads

LEMMA LookupDocumentReads == ReadInv /\ LookupDocument => ReadInv'
  <1> SUFFICES ASSUME ReadInv, LookupDocument PROVE ReadInv'
    OBVIOUS
  <1> DEFINE rows   == {v \in VersionsOf(Eligible(AsOf), request.node.doc) : Admits(v, AsOf)}
             newest == {v \in rows : \A u \in rows : u.number <= v.number}
             roots  == UNION {{ToAuthority(id, v) : id \in IdsIn(v, {Root})} : v \in newest}
  <1>1. /\ stage = "lookup" /\ request.by = "document"
        /\ Alone /\ UNCHANGED <<todo, matched, verdicts>>
    BY DEF LookupDocument, Alone
  <1>2. CASE rows = {}
    <2>1. PICK found : found = {}
      OBVIOUS
    <2>2. Respond(found)
      BY <1>2, <2>1 DEF LookupDocument
    <2>3. answer' = {}
      BY <2>1, <2>2 DEF Respond
    <2>4. DocumentAnswerIsOneText'
      BY <1>1, <2>3, NoDocument
    <2>5. \A a \in found : a \in Authority /\ Good(a)
      BY <2>1
    <2> HIDE DEF rows
    <2> QED  BY <1>1, <2>2, <2>4, <2>5, RespondReads
  <1>3. CASE rows # {}
    <2>1. stage' = "tree" /\ answer' = roots
      BY <1>3 DEF LookupDocument
    <2>2. \A a \in roots : a \in Authority /\ Good(a)
      <3> TAKE a \in roots
      <3>1. PICK v \in newest : \E id \in IdsIn(v, {Root}) : a = ToAuthority(id, v)
        OBVIOUS
      <3>2. PICK id \in IdsIn(v, {Root}) : a = ToAuthority(id, v)
        BY <3>1
      <3>3. v \in Eligible(AsOf) /\ v \in corpus /\ Admits(v, AsOf)
        BY DEF VersionsOf, Eligible, PublishedOf
      <3> HIDE DEF rows, newest, roots
      <3>4. Root \in TreeOf(v)
        BY <3>3, Rows DEF ReadInv
      <3>5. id \in IdsIn(v, TreeOf(v))
        BY <3>2, <3>4 DEF IdsIn
      <3> QED  BY <1>1, <3>2, <3>3, <3>5, ReadIsGood
    <2> HIDE DEF rows, newest, roots
    <2>3. (\A a \in answer : Good(a))' /\ answer' \subseteq Authority
      BY <1>1, <2>1, <2>2, AloneKeeps
    <2>4. corpus' = corpus /\ request' = request /\ current' = current /\ steady' = steady
          /\ todo' = todo /\ matched' = matched /\ verdicts' = verdicts
      BY <1>1 DEF Alone, history
    <2>5. ReaderTypeOK'
      BY <2>1, <2>3, <2>4 DEF ReadInv, ReaderTypeOK, TypeOK, Stages
    <2>6. (\A id \in matched : Found(id))'
      BY <1>1, <2>4, AloneKeeps DEF ReadInv
    <2>7. (\A k \in DOMAIN verdicts : GoodVerdict(verdicts[k]))'
      BY <1>1, <2>4, VerdictsKept
    <2>8. Windows' /\ Loading' /\ (stage = "tree" => request.by = "document")'
          /\ DocumentAnswerIsOneText'
      BY <1>1, <2>1, <2>4 DEF ReadInv, Windows, Loading, DocumentAnswerIsOneText, Answered
    <2>9. CorpusHasHistory'
      BY <1>1, AloneKeeps DEF ReadInv
    <2> QED  BY <2>3, <2>5, <2>6, <2>7, <2>8, <2>9 DEF ReadInv
  <1> QED  BY <1>2, <1>3

(***************************************************************************)
(* The tree of a document, read after its version: as many authorities as  *)
(* the act has nodes.                                                      *)
(***************************************************************************)
Text(a, locators) == {ToAuthority(id, a) : id \in IdsIn(a, locators)}

LEMMA TextSize ==
    ASSUME NEW a, NEW T, IsFiniteSet(T)
    PROVE  IsFiniteSet(Text(a, T)) /\ Cardinality(Text(a, T)) = Cardinality(T)
  <1> DEFINE idOf(l) == [doc |-> a.doc, number |-> a.number, locator |-> l]
             f == [l \in T |-> ToAuthority(idOf(l), a)]
             S == Text(a, T)
  <1>1. S = {ToAuthority(idOf(l), a) : l \in T}
    BY DEF Text, IdsIn
  <1>2. \A l : ToAuthority(idOf(l), a).locator = l
    BY DEF ToAuthority
  <1> HIDE DEF S, idOf
  <1>3. f \in [T -> S]
    BY <1>1
  <1>4. \A l, m \in T : f[l] = f[m] => l = m
    BY <1>2
  <1>5. \A s \in S : \E l \in T : f[l] = s
    BY <1>1
  <1>6. f \in Bijection(T, S)
    BY <1>3, <1>4, <1>5, Fun_IsBij
  <1>7. ExistsBijection(T, S)
    BY <1>6 DEF ExistsBijection
  <1> QED  BY <1>7, FS_Bijection DEF S

LEMMA LookupTreeReads == ReadInv /\ LookupTree => ReadInv'
  <1> SUFFICES ASSUME ReadInv, LookupTree PROVE ReadInv'
    OBVIOUS
  <1>1. /\ stage = "tree" /\ request.by = "document"
        /\ Alone /\ UNCHANGED <<todo, matched, verdicts>>
    BY DEF LookupTree, Alone, ReadInv
  <1>2. PICK a \in answer : Respond(Text(a, TreeOf(RowOf(a))))
    BY DEF LookupTree, Text
  <1>3. Good(a) /\ a \in Authority /\ CorpusHasHistory
    BY DEF ReadInv, ReaderTypeOK
  <1>4. PICK v \in corpus :
          /\ SameRow(v, a) /\ a.locator \in TreeOf(v)
          /\ a.from = v.from /\ a.to \in {Unknown, v.to}
    BY <1>3 DEF Good, Backed
  <1>5. RowOf(a) = v
    BY <1>3, <1>4, RowIs
  <1>6. PICK T : T = TreeOf(v)
    OBVIOUS
  <1>7. T \subseteq Locators /\ IsFiniteSet(T)
    BY <1>3, <1>6, Rows
  <1>8. Respond(Text(a, T))
    BY <1>2, <1>5, <1>6
  <1>9. ASSUME NEW x \in Text(a, T)
        PROVE  /\ x \in Authority /\ Good(x)
               /\ [doc |-> x.doc, number |-> x.number, locator |-> x.locator] \in IdsIn(v, T)
               /\ AsOf = Unknown \/ HasAsOfProvenance(x)
    <2>1. PICK l \in T : x = [doc |-> a.doc, number |-> a.number, locator |-> l,
                              from |-> a.from, to |-> a.to]
      BY DEF Text, IdsIn, ToAuthority
    <2>2. x.doc = v.doc /\ x.number = v.number /\ x.locator \in T
          /\ x.from = a.from /\ x.to = a.to /\ SameRow(v, x) /\ SameRow(a, x)
      BY <1>4, <2>1 DEF SameRow
    <2>3. x \in Authority
      BY <1>3, <1>7, <2>1 DEF Authority
    <2>4. Backed(x)
      BY <1>4, <1>6, <2>2 DEF Backed
    <2>5. AsOf # Unknown => CoversInstant(x, AsOf)
      BY <1>3, <2>2 DEF Good, CoversInstant, HasAsOfProvenance
    <2>6. (AsOf = Unknown /\ request.by # "node") => WasCurrent(x)
      BY <1>3, <2>2 DEF Good, WasCurrent, SameRow
    <2>7. [doc |-> x.doc, number |-> x.number, locator |-> x.locator] \in IdsIn(v, T)
      BY <2>2 DEF IdsIn
    <2> QED  BY <2>3, <2>4, <2>5, <2>6, <2>7 DEF Good, CoversInstant
  <1>10. DocumentAnswerIsOneText'
    <2> DEFINE usable == {x \in Text(a, T) : AsOf = Unknown \/ HasAsOfProvenance(x)}
    <2>1. usable = Text(a, T)
      BY <1>9
    <2>2. PICK n : n = Cardinality(usable)
      OBVIOUS
    <2>3. /\ answer' \subseteq Text(a, T)
          /\ Cardinality(answer') = IF n > MaxAuthorities THEN MaxAuthorities ELSE n
      BY <1>8, <2>2 DEF Respond
    <2>4. n = Cardinality(T) /\ n \in Nat /\ MaxAuthorities \in Nat
      BY <1>7, <2>1, <2>2, TextSize, FS_CardinalityType, RequestsAssumption
    <2> HIDE DEF usable
    <2>5. Cardinality(answer') < MaxAuthorities => Cardinality(answer') = Cardinality(T)
      BY <2>3, <2>4
    <2>6. {[doc |-> x.doc, number |-> x.number, locator |-> x.locator] : x \in answer'}
             \subseteq IdsIn(v, T)
      BY <1>9, <2>3
    <2>7. corpus' = corpus
      BY <1>1 DEF Alone
    <2> QED  BY <1>6, <2>5, <2>6, <2>7 DEF DocumentAnswerIsOneText, TreeOf, IdsIn
  <1>11. \A x \in Text(a, T) : x \in Authority /\ Good(x)
    BY <1>9
  <1>12. PICK found : found = Text(a, T)
    OBVIOUS
  <1>13. Respond(found) /\ \A x \in found : x \in Authority /\ Good(x)
    BY <1>8, <1>11, <1>12
  <1> QED  BY <1>1, <1>10, <1>13, RespondReads

LEMMA LookupQuestionReads == ReadInv /\ LookupQuestion => ReadInv'
  <1> SUFFICES ASSUME ReadInv, LookupQuestion PROVE ReadInv'
    OBVIOUS
  <1> DEFINE rows == {v \in Eligible(AsOf) : Admits(v, AsOf)}
             ids  == UNION {IdsIn(v, TreeOf(v)) : v \in rows}
  <1>1. /\ stage = "lookup" /\ request.by = "question"
        /\ Alone /\ UNCHANGED <<todo, matched, verdicts>>
    BY DEF LookupQuestion, Alone
  <1>2. PICK found \in SUBSET ids : Respond({ToAuthority(id, RowOf(id)) : id \in found})
    BY DEF LookupQuestion
  <1>3. ASSUME NEW id \in found, NEW a, a = ToAuthority(id, RowOf(id))
        PROVE  a \in Authority /\ Good(a)
    <2>1. PICK v \in rows : id \in IdsIn(v, TreeOf(v))
      OBVIOUS
    <2>2. v \in Eligible(AsOf) /\ v \in corpus /\ Admits(v, AsOf)
      BY DEF Eligible, PublishedOf
    <2>3. SameRow(v, id)
      BY <2>1, IdFields
    <2> HIDE DEF rows, ids
    <2>4. RowOf(id) = v
      BY <2>2, <2>3, RowIs DEF ReadInv
    <2> QED  BY <1>1, <1>3, <2>1, <2>2, <2>4, ReadIsGood
  <1>4. PICK as : as = {ToAuthority(id, RowOf(id)) : id \in found}
    OBVIOUS
  <1>5. Respond(as) /\ \A a \in as : a \in Authority /\ Good(a)
    BY <1>2, <1>3, <1>4
  <1>6. DocumentAnswerIsOneText'
    BY <1>1, NoDocument
  <1> HIDE DEF rows, ids
  <1> QED  BY <1>1, <1>5, <1>6, RespondReads

-----------------------------------------------------------------------------
(* The citations of a request, one after the other.                        *)

LEMMA LookupCitationReads == ReadInv /\ LookupCitation => ReadInv'
  <1> SUFFICES ASSUME ReadInv, LookupCitation PROVE ReadInv'
    OBVIOUS
  <1>1. PICK q : q = Head(todo)
    OBVIOUS
  <1> DEFINE nodes(v) == IdsIn(v, q.locators \cap (TreeOf(v) \ {Root}))
  <1>2. /\ stage = "lookup" /\ ByCitation /\ todo # <<>> /\ stage' = "load"
        /\ matched' = UNION {nodes(v) : v \in {u \in Eligible(AsOf) : u.doc \in q.docs}}
        /\ Alone /\ UNCHANGED <<todo, answer, verdicts>>
    BY <1>1 DEF LookupCitation, Alone
  <1>3. corpus' = corpus /\ request' = request /\ current' = current /\ steady' = steady
        /\ todo' = todo /\ answer' = answer /\ verdicts' = verdicts
    BY <1>2 DEF Alone, history
  <1>4. CorpusHasHistory /\ PublishedOf(corpus) \subseteq current
        /\ steady \subseteq PublishedOf(corpus)
    BY <1>2 DEF ReadInv, Windows
  <1>5. ASSUME NEW id \in matched' PROVE id \in NodeId /\ Found(id)
    <2>1. PICK v \in Eligible(AsOf) : id \in nodes(v)
      BY <1>2
    <2>2. SameRow(v, id) /\ id.locator \in TreeOf(v)
          /\ id = [doc |-> v.doc, number |-> v.number, locator |-> id.locator]
      BY <2>1 DEF IdsIn, SameRow
    <2>3. v \in corpus /\ (AsOf = Unknown => v \in current)
      BY <1>4 DEF Eligible, PublishedOf
    <2>4. v.doc \in Documents /\ v.number \in Nat /\ TreeOf(v) \subseteq Locators
      BY <1>4, <2>3, Rows
    <2>5. id \in NodeId
      BY <2>2, <2>4 DEF NodeId
    <2> QED  BY <2>2, <2>3, <2>5 DEF Found, WasCurrent
  <1>6. AsOf = Unknown => Covers(q, matched')
    <2> SUFFICES ASSUME AsOf = Unknown, NEW v \in steady, v.doc \in q.docs
                 PROVE  nodes(v) \subseteq matched'
      BY DEF Covers
    <2>1. v \in Eligible(AsOf)
      BY <1>4 DEF Eligible
    <2> HIDE DEF nodes
    <2> QED  BY <1>2, <2>1
  <1> HIDE DEF nodes
  <1>7. Loading'
    BY <1>1, <1>2, <1>3, <1>6 DEF Loading, ByCitation, AsOf, Covers, IdsIn, TreeOf
  <1>8. ReaderTypeOK'
    BY <1>2, <1>3, <1>5 DEF ReadInv, ReaderTypeOK, TypeOK, Stages
  <1>9. (\A id \in matched : Found(id))'
    BY <1>2, <1>5, AloneKeeps
  <1>10. (\A a \in answer : Good(a))'
    BY <1>2, <1>3, AloneKeeps DEF ReadInv
  <1>11. (\A k \in DOMAIN verdicts : GoodVerdict(verdicts[k]))'
    BY <1>2, <1>3, VerdictsKept
  <1>12. Windows' /\ (stage = "tree" => request.by = "document")'
         /\ DocumentAnswerIsOneText'
    BY <1>2, <1>3, <1>4 DEF Windows, DocumentAnswerIsOneText, Answered
  <1>13. CorpusHasHistory'
    BY <1>2, <1>4, AloneKeeps
  <1> QED
    BY <1>7, <1>8, <1>9, <1>10, <1>11, <1>12, <1>13 DEF ReadInv

(***************************************************************************)
(* What is loaded of the matches: the interval on the row decides, and a   *)
(* request without an instant keeps them all.                              *)
(***************************************************************************)
LEMMA LoadMatchesReads == ReadInv /\ LoadMatches => ReadInv'
  <1> SUFFICES ASSUME ReadInv, LoadMatches PROVE ReadInv'
    OBVIOUS
  <1>1. PICK q, ids : q = Head(todo) /\ ids = {id \in matched : Admits(RowOf(id), AsOf)}
    OBVIOUS
  <1>2. /\ stage = "load" /\ stage' = "lookup" /\ todo' = Tail(todo) /\ matched' = {}
        /\ Alone
        /\ \/ /\ request.by = "citations"
              /\ answer' = answer \cup {ToAuthority(id, RowOf(id)) : id \in ids}
              /\ verdicts' = verdicts
           \/ /\ request.by = "verify"
              /\ verdicts' = Append(verdicts, Verdict(q, ids))
              /\ answer' = answer
    BY <1>1 DEF LoadMatches, Alone
  <1>3. corpus' = corpus /\ request' = request /\ current' = current /\ steady' = steady
    BY <1>2 DEF Alone, history
  <1>4. CorpusHasHistory /\ ReaderTypeOK /\ todo # <<>>
        /\ (AsOf = Unknown => Covers(q, matched))
    BY <1>1, <1>2 DEF ReadInv, Loading
  <1>5. q \in Query /\ Tail(todo) \in Seq(Query)
    BY <1>1, <1>4 DEF ReaderTypeOK
  <1>6. ASSUME NEW id \in ids
        PROVE  /\ \E v \in corpus : SameRow(v, id) /\ id.locator \in TreeOf(v) /\ RowOf(id) = v
               /\ AsOf # Unknown => CoversInstant(RowOf(id), AsOf)
               /\ AsOf = Unknown => WasCurrent(id)
    <2>1. Found(id) /\ Admits(RowOf(id), AsOf)
      BY <1>1 DEF ReadInv
    <2>2. PICK v \in corpus : SameRow(v, id) /\ id.locator \in TreeOf(v)
      BY <2>1 DEF Found
    <2>3. RowOf(id) = v
      BY <1>4, <2>2, RowIs
    <2> QED  BY <2>1, <2>2, <2>3 DEF Found, Admits
  <1>7. ASSUME NEW id \in ids, NEW a, a = ToAuthority(id, RowOf(id))
        PROVE  a \in Authority /\ Good(a)
    <2>1. PICK v \in corpus : SameRow(v, id) /\ id.locator \in TreeOf(v) /\ RowOf(id) = v
      BY <1>6
    <2>2. a \in Authority /\ Backed(a) /\ a.doc = id.doc /\ a.number = id.number
          /\ (\A t : CoversInstant(v, t) => CoversInstant(a, t))
      BY <1>4, <1>7, <2>1, AuthorityIs
    <2>3. AsOf # Unknown => CoversInstant(a, AsOf)
      BY <1>6, <2>1, <2>2
    <2>4. AsOf = Unknown => WasCurrent(a)
      BY <1>6, <2>2 DEF WasCurrent, SameRow
    <2> QED  BY <2>2, <2>3, <2>4 DEF Good
  <1>8. answer' \subseteq Authority /\ \A a \in answer' : Good(a)
    BY <1>2, <1>4, <1>7 DEF ReadInv, ReaderTypeOK
  <1>9. (\A a \in answer : Good(a))'
    BY <1>2, <1>8, AloneKeeps
  <1>10. PICK w : w = Verdict(q, ids)
    OBVIOUS
  <1>11. /\ w.query = q /\ w.node \subseteq ids
         /\ w.status = "VALID" => w.node = ids
         /\ w \in [query: Query, status: Status, node: SUBSET NodeId]
    <2>1. ids \subseteq NodeId
      BY <1>1, <1>4 DEF ReaderTypeOK
    <2> QED  BY <1>5, <1>10, <2>1 DEF Verdict, Status
  <1>12. GoodVerdict(w)
    <2>1. \A id \in w.node :
            /\ \E v \in corpus : SameRow(v, id)
            /\ AsOf # Unknown => CoversInstant(RowOf(id), AsOf)
      BY <1>6, <1>11
    <2>2. AsOf = Unknown => ids = matched
      BY <1>1 DEF Admits
    <2>3. (w.status = "VALID" /\ AsOf = Unknown) => Covers(w.query, w.node)
      BY <1>4, <1>11, <2>2
    <2> QED  BY <2>1, <2>3 DEF GoodVerdict
  <1>13. verdicts' \in Seq([query: Query, status: Status, node: SUBSET NodeId])
         /\ \A k \in DOMAIN verdicts' :
                \/ k \in DOMAIN verdicts /\ verdicts'[k] = verdicts[k]
                \/ verdicts'[k] = w
    <2>1. verdicts \in Seq([query: Query, status: Status, node: SUBSET NodeId])
      BY <1>4 DEF ReaderTypeOK
    <2>2. CASE verdicts' = verdicts
      BY <2>1, <2>2
    <2>3. CASE verdicts' = Append(verdicts, w)
      BY <1>11, <2>1, <2>3
    <2> QED  BY <1>2, <1>10, <2>2, <2>3
  <1>14. (\A k \in DOMAIN verdicts : GoodVerdict(verdicts[k]))'
    <2> SUFFICES ASSUME NEW k \in DOMAIN verdicts' PROVE GoodVerdict(verdicts[k])'
      OBVIOUS
    <2>1. PICK x : x = verdicts'[k]
      OBVIOUS
    <2>2. GoodVerdict(x)
      BY <1>12, <1>13, <2>1 DEF ReadInv
    <2>3. GoodVerdict(x)'
      BY <1>2, <2>2, AloneKeeps
    <2> QED  BY <2>1, <2>3 DEF GoodVerdict, Covers
  <1>15. ReaderTypeOK'
    BY <1>2, <1>3, <1>4, <1>5, <1>8, <1>13 DEF ReaderTypeOK, TypeOK, Stages
  <1>16. Windows' /\ Loading' /\ (stage = "tree" => request.by = "document")'
         /\ DocumentAnswerIsOneText' /\ (\A id \in matched : Found(id))'
    BY <1>2, <1>3 DEF ReadInv, Windows, Loading, DocumentAnswerIsOneText, Answered
  <1>17. CorpusHasHistory'
    BY <1>2, <1>4, AloneKeeps
  <1> QED
    BY <1>9, <1>14, <1>15, <1>16, <1>17 DEF ReadInv

LEMMA EndCitationsReads == ReadInv /\ EndCitations => ReadInv'
  <1> SUFFICES ASSUME ReadInv, EndCitations PROVE ReadInv'
    OBVIOUS
  <1>1. stage = "lookup" /\ request.by \in {"citations", "verify"}
        /\ Alone /\ UNCHANGED <<todo, matched, verdicts>>
    BY DEF EndCitations, ByCitation, Alone
  <1>2. CASE request.by = "verify"
    <2>1. stage' = "answered" /\ answer' = answer
      BY <1>2 DEF EndCitations
    <2>2. corpus' = corpus /\ request' = request /\ current' = current /\ steady' = steady
          /\ todo' = todo /\ matched' = matched /\ verdicts' = verdicts
      BY <1>1 DEF Alone, history
    <2>3. ReaderTypeOK'
      BY <2>1, <2>2 DEF ReadInv, ReaderTypeOK, TypeOK, Stages
    <2>4. (\A id \in matched : Found(id))' /\ (\A a \in answer : Good(a))'
      BY <1>1, <2>1, <2>2, AloneKeeps DEF ReadInv
    <2>5. (\A k \in DOMAIN verdicts : GoodVerdict(verdicts[k]))'
      BY <1>1, <2>2, VerdictsKept
    <2>6. Windows' /\ Loading' /\ (stage = "tree" => request.by = "document")'
      BY <1>1, <2>1, <2>2 DEF ReadInv, Windows, Loading
    <2>7. DocumentAnswerIsOneText'
      BY <1>1, <1>2, NoDocument
    <2>8. CorpusHasHistory'
      BY <1>1, AloneKeeps DEF ReadInv
    <2> QED  BY <2>3, <2>4, <2>5, <2>6, <2>7, <2>8 DEF ReadInv
  <1>3. CASE request.by # "verify"
    <2>1. Respond(answer) /\ \A a \in answer : a \in Authority /\ Good(a)
      BY <1>3 DEF EndCitations, ReadInv, ReaderTypeOK
    <2>2. DocumentAnswerIsOneText'
      BY <1>1, NoDocument
    <2> QED  BY <1>1, <2>1, <2>2, RespondReads
  <1> QED  BY <1>2, <1>3

LEMMA AskReads == ASSUME NEW r \in Requests PROVE ReadInv /\ Ask(r) => ReadInv'
  <1> SUFFICES ASSUME ReadInv, Ask(r) PROVE ReadInv'
    OBVIOUS
  <1>1. /\ stage' = "lookup" /\ request' = r /\ todo' = r.queries
        /\ matched' = {} /\ answer' = {} /\ verdicts' = <<>>
        /\ current' = PublishedOf(corpus) /\ steady' = PublishedOf(corpus)
        /\ corpus' = corpus
    BY DEF Ask
  <1>2. r.queries \in Seq(Query)
    BY RequestsAssumption DEF Request
  <1>3. PublishedOf(corpus) \subseteq Version /\ CorpusHasHistory
    BY DEF ReadInv, CorpusHasHistory, HasHistory, PublishedOf
  <1>4. ReaderTypeOK'
    BY <1>1, <1>2, <1>3 DEF ReadInv, ReaderTypeOK, TypeOK, Stages
  <1>5. Windows' /\ Loading' /\ (stage = "tree" => request.by = "document")'
        /\ DocumentAnswerIsOneText' /\ (\A id \in matched : Found(id))'
        /\ (\A a \in answer : Good(a))'
    BY <1>1 DEF Windows, Loading, DocumentAnswerIsOneText, Answered, PublishedOf
  <1>6. (\A k \in DOMAIN verdicts : GoodVerdict(verdicts[k]))'
    BY <1>1
  <1>7. CorpusHasHistory'
    BY <1>1, <1>3 DEF CorpusHasHistory
  <1> QED  BY <1>4, <1>5, <1>6, <1>7 DEF ReadInv

-----------------------------------------------------------------------------
LEMMA ReaderStep == ReadInv /\ [ReaderNext]_vars => ReadInv'
  <1> SUFFICES ASSUME ReadInv, [ReaderNext]_vars PROVE ReadInv'
    OBVIOUS
  <1>1. CASE \E r \in Requests : Ask(r)
    BY <1>1, AskReads
  <1>2. CASE Lookup
    BY <1>2, LookupNodeReads, LookupDocumentReads, LookupTreeReads, LookupCitationReads,
       LoadMatchesReads, EndCitationsReads, LookupQuestionReads DEF Lookup
  <1>3. CASE Ingest
    BY <1>3, IngestReads
  <1>4. CASE UNCHANGED vars
    <2>1. corpus' = corpus /\ request' = request /\ current' = current /\ steady' = steady
          /\ todo' = todo /\ matched' = matched /\ verdicts' = verdicts
          /\ stage' = stage /\ answer' = answer
      BY <1>4 DEF vars
    <2>2. Alone
      BY <2>1 DEF Alone, history
    <2>3. ReaderTypeOK'
      BY <2>1 DEF ReadInv, ReaderTypeOK, TypeOK
    <2>4. (\A id \in matched : Found(id))' /\ (\A a \in answer : Good(a))'
      BY <2>1, <2>2, AloneKeeps DEF ReadInv
    <2>5. (\A k \in DOMAIN verdicts : GoodVerdict(verdicts[k]))'
      BY <2>1, <2>2, VerdictsKept
    <2>6. Windows' /\ (stage = "tree" => request.by = "document")'
      BY <2>1 DEF ReadInv, Windows
    <2>7. DocumentAnswerIsOneText'
      BY <2>1 DEF ReadInv, DocumentAnswerIsOneText, Answered, TreeOf
    <2>8. Loading'
      BY <2>1, <2>2, AloneKeeps DEF ReadInv, Loading, ByCitation, AsOf, Covers, IdsIn, TreeOf
    <2>9. CorpusHasHistory'
      BY <2>2, AloneKeeps DEF ReadInv
    <2> QED  BY <2>3, <2>4, <2>5, <2>6, <2>7, <2>8, <2>9 DEF ReadInv
  <1> QED  BY <1>1, <1>2, <1>3, <1>4 DEF ReaderNext

(***************************************************************************)
(* What the readers hold at any moment is what the corpus has, or had      *)
(* before a version in it was superseded: the invariant of the queries of  *)
(* corpus-retrieval.ts and corpus-citation-validator.ts, which run outside *)
(* of any transaction.                                                     *)
(***************************************************************************)
THEOREM Retrieval_ReadInv == ReaderSpec => []ReadInv
  <1>1. ReaderInit => ReadInv
    <2> SUFFICES ASSUME ReaderInit PROVE ReadInv
      OBVIOUS
    <2>1. /\ corpus = {} /\ stage = "idle" /\ request \in Requests /\ todo = <<>>
          /\ matched = {} /\ answer = {} /\ verdicts = <<>> /\ current = {} /\ steady = {}
      BY DEF ReaderInit, Init
    <2>2. CorpusHasHistory
      BY <2>1, NoHistoryYet DEF CorpusHasHistory
    <2>3. ReaderTypeOK
      BY <2>1 DEF ReaderTypeOK, TypeOK, Stages
    <2>4. Windows /\ Loading /\ DocumentAnswerIsOneText
      BY <2>1 DEF Windows, Loading, DocumentAnswerIsOneText, Answered
    <2> QED  BY <2>1, <2>2, <2>3, <2>4 DEF ReadInv
  <1> QED  BY <1>1, ReaderStep, PTL DEF ReaderSpec

(***************************************************************************)
(* The reader's state has its type: a node id, an authority and a verdict  *)
(* are always of documents and locators that exist.                        *)
(***************************************************************************)
THEOREM Retrieval_TypeOK == ReaderSpec => []ReaderTypeOK
  <1>1. ReadInv => ReaderTypeOK
    BY DEF ReadInv
  <1> QED  BY <1>1, Retrieval_ReadInv, PTL

(***************************************************************************)
(* Without an instant, what is returned of a lookup that filters by status *)
(* was published at a moment of the request (corpus-retrieval.ts:52-111).  *)
(***************************************************************************)
THEOREM Retrieval_CurrentByDocumentOrCitation == ReaderSpec => []CurrentByDocumentOrCitation
  <1>1. ReadInv => CurrentByDocumentOrCitation
    BY DEF ReadInv, Good, CurrentByDocumentOrCitation
  <1> QED  BY <1>1, Retrieval_ReadInv, PTL

(***************************************************************************)
(* With an instant, what is returned or found VALID holds at it, by the    *)
(* committed row too: an interval that covers an instant is closed, and a  *)
(* closed interval never changes (versionCoversInstant,                    *)
(* document-version.ts:27-46).                                             *)
(***************************************************************************)
THEOREM Retrieval_AsOfAnswersHold == ReaderSpec => []AsOfAnswersHold
  <1>1. ReadInv => AsOfAnswersHold
    <2> SUFFICES ASSUME ReadInv, AsOf # Unknown
                 PROVE  /\ \A a \in answer : CoversInstant(a, AsOf) /\ CoversInstant(RowOf(a), AsOf)
                        /\ \A k \in DOMAIN verdicts : \A id \in verdicts[k].node :
                                CoversInstant(RowOf(id), AsOf)
      BY DEF AsOfAnswersHold
    <2>1. ASSUME NEW a \in answer
          PROVE  CoversInstant(a, AsOf) /\ CoversInstant(RowOf(a), AsOf)
      <3>1. CoversInstant(a, AsOf) /\ Backed(a)
        BY DEF ReadInv, Good
      <3>2. PICK v \in corpus : SameRow(v, a) /\ a.from = v.from /\ a.to \in {Unknown, v.to}
        BY <3>1 DEF Backed
      <3>3. RowOf(a) = v
        BY <3>2, RowIs DEF ReadInv
      <3>4. CoversInstant(v, AsOf)
        BY <3>1, <3>2 DEF CoversInstant, HasAsOfProvenance
      <3> QED  BY <3>1, <3>3, <3>4
    <2>2. ASSUME NEW k \in DOMAIN verdicts, NEW id \in verdicts[k].node
          PROVE  CoversInstant(RowOf(id), AsOf)
      BY DEF ReadInv, GoodVerdict
    <2> QED  BY <2>1, <2>2
  <1> QED  BY <1>1, Retrieval_ReadInv, PTL

(***************************************************************************)
(* A document's answer is the text of one version, whole unless it was     *)
(* cut, although a publication may come between the version and its tree   *)
(* (corpus-retrieval.ts:70-77).                                            *)
(***************************************************************************)
THEOREM Retrieval_DocumentAnswerIsOneText == ReaderSpec => []DocumentAnswerIsOneText
  <1>1. ReadInv => DocumentAnswerIsOneText
    BY DEF ReadInv
  <1> QED  BY <1>1, Retrieval_ReadInv, PTL

(***************************************************************************)
(* A citation found VALID means no other node that has been published      *)
(* since the request came, in any act it may name                          *)
(* (classifyCitationMatches, corpus-citation-validator.ts).                *)
(***************************************************************************)
THEOREM Retrieval_ValidIsUnambiguous == ReaderSpec => []ValidIsUnambiguous
  <1>1. ReadInv => ValidIsUnambiguous
    BY DEF ReadInv, GoodVerdict, Covers, ValidIsUnambiguous
  <1> QED  BY <1>1, Retrieval_ReadInv, PTL
=============================================================================
