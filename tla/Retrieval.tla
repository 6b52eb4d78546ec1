------------------------------- MODULE Retrieval -------------------------------
(***************************************************************************)
(* Reading the corpus: CorpusRetrieval (POST /v1/retrieve) and             *)
(* CorpusCitationValidator (POST /v1/citations/verify), while the ingest   *)
(* publishes.  A request is several queries outside of any transaction, so *)
(* publications (one step each, by the refinement of Publication) come in  *)
(* between.                                                                *)
(*                                                                         *)
(* A committed version never loses or changes its nodes and citations,     *)
(* so they are read off Parsed (Publication, EveryNodeIsCited).  Requests  *)
(* do not meet each other: one at a time stands for all.                   *)
(***************************************************************************)
EXTENDS CorpusHistory, FiniteSets, Sequences

CONSTANTS
    Requests,           \* the requests clients make
    MaxAuthorities      \* the most authorities an answer has

\* What a citation may name: a key is one locator of one act; a phrase leaves
\* open which acts (its title hint) and nodes (article and paragraph) it means.
Query == [docs: SUBSET Documents, locators: SUBSET Locators]

\* A node id is the version it is in and its locator.
NodeId == [doc: Documents, number: Nat, locator: Locators]

(***************************************************************************)
(* The branches of lookup, and verify.  Those that do not apply leave node *)
(* and queries at any value.                                               *)
(***************************************************************************)
Request == [by: {"node", "document", "citations", "question", "verify"},
            node: NodeId, queries: Seq(Query), asOf: Bound]

ASSUME RequestsAssumption ==
    Requests \subseteq Request /\ MaxAuthorities \in Nat

\* An act has finitely many nodes.
ASSUME TreesAssumption == \A a \in Hashes \X Parsers : IsFiniteSet(Parsed[a].tree)

Status == {"VALID", "UNRESOLVED", "CONFLICT"}
Authority == [doc: Documents, number: Nat, locator: Locators,
              from: Bound, to: Bound]

VARIABLES
    stage,      \* the query that comes next
    request,    \* what was asked
    todo,       \* the citations that are still to be looked up
    matched,    \* node ids a query has returned
    answer,     \* the authorities found
    verdicts,   \* of a verification, for each citation looked up
    current,    \* history: the versions published at a moment of the request
    steady      \* history: the versions published at every moment of it

reader == <<stage, request, todo, matched, answer, verdicts>>
vars == <<corpus, stage, request, todo, matched, answer, verdicts,
          current, steady>>
history == <<current, steady>>

Stages == {"idle", "lookup", "load", "tree", "answered"}

ReaderTypeOK ==
    /\ TypeOK
    /\ stage \in Stages
    /\ request \in Requests
    /\ todo \in Seq(Query)
    /\ matched \subseteq NodeId
    /\ answer \subseteq Authority
    /\ verdicts \in Seq([query: Query, status: Status, node: SUBSET NodeId])
    /\ current \subseteq Version /\ steady \subseteq Version

ReaderInit ==
    /\ Init
    /\ stage = "idle"
    /\ request \in Requests
    /\ todo = <<>> /\ matched = {} /\ answer = {} /\ verdicts = <<>>
    /\ current = {} /\ steady = {}

-----------------------------------------------------------------------------
(* Rows.                                                                   *)

TreeOf(v) == Parsed[<<v.hash, v.parser>>].tree

IdsIn(v, locators) ==
    {[doc |-> v.doc, number |-> v.number, locator |-> l] : l \in locators}

\* The committed row of the version a node id is in.
RowOf(id) == CHOOSE v \in corpus : v.doc = id.doc /\ v.number = id.number

\* toAuthority: the node with its version's interval, as read from the row.
ToAuthority(id, v) ==
    [doc |-> id.doc, number |-> id.number, locator |-> id.locator,
     from |-> v.from, to |-> v.to]

\* No filter on the status.
Eligible_Any(asOf) == corpus

\* The filter of the queries: published, or with an instant also superseded.
Eligible(asOf) == IF asOf = Unknown THEN PublishedOf(corpus) ELSE corpus

\* An answer to asOf Unknown is not filtered by time.
Admits_Any(v, asOf) == TRUE

Admits(v, asOf) == asOf = Unknown \/ CoversInstant(v, asOf)

AsOf == request.asOf

-----------------------------------------------------------------------------
Ask(r) ==
    /\ stage \in {"idle", "answered"}
    /\ stage' = "lookup"
    /\ request' = r
    /\ todo' = r.queries
    /\ matched' = {} /\ answer' = {} /\ verdicts' = <<>>
    /\ current' = PublishedOf(corpus) /\ steady' = PublishedOf(corpus)
    /\ UNCHANGED corpus

(***************************************************************************)
(* retrieve, once lookup has returned: with an instant it keeps what has   *)
(* both bounds, and it cuts the list.  Which authorities come first is     *)
(* left open.                                                              *)
(***************************************************************************)
Respond(found) ==
    LET usable == {a \in found : AsOf = Unknown \/ HasAsOfProvenance(a)} IN
    /\ stage' = "answered"
    /\ \E kept \in SUBSET usable :
        /\ Cardinality(kept) = IF Cardinality(usable) > MaxAuthorities
                               THEN MaxAuthorities ELSE Cardinality(usable)
        /\ answer' = kept

(***************************************************************************)
(* By node id: the node, then its version, whatever the version's status.  *)
(* Nodes do not change, so only the second query matters.                  *)
(***************************************************************************)
LookupNode ==
    LET id   == request.node
        rows == {v \in corpus : id \in IdsIn(v, TreeOf(v)) /\ Admits(v, AsOf)}
    IN  /\ stage = "lookup" /\ request.by = "node"
        /\ Respond({ToAuthority(id, v) : v \in rows})
        /\ UNCHANGED <<corpus, request, todo, matched, verdicts, history>>

(***************************************************************************)
(* By document: findPublishedForDocument takes the newest version that is  *)
(* published, or covers the instant; findTreeByVersion then its nodes.     *)
(* The row read first is kept in "answer", with its root, until the tree   *)
(* is read.                                                                *)
(***************************************************************************)
LookupDocument ==
    LET rows   == {v \in VersionsOf(Eligible(AsOf), request.node.doc) : Admits(v, AsOf)}
        newest == {v \in rows : \A u \in rows : u.number <= v.number}
    IN  /\ stage = "lookup" /\ request.by = "document"
        /\ IF rows = {}
           THEN Respond({})
           ELSE /\ stage' = "tree"
                /\ answer' = UNION {{ToAuthority(id, v) : id \in IdsIn(v, {Root})} : v \in newest}
        /\ UNCHANGED <<corpus, request, todo, matched, verdicts, history>>

\* Answers with the tree of the version that is published by now.
LookupTree_Current ==
    /\ stage = "tree"
    /\ \E a \in answer, v \in PublishedOf(corpus) :
        /\ v.doc = a.doc
        /\ Respond({ToAuthority(id, a) : id \in IdsIn(a, TreeOf(v))})
    /\ UNCHANGED <<corpus, request, todo, matched, verdicts, history>>

LookupTree ==
    /\ stage = "tree"
    /\ \E a \in answer :
        Respond({ToAuthority(id, a) : id \in IdsIn(a, TreeOf(RowOf(a)))})
    /\ UNCHANGED <<corpus, request, todo, matched, verdicts, history>>

(***************************************************************************)
(* findPublishedMatches, for the next citation of a list, a key (a list of *)
(* one) or a verification: a query for the citation rows, then the queries *)
(* that load the versions of those rows (the ORM's "include").             *)
(***************************************************************************)
ByCitation == request.by \in {"citations", "verify"}

LookupCitation ==
    LET q == Head(todo) IN
    /\ stage = "lookup" /\ ByCitation /\ todo # <<>>
    /\ stage' = "load"
    /\ matched' = UNION {IdsIn(v, q.locators \cap (TreeOf(v) \ {Root})) :
                            v \in {u \in Eligible(AsOf) : u.doc \in q.docs}}
    /\ UNCHANGED <<corpus, request, todo, answer, verdicts, history>>

\* classifyCitationMatches and refuseIfNotValid.
Verdict_First(q, ids) ==
    [query |-> q, status |-> IF ids = {} THEN "UNRESOLVED" ELSE "VALID",
     node |-> {id \in ids : \A x \in ids : id.number <= x.number}]

Verdict(q, ids) ==
    [query  |-> q,
     status |-> IF ids = {} THEN "UNRESOLVED"
                ELSE IF Cardinality(ids) = 1 THEN "VALID" ELSE "CONFLICT",
     node   |-> IF Cardinality(ids) = 1 THEN ids ELSE {}]

LoadMatches ==
    LET ids == {id \in matched : Admits(RowOf(id), AsOf)} IN
    /\ stage = "load"
    /\ stage' = "lookup"
    /\ todo' = Tail(todo)
    /\ \/ /\ request.by = "citations"
          /\ answer' = answer \cup {ToAuthority(id, RowOf(id)) : id \in ids}
          /\ UNCHANGED verdicts
       \/ /\ request.by = "verify"
          /\ verdicts' = Append(verdicts, Verdict(Head(todo), ids))
          /\ UNCHANGED answer
    /\ matched' = {}
    /\ UNCHANGED <<corpus, request, history>>

EndCitations ==
    /\ stage = "lookup" /\ ByCitation /\ todo = <<>>
    /\ IF request.by = "verify"
       THEN stage' = "answered" /\ answer' = answer
       ELSE Respond(answer)
    /\ UNCHANGED <<corpus, request, todo, matched, verdicts, history>>

(***************************************************************************)
(* By question: one ranked query joins nodes and versions.  What matches   *)
(* and what the limit leaves is any set of nodes; filterAndDedupeCandidates*)
(* keeps those that cover the instant, one for each provision.             *)
(***************************************************************************)
LookupQuestion ==
    LET rows == {v \in Eligible(AsOf) : Admits(v, AsOf)}
        ids  == UNION {IdsIn(v, TreeOf(v)) : v \in rows}
    IN  /\ stage = "lookup" /\ request.by = "question"
        /\ \E found \in SUBSET ids :
            /\ \A x, y \in found : (x.doc = y.doc /\ x.locator = y.locator) => x = y
            /\ Respond({ToAuthority(id, RowOf(id)) : id \in found})
        /\ UNCHANGED <<corpus, request, todo, matched, verdicts, history>>

Lookup == LookupNode \/ LookupDocument \/ LookupTree \/ LookupCitation
          \/ LoadMatches \/ EndCitations \/ LookupQuestion

\* The ingest publishes, at any moment.
Ingest ==
    /\ Next
    /\ current' = current \cup PublishedOf(corpus')
    /\ steady' = steady \cap PublishedOf(corpus')
    /\ UNCHANGED reader

ReaderNext == (\E r \in Requests : Ask(r)) \/ Lookup \/ Ingest

ReaderSpec == ReaderInit /\ [][ReaderNext]_vars

-----------------------------------------------------------------------------
Answered == stage = "answered"

WasCurrent(a) == \E v \in current : SameRow(v, a)

(***************************************************************************)
(* Without an instant, a lookup by document, citation or question returns  *)
(* the published law: each authority is of a version that was published at *)
(* some moment of the request, although the answer was put together from   *)
(* several queries (README.md:77).                                         *)
(***************************************************************************)
CurrentByDocumentOrCitation ==
    (Answered /\ AsOf = Unknown /\ request.by # "node") =>
        \A a \in answer : WasCurrent(a)

(***************************************************************************)
(* The same for every request, as README.md:77 says it of all of them:     *)
(* retrieve without asOf returns the current PUBLISHED snapshot.           *)
(***************************************************************************)
CurrentSnapshot == (Answered /\ AsOf = Unknown) => \A a \in answer : WasCurrent(a)

(***************************************************************************)
(* With an instant, everything that is returned or found VALID is of a     *)
(* version whose committed interval holds the instant, and later updates   *)
(* of the row never take that back (README.md:78).                         *)
(***************************************************************************)
AsOfAnswersHold ==
    (Answered /\ AsOf # Unknown) =>
        /\ \A a \in answer : CoversInstant(a, AsOf) /\ CoversInstant(RowOf(a), AsOf)
        /\ \A k \in DOMAIN verdicts : \A id \in verdicts[k].node :
                CoversInstant(RowOf(id), AsOf)

(***************************************************************************)
(* A document's answer is one text: all its authorities are nodes of one   *)
(* version, and all of that version's unless the list was cut, though the  *)
(* version and its tree are read apart (corpus-retrieval.ts:70-77).        *)
(***************************************************************************)
DocumentAnswerIsOneText ==
    (Answered /\ request.by = "document" /\ answer # {}) =>
        \E v \in corpus :
            /\ {[doc |-> a.doc, number |-> a.number, locator |-> a.locator] : a \in answer}
                    \subseteq IdsIn(v, TreeOf(v))
            /\ Cardinality(answer) < MaxAuthorities =>
                    Cardinality(answer) = Cardinality(TreeOf(v))

(***************************************************************************)
(* A citation that two provisions answer to is never presented as law:     *)
(* when one is found VALID, no other node it may mean, in any act it may   *)
(* mean, has been published since the request came (README.md:103).             *)
(***************************************************************************)
ValidIsUnambiguous ==
    AsOf = Unknown =>
        \A k \in DOMAIN verdicts : verdicts[k].status = "VALID" =>
            \A v \in steady : v.doc \in verdicts[k].query.docs =>
                IdsIn(v, verdicts[k].query.locators \cap (TreeOf(v) \ {Root}))
                    \subseteq verdicts[k].node
=============================================================================
