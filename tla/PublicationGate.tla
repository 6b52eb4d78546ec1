----------------------------- MODULE PublicationGate -----------------------------
(***************************************************************************)
(* What stands between the parsed tree and publication: the confidence     *)
(* check, the gate with the evaluation of the structure it calls, and the  *)
(* counts the republication looks at (src/src/application/ingest/          *)
(* publication-gate.ts, src/src/parsers/legalinfo/confidence.ts,           *)
(* src/src/application/evaluation).  And what they make of the trees the   *)
(* parser builds, said in terms of the document's lines.                   *)
(*                                                                         *)
(* Left out: the table of expectations about ten known laws                *)
(* (specialLawReasons), the two checks that hold of every locator the      *)
(* parser writes (its form, its levels), text that is page chrome, and     *)
(* node ids and content hashes, which randomUUID and sha256Hex always give.*)
(***************************************************************************)
EXTENDS ParsedTree

-----------------------------------------------------------------------------
(* Operators on a tree.                                                    *)

Clash(tree) ==
    \E k \in DOMAIN tree : \E i \in 1..(k - 1) : tree[i].locator = tree[k].locator

\* The types a node of this type may stand under.
AllowedParents(type) ==
    CASE type \in {"CHAPTER"}          -> {"DOCUMENT"}
      [] type \in {"ARTICLE", "ANNEX"} -> {"DOCUMENT", "CHAPTER"}
      [] type = "PARAGRAPH"            -> {"ARTICLE"}
      [] type = "CLAUSE"               -> {"PARAGRAPH"}
      [] type = "SUB_CLAUSE"           -> {"CLAUSE"}
      [] OTHER                         -> {}

ParentAllowed(tree, k) ==
    IF tree[k].parent = None THEN TypeOf(tree[k].locator) = "DOCUMENT"
    ELSE /\ tree[k].parent \in DOMAIN tree
         /\ TypeOf(tree[tree[k].parent].locator) \in AllowedParents(TypeOf(tree[k].locator))

\* Nodes from which no root can be reached.
Cyclic(tree) ==
    \E S \in (SUBSET DOMAIN tree) \ {{}} : \A k \in S : tree[k].parent \in S

DocumentParents(tree) ==
    {k \in DOMAIN tree : tree[k].parent = None /\ TypeOf(tree[k].locator) = "DOCUMENT"}

\* evaluateVersionStructure.
StructurePasses(tree) ==
    /\ Cardinality(DocumentParents(tree)) = 1
    /\ \A k \in DOMAIN tree : ParentAllowed(tree, k)
    /\ ~Cyclic(tree)
    /\ ~Clash(tree)

\* assessParseConfidence: an article, none of them number 0, and some text,
\* which the heading of an article always is.
ConfidenceOk(tree, titled) ==
    LET articles == {k \in DOMAIN tree : TypeOf(tree[k].locator) = "ARTICLE"} IN
    /\ titled
    /\ articles # {}
    /\ \A k \in articles : tree[k].locator.num = <<0>> => tree[k].locator.bis # 0
    /\ ~Clash(tree)

\* The reasons of assessPublicationGate, the special laws apart.
GateReasons(tree, titled, sameBytes) ==
    {r \in {"confidence", "archive_hash_mismatch", "duplicate_locators",
            "invalid_parent_relationships", "broken_article_hierarchy"} :
        \/ r = "confidence" /\ ~ConfidenceOk(tree, titled)
        \/ r = "archive_hash_mismatch" /\ ~sameBytes
        \/ r = "duplicate_locators" /\ Clash(tree)
        \/ r = "invalid_parent_relationships"
           /\ \E k \in DOMAIN tree : ~ParentAllowed(tree, k)
        \/ r = "broken_article_hierarchy"
           /\ Cardinality(DocumentParents(tree)) # 1}

\* ingestOne publishes (or, in a dry run, reports ready) on this condition.
Accepted(tree, titled, sameBytes) ==
    ConfidenceOk(tree, titled) /\ GateReasons(tree, titled, sameBytes) = {}

-----------------------------------------------------------------------------
(* The same in terms of the lines: where a reader of the document, who     *)
(* keeps his place but no tree, finds the words of each line.              *)

Nowhere == Loc("doc", <<>>, 0)

IsHeading(l) == l.kind \in {"article", "word"}

Numbered(l) == l.kind \in {"qualified", "simple"}

(***************************************************************************)
(* The provision that is current after line i (below a sub-clause: its     *)
(* clause), or Nowhere.                                                    *)
(***************************************************************************)
Standing[i \in 0..Len(read)] ==
    IF i = 0 THEN Nowhere
    ELSE LET l       == read[i]
             before  == Standing[i - 1]
             art     == IF \E j \in 1..(i - 1) :
                              IsHeading(read[j]) /\ ArticleNumber(read[j]) = Loc("art", l.num, l.bis)
                        THEN Loc("art", l.num, l.bis)
                        ELSE [before EXCEPT !.path = <<>>]
             \* A line "n." has named paragraph n of this article.
             listed  == \E j \in 1..(i - 1) :
                            read[j].kind = "simple" /\ Standing[j] = [art EXCEPT !.path = l.num]
         IN  CASE l.kind \in {"chapter", "annex"}              -> Nowhere
               [] IsHeading(l)                                 -> ArticleNumber(l)
               [] l.kind = "simple" /\ before # Nowhere        -> [before EXCEPT !.path = l.num]
               [] l.kind = "qualified" /\ before # Nowhere     ->
                    IF Len(l.path) = 1 /\ listed
                    THEN [art EXCEPT !.path = l.num \o l.path]
                    ELSE [art EXCEPT !.path = IF Len(l.path) = 3 THEN SubSeq(l.path, 1, 2)
                                              ELSE l.path]
               [] OTHER                                        -> before

IsSubClause(i) ==
    read[i].kind = "qualified" /\ Len(read[i].path) = 3 /\ Standing[i - 1] # Nowhere

\* The lines that open something below the root: chapters, and articles and
\* annexes before the first chapter.
TopLines(i) ==
    {j \in 1..i : \/ read[j].kind = "chapter"
                  \/ /\ IsHeading(read[j]) \/ read[j].kind = "annex"
                     /\ \A h \in 1..j : read[h].kind # "chapter"}

\* Where the words of line i are.
Place(i) ==
    LET l == read[i] IN
    IF l.kind = "chapter" THEN ChapterNumber(l)
    ELSE IF l.kind = "annex" THEN Loc("annex", <<Cardinality(TopLines(i - 1)) + 1>>, 0)
    ELSE IF IsSubClause(i) THEN [Standing[i] EXCEPT !.path = l.path]
    ELSE Standing[i]

Says(i) == read[i].kind # "chrome" /\ ~read[i].blank

\* Two headings, or two sub-clauses, of one name.
NamedTwice ==
    \E i, j \in DOMAIN read :
        /\ i < j
        /\ \A k \in {i, j} :
            IsHeading(read[k]) \/ IsSubClause(k) \/ read[k].kind \in {"chapter", "annex"}
        /\ Place(i) = Place(j)

\* An article has been opened, and no chapter or annex since.
InArticle(i) ==
    \E h \in 1..i : /\ IsHeading(read[h])
                    /\ \A j \in h..i : read[j].kind \notin {"chapter", "annex"}

HasPlace(i) == read[i].kind \in {"chapter", "annex"} \/ InArticle(i)

\* The earlier ones of these lines say already what line i says.
SaidBefore(i, lines) == Repeats({h \in lines : h < i}, read[i].says)

-----------------------------------------------------------------------------
(* Properties.                                                             *)

(***************************************************************************)
(* In every tree that may be published, the text of each provision is the  *)
(* lines that the document prints under it, no line being in two           *)
(* provisions and none staying with one that was left behind, but without  *)
(* the lines whose words its earlier ones include: a note that is there    *)
(* twice, or a "5" after "15", is dropped (appendText).  A line belongs to *)
(* a provision exactly if it opens one or an article is open: what stands  *)
(* before the first article, and between the heading of a chapter or an    *)
(* annex and the next article, is kept nowhere                             *)
(* (legalinfo-html.parser.ts:95-263, 399-408).                             *)
(***************************************************************************)
TextIsInPlace ==
    Accepted(nodes, TRUE, TRUE) =>
        /\ \A k \in DOMAIN nodes \ {Root} :
            nodes[k].text = {i \in DOMAIN read :
                                /\ Says(i) /\ Place(i) = nodes[k].locator
                                /\ ~SaidBefore(i, nodes[k].text)}
        /\ \A i \in DOMAIN read :
            HasPlace(i) <=> \E k \in DOMAIN nodes \ {Root} : nodes[k].locator = Place(i)

(***************************************************************************)
(* A document is accepted exactly when it has an article and names no      *)
(* heading and no sub-clause twice: numbered lines may come back to a      *)
(* paragraph in any order and through any article without making the       *)
(* locators clash (ensureParagraph, ensureClause, publication-gate.ts).    *)
(***************************************************************************)
VerdictFollowsLines ==
    \A titled, sameBytes \in BOOLEAN :
        Accepted(nodes, titled, sameBytes) <=>
            /\ titled /\ sameBytes
            /\ \E i \in DOMAIN read : IsHeading(read[i])
            /\ \A i \in DOMAIN read :
                IsHeading(read[i]) => read[i].num # <<0>> \/ ArticleNumber(read[i]).bis # 0
            /\ ~NamedTwice

(***************************************************************************)
(* Whatever the lines, the structure the parser builds can fail the        *)
(* evaluation in one way only, two nodes of one locator: each node stands  *)
(* under one made before it, of a type it may stand under, although the    *)
(* current article, paragraph and clause are four variables that each      *)
(* branch sets by itself (evaluate-version.ts:27-92).                      *)
(***************************************************************************)
ClashIsTheOnlyFault == StructurePasses(nodes) <=> ~Clash(nodes)
=============================================================================
