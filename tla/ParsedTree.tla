------------------------------- MODULE ParsedTree -------------------------------
(***************************************************************************)
(* The LegalInfo parser (src/src/parsers/legalinfo/legalinfo-html.parser.ts)*)
(* as a machine that reads a document line by line and builds the tree of  *)
(* its provisions.  One action per branch of the loop over the lines.      *)
(*                                                                         *)
(* A line is what the loop's expressions tell of it: its kind, the number  *)
(* and the inserted number ("^") of the provision it names, the numbers    *)
(* below that ("5.1.2" is article 5, path 1.2), what it says beside a      *)
(* number of its own, and whether that is nothing.  The text of a node is  *)
(* the set of the lines it was put together from, in their order, and      *)
(* their words with it: appendText leaves a line out that the text         *)
(* includes already, as a whole, in a word or across two lines.            *)
(* Kinds: chrome, chapter, article and compound article (digits), word     *)
(* (an article whose number is spelled), annex, qualified (5.1), simple    *)
(* ("1." or "1)"), plain.                                                  *)
(***************************************************************************)
EXTENDS Naturals, Sequences, FiniteSets

CONSTANTS
    Lines,          \* the lines documents are made of
    MaxLines,       \* bound: the lines of a document
    Texts,          \* what lines say
    Includes(_, _)  \* whether a text has these words in it somewhere: its lines,
                    \* a function from their places to Texts, joined by spaces

Kinds == {"chrome", "chapter", "article", "word", "annex", "qualified",
          "simple", "plain"}

Line == [kind: Kinds, num: Seq(Nat), bis: Nat, path: Seq(Nat), says: Texts,
         blank: BOOLEAN]

ASSUME LinesAssumption ==
    /\ Lines \subseteq Line
    /\ MaxLines \in Nat
    /\ \A l \in Lines :
        /\ l.kind \in {"qualified", "simple"} => Len(l.num) = 1
        /\ l.kind = "qualified" => Len(l.path) \in 1..3
        /\ l.blank => l.kind \in {"qualified", "simple"}

VARIABLES
    read,       \* the lines read so far
    nodes,      \* the tree, in the order of creation; a parent is a place in it
    chapter, article, paragraph, clause,    \* the current ones, or None
    simple      \* locators of the paragraphs a "1." line has named

treeVars == <<read, nodes, chapter, article, paragraph, clause, simple>>

None == 0
Root == 1

(***************************************************************************)
(* "art-5^1/p-2/c-3" is [at |-> "art", num |-> <<5>>, bis |-> 1,           *)
(* path |-> <<2, 3>>].  The type of a node and its number fields say the   *)
(* same as its locator.                                                    *)
(***************************************************************************)
Locator == [at: {"doc", "ch", "art", "annex"}, num: Seq(Nat), bis: Nat, path: Seq(Nat)]

Node == [parent: Nat, locator: Locator, text: SUBSET Nat]

Loc(at, num, bis) == [at |-> at, num |-> num, bis |-> bis, path |-> <<>>]

TypeOf(l) ==
    CASE l.at = "doc"   -> "DOCUMENT"
      [] l.at = "ch"    -> "CHAPTER"
      [] l.at = "annex" -> "ANNEX"
      [] l.at = "art"   -> IF Len(l.path) = 0 THEN "ARTICLE"
                           ELSE IF Len(l.path) = 1 THEN "PARAGRAPH"
                           ELSE IF Len(l.path) = 2 THEN "CLAUSE" ELSE "SUB_CLAUSE"

TreeInit ==
    /\ read = <<>>
    /\ nodes = <<[parent |-> None, locator |-> Loc("doc", <<>>, 0), text |-> {}]>>
    /\ chapter = None /\ article = None /\ paragraph = None /\ clause = None
    /\ simple = {}

-----------------------------------------------------------------------------
(* Helpers of the loop.                                                    *)

First(S) == IF S = {} THEN None ELSE CHOOSE k \in S : \A i \in S : k <= i

Child(tree, parent, locator) ==
    First({k \in DOMAIN tree : tree[k].parent = parent /\ tree[k].locator = locator})

MakeNode(tree, parent, locator, text) ==
    Append(tree, [parent |-> parent, locator |-> locator, text |-> text])

\* The words of the text that is put together from these lines.
Written(lines) == [i \in lines |-> read[i].says]

Repeats(lines, words) == lines # {} /\ Includes(Written(lines), words)

\* What the line that is read next says, its number apart.
Words(l) == IF l.blank THEN {} ELSE {Len(read) + 1}

NewWords(lines, l) == IF Repeats(lines, l.says) THEN {} ELSE Words(l)

\* Adds a line whether the text has it or not.
AppendText_Always(tree, k, l) == [tree EXCEPT ![k].text = @ \cup Words(l)]

AppendText(tree, k, l) == [tree EXCEPT ![k].text = @ \cup NewWords(@, l)]

\* The locator of the child numbered n.
Below(tree, parent, n) ==
    [tree[parent].locator EXCEPT !.path = Append(@, n)]

\* Makes a second paragraph of the same number.
Ensure_Always(tree, parent, n) == MakeNode(tree, parent, Below(tree, parent, n), {})

\* ensureParagraph, ensureClause: a child of this locator, found or made.
Ensure(tree, parent, n) ==
    IF Child(tree, parent, Below(tree, parent, n)) # None THEN tree
    ELSE MakeNode(tree, parent, Below(tree, parent, n), {})

Reads(l) == read' = Append(read, l)

IsArticle(k) == TypeOf(nodes[k].locator) = "ARTICLE"

\* The article of this number that comes first, under the root or a chapter.
FindArticle(l) ==
    First({k \in DOMAIN nodes :
            IsArticle(k) /\ nodes[k].locator.num = l.num /\ nodes[k].locator.bis = l.bis})

ArticleParent == IF chapter # None THEN chapter ELSE Root

-----------------------------------------------------------------------------
(* The branches, in the order in which the loop tries them.                *)

Chrome(l) ==
    /\ l.kind = "chrome"
    /\ Reads(l)
    /\ UNCHANGED <<nodes, chapter, article, paragraph, clause, simple>>

\* parseChapterHeading: the number of a chapter is spelled.
ChapterNumber(l) == Loc("ch", l.num, l.bis)

Chapter(l) ==
    /\ l.kind = "chapter"
    /\ Reads(l)
    /\ nodes' = MakeNode(nodes, Root, ChapterNumber(l), Words(l))
    /\ chapter' = Len(nodes) + 1
    /\ article' = None /\ paragraph' = None /\ clause' = None
    /\ UNCHANGED simple

\* parseArticleWordHeading takes what follows "^" for the title.
ArticleNumber(l) == Loc("art", l.num, IF l.kind = "word" THEN 0 ELSE l.bis)

\* Leaves the paragraph and the clause of the article before.
Article_NoReset(l) ==
    /\ l.kind \in {"article", "word"}
    /\ Reads(l)
    /\ nodes' = MakeNode(nodes, ArticleParent, ArticleNumber(l), Words(l))
    /\ article' = Len(nodes) + 1
    /\ UNCHANGED <<chapter, paragraph, clause, simple>>

Article(l) ==
    /\ l.kind \in {"article", "word"}
    /\ Reads(l)
    /\ nodes' = MakeNode(nodes, ArticleParent, ArticleNumber(l), Words(l))
    /\ article' = Len(nodes) + 1
    /\ paragraph' = None /\ clause' = None
    /\ UNCHANGED <<chapter, simple>>

\* Hangs an annex below the article it follows.
Annex_UnderArticle(l) ==
    LET top == {k \in DOMAIN nodes : nodes[k].parent = Root} IN
    /\ l.kind = "annex"
    /\ Reads(l)
    /\ nodes' = MakeNode(nodes, IF article # None THEN article ELSE ArticleParent,
                         Loc("annex", <<Cardinality(top) + 1>>, 0), Words(l))
    /\ article' = None /\ paragraph' = None /\ clause' = None
    /\ UNCHANGED <<chapter, simple>>

\* An annex is numbered by the children of the root, also below a chapter.
Annex(l) ==
    LET top == {k \in DOMAIN nodes : nodes[k].parent = Root} IN
    /\ l.kind = "annex"
    /\ Reads(l)
    /\ nodes' = MakeNode(nodes, ArticleParent,
                         Loc("annex", <<Cardinality(top) + 1>>, 0), Words(l))
    /\ article' = None /\ paragraph' = None /\ clause' = None
    /\ UNCHANGED <<chapter, simple>>

(***************************************************************************)
(* "5.1": the line belongs to article 5, if the document has one, and to   *)
(* the current article otherwise.                                          *)
(***************************************************************************)
Target(l) ==
    IF /\ FindArticle(l) # None
       /\ ~(nodes[article].locator.num = l.num /\ nodes[article].locator.bis = l.bis)
    THEN FindArticle(l) ELSE article

\* The paragraph 5 of the target, if a line "5." has named it.
SimpleParagraph(l) ==
    First({k \in DOMAIN nodes :
            /\ nodes[k].parent = Target(l)
            /\ nodes[k].locator.path = l.num
            /\ nodes[k].locator \in simple})

\* "5.1" is clause 1 of a paragraph 5 of this kind.
QualifiedClause(l) ==
    LET numbered == SimpleParagraph(l)
        tree     == Ensure(nodes, numbered, l.path[1])
        at       == Child(tree, numbered, Below(tree, numbered, l.path[1]))
    IN  /\ l.kind = "qualified" /\ article # None
        /\ Len(l.path) = 1 /\ numbered # None
        /\ Reads(l)
        /\ nodes' = AppendText(tree, at, l)
        /\ article' = Target(l) /\ paragraph' = numbered /\ clause' = at
        /\ UNCHANGED <<chapter, simple>>

(***************************************************************************)
(* Otherwise "5.1" is paragraph 1 of article 5, "5.1.2" its clause 2, and  *)
(* "5.1.2.3" a sub-clause, always a new one.  After a sub-clause the       *)
(* current provision is its clause.                                        *)
(***************************************************************************)
QualifiedParagraph(l) ==
    LET target == Target(l)
        n      == Len(l.path)
        tree1  == Ensure(nodes, target, l.path[1])
        para   == Child(tree1, target, Below(tree1, target, l.path[1]))
        tree2  == IF n = 1 THEN tree1 ELSE Ensure(tree1, para, l.path[2])
        at     == IF n = 1 THEN None
                  ELSE Child(tree2, para, Below(tree2, para, l.path[2]))
    IN  /\ l.kind = "qualified" /\ article # None
        /\ n > 1 \/ SimpleParagraph(l) = None
        /\ Reads(l)
        /\ nodes' = IF n = 1 THEN AppendText(tree2, para, l)
                    ELSE IF n = 2 THEN AppendText(tree2, at, l)
                    ELSE MakeNode(tree2, at, Below(tree2, at, l.path[3]), Words(l))
        /\ article' = target /\ paragraph' = para /\ clause' = at
        /\ UNCHANGED <<chapter, simple>>

\* "1." or "1)": paragraph 1 of the current article.
Simple(l) ==
    LET tree == Ensure(nodes, article, l.num[1])
        at   == Child(tree, article, Below(tree, article, l.num[1]))
    IN  /\ l.kind = "simple" /\ article # None
        /\ Reads(l)
        /\ nodes' = AppendText(tree, at, l)
        /\ paragraph' = at /\ clause' = None
        /\ simple' = simple \cup {tree[at].locator}
        /\ UNCHANGED <<chapter, article>>

\* Any other line, and a numbered one before the first article, continues the
\* current provision; without one its words are dropped.
Continuation(l) ==
    LET at == IF clause # None THEN clause
              ELSE IF paragraph # None THEN paragraph ELSE article
    IN  /\ \/ l.kind = "plain"
           \/ l.kind \in {"qualified", "simple"} /\ article = None
        /\ Reads(l)
        /\ nodes' = IF at = None THEN nodes
                    ELSE AppendText(nodes, at, l)
        /\ UNCHANGED <<chapter, article, paragraph, clause, simple>>

TreeNext ==
    /\ Len(read) < MaxLines
    /\ \E l \in Lines :
        \/ Chrome(l) \/ Chapter(l) \/ Article(l) \/ Annex(l)
        \/ QualifiedClause(l) \/ QualifiedParagraph(l)
        \/ Simple(l) \/ Continuation(l)

TreeSpec == TreeInit /\ [][TreeNext]_treeVars
=============================================================================
