--------------------------- MODULE MCPublicationGate ---------------------------
(***************************************************************************)
(* Documents of a few lines for TLC: two articles, one of them also        *)
(* spelled with an inserted number, a chapter, an annex, and the numbered  *)
(* lines of both styles ("1.1." below "1.", "1.1.1." below "1.1.").  What  *)
(* they say are one or two words, which are in each other, in the heading  *)
(* of their article, or in two lines together.                             *)
(***************************************************************************)
EXTENDS PublicationGate, SequencesExt

Of(kind, num, bis, path, says) ==
    [kind |-> kind, num |-> num, bis |-> bis, path |-> path, says |-> says, blank |-> FALSE]

MCTexts == {<<"a">>, <<"b">>, <<"a", "b">>}

MCIncludes(lines, words) ==
    LET text == FlattenSeq([n \in 1..Cardinality(DOMAIN lines) |->
                    lines[CHOOSE i \in DOMAIN lines :
                            Cardinality({h \in DOMAIN lines : h <= i}) = n]])
    IN  \E n \in 0..(Len(text) - Len(words)) : SubSeq(text, n + 1, n + Len(words)) = words

MCLines ==
    { Of("chapter", <<1>>, 0, <<>>, <<"a">>),
      Of("article", <<1>>, 0, <<>>, <<"a">>), Of("article", <<2>>, 0, <<>>, <<"b">>),
      Of("word", <<1>>, 1, <<>>, <<"a", "b">>),
      Of("annex", <<>>, 0, <<>>, <<"a">>),
      Of("qualified", <<1>>, 0, <<1>>, <<"a">>), Of("qualified", <<1>>, 0, <<1, 1>>, <<"a">>),
      Of("qualified", <<1>>, 0, <<1, 1, 1>>, <<"b">>), Of("qualified", <<2>>, 0, <<1>>, <<"b">>),
      [Of("qualified", <<1>>, 0, <<2>>, <<"a">>) EXCEPT !.blank = TRUE],
      Of("simple", <<1>>, 0, <<>>, <<"a", "b">>),
      Of("plain", <<>>, 0, <<>>, <<"b">>), Of("chrome", <<>>, 0, <<>>, <<"a">>) }
=============================================================================
