---------------------------- MODULE MCFunctions -----------------------------
(* Small inputs of PureFunctions for TLC.                                   *)
EXTENDS PureFunctions

SmallWords == {"h", "g", "w1", "w2", "w3", "w4", "w5"}
SmallNumbers == {"1", "2", "3", "4", "5"}
SmallPageMarks == {"m1", "m2", "m3", "m4", "m5"}

Distinct(n) == {s \in BoundedSeq(Ids, n) : IsInjective(s)}

\* Lists of up to three, of four passages.
SmallRankings == Distinct(3)
SmallCuts == 1 .. 4

Line(words, end) == [words |-> [i \in DOMAIN words |-> <<words[i]>>], end |-> end]
Plain(word) == Line(<<word>>, "plain")
Text   == <<"w1", "w2", "w3", "w4", "w5">>
Number == <<"1", "2", "3", "4", "5">>
Mark   == <<"m1", "m2", "m3", "m4", "m5">>

\* An extractor raises, or reads three or four pages, each of them blank, or a
\* page number, a header or text of its own.
SmallReads ==
    LET read(p) == {<<>>, <<Plain(Number[p])>>, <<Plain("h")>>, <<Plain(Text[p])>>}
    IN  {[ok |-> "no", pages |-> <<>>]} \cup
        {[ok |-> "yes", pages |-> SubSeq(<<a, b, c, d>>, 1, n)] :
            a \in read(1), b \in read(2), c \in read(3), d \in read(4), n \in 3 .. 4}

\* Three to five pages with two running headers, h and g, page numbers and text
\* of their own.
SmallPageLists ==
    LET page(p) ==
            LET h == Plain("h") g == Plain("g") own == Plain(Text[p])
            IN  {<<>>, <<own>>, <<own, h>>, <<h, own>>, <<h, g>>, <<g, own, h>>,
                 <<Line(<<>>, "plain"), Line(<<"h">>, "plain"), h>>,
                 <<Plain(Number[p]), h, own>>, <<Line(<<"h">>, "hyphen"), own>>}
    IN  {SubSeq(<<a, b, c, d, e>>, 1, n) :
            a \in page(1), b \in page(2), c \in page(3), d \in page(4), e \in page(5),
            n \in 3 .. 5}

\* One to four lines: a number or a page mark, one word or two, broken or not.
SmallNumberedPages ==
    LET line(i) ==
            {Line(<<>>, "plain"), Plain(Number[i]), Plain(Mark[i]), Plain(Text[i])}
            \cup {Line(words, end) :
                    words \in {<<Number[i]>>, <<Text[i]>>, <<Text[i], Number[i]>>},
                    end \in {"hyphen", "hyphen_space"}}
    IN  {SubSeq(<<a, b, c, d>>, 1, n) :
            a \in line(1), b \in line(2), c \in line(3), d \in line(4), n \in 1 .. 4}

\* Texts beyond the longest preview, 6.
SmallFlats == {s \in BoundedSeq({"c", ".", "blank"}, 9) : IsFlat(s)}

SmallChunks == {[long |-> l, toc |-> t, text |-> s] :
                  l \in {"yes", "no"}, t \in {"yes", "no"},
                  s \in {<<"c">>, <<"c", ".", "blank", "c", "c", "c", "c", "c">>}}
SmallChunkLists == BoundedSeq(SmallChunks, 4)

SmallGoldLists == Distinct(3) \ {<<>>}
SmallResultLists == BoundedSeq(Ids, 4)
SmallItemCounts == 1 .. 200
=============================================================================
