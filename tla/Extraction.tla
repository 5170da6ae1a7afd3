----------------------------- MODULE Extraction -----------------------------
(* From a PDF to the pages the chunker gets: load_pdf of                    *)
(* src/app/ingestion/loader.py and clean_pages of cleaner.py.               *)
(*                                                                          *)
(* A line is the words on it, each a sequence of pieces: one piece, and     *)
(* more only once a hyphenated break has been joined.  The end of a line    *)
(* is "plain", "hyphen" (its last word is broken) or "hyphen_space" (blanks *)
(* follow the hyphen).  A word starts at the left margin of its line.       *)
(* The rest of the clean-up is layout: ligatures, blanks, empty lines.      *)
EXTENDS Integers, Sequences, FiniteSets, SequencesExt

CONSTANTS Words,     \* pieces that are text
          Numbers,   \* pieces that are a run of digits
          PageMarks  \* pieces that read "page 3 of 12"

ASSUME PiecesAssumption ==
    /\ Words \cap Numbers = {}
    /\ PageMarks \cap (Words \cup Numbers) = {}

-----------------------------------------------------------------------------
(* load_pdf.  What an extractor makes of a file is whether it got through   *)
(* and the pages it yields; a page on which it raised has no lines.         *)

IsBlank(line) == line.words = <<>>

\* The lines of a page that are not blank, by position.
Written(page) == {i \in DOMAIN page : ~IsBlank(page[i])}

\* Mutant: blank pages are an answer.
MutLoadPdf(plumber, pypdf) == IF plumber.ok = "yes" THEN plumber ELSE pypdf

\* any(p.text.strip() for p in pages)
HasText(read) == \E p \in DOMAIN read.pages : Written(read.pages[p]) # {}

\* pypdf is taken if pdfplumber raises or finds no text on any page.  If pypdf
\* raises in turn it is called once more, from the handler, and raises again.
LoadPdf(plumber, pypdf) ==
    IF plumber.ok = "yes" /\ HasText(plumber) THEN plumber ELSE pypdf

-----------------------------------------------------------------------------
(* _drop_repeated_headers.                                                  *)

\* line.strip()
Strip(line) == IF line.end = "hyphen_space" THEN [line EXCEPT !.end = "hyphen"]
               ELSE line

\* The pages that line heads, as their first line that is not blank.
HeadedBy(pages, line) ==
    {p \in DOMAIN pages :
        \E i \in Written(pages[p]) :
            /\ \A j \in Written(pages[p]) : i <= j
            /\ Strip(pages[p][i]) = line}

\* Mutant: a third, and no floor of 2.
MutThreshold(n) == n \div 3

Threshold(n) == IF n \div 2 > 2 THEN n \div 2 ELSE 2

IsRepeated(pages, line) ==
    /\ ~IsBlank(line)
    /\ Cardinality(HeadedBy(pages, Strip(line))) >= Threshold(Len(pages))

\* Mutant: only the first line of the page is looked at, were it blank.
MutDropFirst(pages, page) ==
    IF page # <<>> /\ IsRepeated(pages, page[1]) THEN Tail(page) ELSE page

\* The first line of the page that is in "repeated", wherever it stands, goes.
DropFirst(pages, page) ==
    LET hits == {i \in DOMAIN page : IsRepeated(pages, page[i])}
    IN  IF hits = {} THEN page
        ELSE RemoveAt(page, CHOOSE i \in hits : \A j \in hits : i <= j)

DropRepeatedHeaders(pages) ==
    IF Len(pages) < 4 THEN pages
    ELSE [p \in DOMAIN pages |-> DropFirst(pages, pages[p])]

-----------------------------------------------------------------------------
(* clean_page_text.                                                         *)

\* A bare number, or a page mark, alone on its line.
IsFooter(line) ==
    /\ line.end = "plain"
    /\ Len(line.words) = 1
    /\ \/ \A k \in DOMAIN line.words[1] : line.words[1][k] \in Numbers
       \/ Len(line.words[1]) = 1 /\ line.words[1][1] \in PageMarks

\* Mutant: trailing blanks are stripped before the breaks are joined.
MutJoined(page) ==
    LET joined[i \in 0 .. Len(page)] ==
            /\ i \in 1 .. Len(page) - 1
            /\ page[i].end # "plain" /\ ~IsBlank(page[i])
            /\ ~IsBlank(page[i + 1])
            /\ ~(joined[i - 1] /\ Len(page[i].words) = 1)
    IN  joined

\* _HYPHEN_LINEBREAK: whether the break after line i is joined.  A word that
\* the match before has used up is not matched again.
Joined(page) ==
    LET joined[i \in 0 .. Len(page)] ==
            /\ i \in 1 .. Len(page) - 1
            /\ page[i].end = "hyphen" /\ ~IsBlank(page[i])
            /\ ~IsBlank(page[i + 1])
            /\ ~(joined[i - 1] /\ Len(page[i].words) = 1)
    IN  joined

\* The text of a line, and the next one, with the break between them gone.
Glue(line, next) ==
    [words |-> Front(line.words)
               \o <<Last(line.words) \o Head(next.words)>>
               \o Tail(next.words),
     end   |-> next.end]

JoinHyphens(page) ==
    LET joined == Joined(page)
        text[i \in 0 .. Len(page)] ==
            IF i = 0 THEN <<>>
            ELSE IF joined[i - 1]
                 THEN Append(Front(text[i - 1]), Glue(Last(text[i - 1]), page[i]))
                 ELSE Append(text[i - 1], page[i])
    IN  text[Len(page)]

\* The loop of _strip_footers: what is in S is appended, the rest is passed by.
Keep(s, S) == FoldLeft(LAMBDA out, x : IF x \in S THEN Append(out, x) ELSE out, <<>>, s)

StripFooters(page) == Keep(page, {line \in ToSet(page) : ~IsFooter(line)})

CleanPageText(page) == StripFooters(JoinHyphens(page))

CleanPages(pages) ==
    LET kept == DropRepeatedHeaders(pages)
    IN  [p \in DOMAIN kept |-> CleanPageText(kept[p])]

-----------------------------------------------------------------------------
(* What is expected of it.                                                  *)

\* Every piece of a page, in reading order.
Pieces(page) == FlattenSeq(FlattenSeq([i \in DOMAIN page |-> page[i].words]))
TextOf(page) == Keep(Pieces(page), Words)
HasPiece(page, x) == x \in ToSet(Pieces(page))

\* No text of a page is lost or moved, save one line that heads at least two
\* fifths of the pages of a document of four pages or more.
TextSurvives(pages) ==
    LET clean == CleanPages(pages) IN
    \A p \in DOMAIN pages :
        \/ TextOf(clean[p]) = TextOf(pages[p])
        \/ /\ Len(pages) >= 4
           /\ \E i \in DOMAIN pages[p] :
                /\ TextOf(clean[p]) = TextOf(RemoveAt(pages[p], i))
                /\ 5 * Cardinality(HeadedBy(pages, Strip(pages[p][i])))
                        >= 2 * Len(pages)

\* Line i has all the text of page p, and heads two fifths of the pages.
IsCommonText(pages, p, i) ==
    /\ TextOf(RemoveAt(pages[p], i)) = <<>>
    /\ 5 * Cardinality(HeadedBy(pages, Strip(pages[p][i]))) >= 2 * Len(pages)

\* The pages with text on them.
WithText(pages) == {p \in DOMAIN pages : TextOf(pages[p]) # <<>>}

\* A document of which one extractor reads some text comes out of loading and
\* cleaning without any only if pdfplumber reads something else, page numbers,
\* on some page, so that pypdf is not asked, or if all the text on its pages is
\* a running header.
ReadableSurvives(plumber, pypdf) ==
    LET pages == LoadPdf(plumber, pypdf).pages
        IsRead(read) == read.ok = "yes" /\ WithText(read.pages) # {}
    IN  (IsRead(plumber) \/ IsRead(pypdf)) /\ WithText(CleanPages(pages)) = {} =>
            \/ plumber.ok = "yes" /\ HasText(plumber) /\ ~IsRead(plumber)
            \/ /\ Len(pages) >= 4 /\ WithText(pages) # {}
               /\ \A p \in WithText(pages) : \E i \in DOMAIN pages[p] : IsCommonText(pages, p, i)

\* A line that heads more than half of the pages of a document goes from each
\* page that it heads, once.
MajorityHeaderDropped(pages) ==
    LET kept == DropRepeatedHeaders(pages)
        Times(page, line) == Cardinality({i \in DOMAIN page : Strip(page[i]) = line})
        lines == UNION {{Strip(pages[p][i]) : i \in Written(pages[p])}
                            : p \in DOMAIN pages}
    IN  \A line \in lines :
            2 * Cardinality(HeadedBy(pages, line)) > Len(pages) /\ Len(pages) >= 4
            => \A p \in HeadedBy(pages, line) :
                    Times(kept[p], line) = Times(pages[p], line) - 1

\* What becomes of numbers (a page never has a piece twice): a footer stays
\* only behind a broken word, and any other number goes only if it is a broken
\* one, alone on its line, with a lone number on the line below or above.
NumbersExplained(page) ==
    LET clean == CleanPageText(page)
        Lone(i) == Len(page[i].words) = 1 /\ page[i].words[1][1] \in Numbers
    IN  \A i \in Written(page) : \A x \in ToSet(Pieces(<<page[i]>>)) \ Words :
            IF IsFooter(page[i])
            THEN HasPiece(clean, x) => i > 1 /\ page[i - 1].end = "hyphen"
            ELSE HasPiece(clean, x)
                 \/ /\ Lone(i)
                    /\ page[i].end = "hyphen"
                    /\ i < Len(page) /\ IsFooter(page[i + 1]) /\ Lone(i + 1)
=============================================================================
