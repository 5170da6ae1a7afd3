------------------------------ MODULE Chunker ------------------------------
(* chunk_document (src/app/ingestion/chunker.py): the lines of a document's *)
(* pages become overlapping chunks.                                         *)
(*                                                                          *)
(* The words of the document are numbered in reading order.  The buffer     *)
(* always holds the words first..words: what was added since the last flush *)
(* and, before it, the overlap carried over.  A chunk is the interval it    *)
(* was flushed from and, where the tail of the document was folded into it, *)
(* the beginning of that tail.  A section path is the number of headings    *)
(* read so far; texts and ids are left out.                                 *)
EXTENDS Integers, Sequences, FiniteSets

CONSTANTS Sizes,      \* the (target, overlap, min) that chunk_document is called with
          MaxLine,    \* words of the longest line
          MaxWords,   \* bound: words of a document
          MaxPages    \* bound: pages of a document

\* What chunk_document accepts: it raises ValueError on another target or
\* overlap.  A negative minimum is as good as 0.
ASSUME SizesAssumption ==
    \A s \in Sizes : /\ s.target \in Nat \ {0} /\ s.overlap \in Nat /\ s.min \in Nat
                     /\ s.overlap < s.target

ASSUME BoundsAssumption ==
    MaxLine \in Nat \ {0} /\ MaxWords \in Nat /\ MaxPages \in Nat \ {0}

VARIABLES
    size,       \* the arguments of this call
    stage,      \* "reading" or "done"
    words,      \* words read
    page,       \* page of the next line
    heads,      \* headings read; buf.section_path
    first,      \* the buffer is the words first .. words
    pageStart,  \* buf.page_start, 0 for None
    pageEnd,    \* buf.page_end, 0 for None
    chunks,     \* chunks flushed so far
    pageOf,     \* history: the page of each word
    headAt      \* history: first words of the headings

input == <<words, page, heads, pageOf, headAt>>
buf   == <<first, pageStart, pageEnd>>
vars  == <<size, stage, input, buf, chunks>>

Chunk == [from : Nat, to : Nat, tail : Nat, section : Nat, start : Nat, end : Nat]

TypeOK ==
    /\ size \in Sizes
    /\ stage \in {"reading", "done"}
    /\ words \in Nat /\ page \in Nat \ {0} /\ heads \in Nat
    /\ first \in Nat \ {0}
    /\ pageStart \in Nat /\ pageEnd \in Nat
    /\ chunks \in Seq(Chunk)
    /\ pageOf \in [1 .. words -> Nat]
    /\ headAt \subseteq 1 .. words

Init ==
    /\ size \in Sizes
    /\ stage = "reading"
    /\ words = 0 /\ page = 1 /\ heads = 0
    /\ first = 1 /\ pageStart = 0 /\ pageEnd = 0
    /\ chunks = <<>>
    /\ pageOf = <<>> /\ headAt = {}

-----------------------------------------------------------------------------
(* The buffer.                                                              *)

MinOf(x, y) == IF x < y THEN x ELSE y
MaxOf(x, y) == IF x > y THEN x ELSE y

Length == words - first + 1

\* The chunk that flush() makes of a buffer that ends with the word "to".
Flushed(to, start, end) ==
    [from |-> first, to |-> to, tail |-> 0, section |-> heads, start |-> start, end |-> end]

\* Mutant: the carried words begin one too late.
MutCarry(from, to) == to - MinOf(size.overlap, to - from + 1) + 2

\* "buf.tokens[-overlap_tokens:]" of the words from..to: where they begin.
Carry(from, to) == to - MinOf(size.overlap, to - from + 1) + 1

\* page_start once a line on page p was added.
StartWith(p) == IF pageStart = 0 THEN p ELSE pageStart

\* k words on page p, the first of a heading or not, enter the document.
Read(k, p, heading) ==
    /\ words' = words + k
    /\ page' = p
    /\ heads' = IF heading THEN heads + 1 ELSE heads
    /\ pageOf' = [i \in 1 .. words + k |-> IF i <= words THEN pageOf[i] ELSE p]
    /\ headAt' = IF heading THEN headAt \cup {words + 1} ELSE headAt

\* Lines that may come next.  Pages without text and blank lines are skipped.
Line == {l \in [size : 1 .. MaxLine, page : 1 .. MaxPages] :
             words + l.size <= MaxWords /\ l.page >= page}

-----------------------------------------------------------------------------
(* The lines of the pages.                                                  *)

\* A line of text is added; the buffer is flushed once it reaches the target.
TextFits(l) ==
    /\ stage = "reading"
    /\ Length + l.size < size.target
    /\ Read(l.size, l.page, FALSE)
    /\ pageStart' = StartWith(l.page)
    /\ pageEnd' = l.page
    /\ UNCHANGED <<size, stage, first, chunks>>

TextFlushes(l) ==
    /\ stage = "reading"
    /\ Length + l.size >= size.target
    /\ Read(l.size, l.page, FALSE)
    /\ chunks' = Append(chunks, Flushed(words + l.size, StartWith(l.page), l.page))
    /\ first' = Carry(first, words + l.size)
    /\ pageStart' = l.page /\ pageEnd' = l.page
    /\ UNCHANGED <<size, stage>>

\* Mutant: a heading is no boundary.
MutHeadingJoins(l) ==
    /\ stage = "reading"
    /\ Read(l.size, l.page, TRUE)
    /\ pageStart' = StartWith(l.page)
    /\ pageEnd' = l.page
    /\ UNCHANGED <<size, stage, first, chunks>>

\* A heading joins a buffer that is shorter than the minimum, which it relabels.
HeadingJoins(l) ==
    /\ stage = "reading"
    /\ Length < size.min \/ Length = 0
    /\ Read(l.size, l.page, TRUE)
    /\ pageStart' = StartWith(l.page)
    /\ pageEnd' = l.page
    /\ UNCHANGED <<size, stage, first, chunks>>

\* Mutant: every heading is a boundary, also of a tiny buffer.
MutHardBoundary(l) ==
    /\ stage = "reading" /\ Length > 0
    /\ chunks' = Append(chunks, Flushed(words, pageStart, pageEnd))
    /\ Read(l.size, l.page, TRUE)
    /\ first' = Carry(first, words)
    /\ pageStart' = pageEnd /\ pageEnd' = l.page
    /\ UNCHANGED <<size, stage>>

\* Before any other heading the buffer is flushed; the heading follows the
\* overlap, whose page is taken to be that of the last word.
HeadingFlushes(l) ==
    /\ stage = "reading" /\ Length > 0 /\ Length >= size.min
    /\ chunks' = Append(chunks, Flushed(words, pageStart, pageEnd))
    /\ Read(l.size, l.page, TRUE)
    /\ first' = Carry(first, words)
    /\ pageStart' = pageEnd /\ pageEnd' = l.page
    /\ UNCHANGED <<size, stage>>

-----------------------------------------------------------------------------
(* The end of the document.                                                 *)

EndEmpty ==
    /\ stage = "reading" /\ Length = 0
    /\ stage' = "done"
    /\ UNCHANGED <<size, input, buf, chunks>>

\* Mutant: the tail is never folded.
MutEndFlushes ==
    /\ stage = "reading" /\ Length > 0
    /\ stage' = "done"
    /\ chunks' = Append(chunks, Flushed(words, pageStart, pageEnd))
    /\ first' = Carry(first, words)
    /\ pageStart' = pageEnd
    /\ UNCHANGED <<size, input, pageEnd>>

EndFlushes ==
    /\ stage = "reading" /\ Length > 0
    /\ chunks = <<>> \/ Length >= size.min
    /\ stage' = "done"
    /\ chunks' = Append(chunks, Flushed(words, pageStart, pageEnd))
    /\ first' = Carry(first, words)
    /\ pageStart' = pageEnd
    /\ UNCHANGED <<size, input, pageEnd>>

\* Mutant: a short tail is dropped.
MutEndDrops ==
    /\ stage = "reading" /\ Length > 0
    /\ chunks # <<>> /\ Length < size.min
    /\ stage' = "done"
    /\ UNCHANGED <<size, input, buf, chunks>>

\* Mutant: the last chunk keeps its page_end.
MutEndFolds ==
    /\ stage = "reading" /\ Length > 0
    /\ chunks # <<>> /\ Length < size.min
    /\ stage' = "done"
    /\ chunks' = [chunks EXCEPT ![Len(chunks)] = [@ EXCEPT !.tail = first]]
    /\ UNCHANGED <<size, input, buf>>

\* A tail that is too short is appended to the last chunk, carried words
\* included.
EndFolds ==
    /\ stage = "reading" /\ Length > 0
    /\ chunks # <<>> /\ Length < size.min
    /\ stage' = "done"
    /\ chunks' = [chunks EXCEPT ![Len(chunks)] = [@ EXCEPT !.tail = first, !.end = pageEnd]]
    /\ UNCHANGED <<size, input, buf>>

ReadLine ==
    \E l \in Line : TextFits(l) \/ TextFlushes(l) \/ HeadingJoins(l) \/ HeadingFlushes(l)

\* The list is returned.
Returned == stage = "done" /\ UNCHANGED vars

Next == ReadLine \/ EndEmpty \/ EndFlushes \/ EndFolds \/ Returned

Spec == Init /\ [][Next]_vars

-----------------------------------------------------------------------------
(* Properties.                                                              *)

\* The words a chunk's text consists of, and their number.
Covered(c) == (c.from .. c.to) \cup (IF c.tail = 0 THEN {} ELSE c.tail .. words)
TokenCount(c) == c.to - c.from + 1 + (IF c.tail = 0 THEN 0 ELSE words - c.tail + 1)

\* The words of a chunk that the chunk before it does not hold.
NewFrom(i) == IF i = 1 THEN 1 ELSE chunks[i - 1].to + 1

\* Every word of the document is in a chunk: no flush, fold or boundary loses
\* or skips one (chunker.py:174-200, 229-242).
NothingLost ==
    stage = "done" => \A w \in 1 .. words : \E i \in DOMAIN chunks : w \in Covered(chunks[i])

\* A chunk begins with the last overlap_tokens words of the one before it, or
\* with all of them if it is shorter (chunker.py:194).
OverlapExact ==
    \A i \in 2 .. Len(chunks) :
        LET p == chunks[i - 1]
        IN  chunks[i].from = p.to + 1 - MinOf(size.overlap, p.to - p.from + 1)

\* Chunks are as short as the target allows: a line is never cut, a heading is
\* added without a look at the target, and one tail may be folded in
\* (chunker.py:211-226, 230).
SizeBounded ==
    \A i \in DOMAIN chunks :
        TokenCount(chunks[i]) <=
            MaxOf(size.target - 1, MaxOf(size.min - 1, size.overlap) + MaxLine) + MaxLine
                + (IF chunks[i].tail = 0 THEN 0 ELSE size.min - 1)

\* There are no tiny chunks but in a document that is tiny as a whole
\* (chunker.py:162-163, 211, 230).
NoTinyChunk ==
    Len(chunks) > 1 =>
        \A i \in DOMAIN chunks : TokenCount(chunks[i]) >= MinOf(size.min, size.target)

\* The page range of a chunk holds the pages of all its words that were not
\* carried over (chunker.py:70-76, 195-200).
NewWordsInPages ==
    \A i \in DOMAIN chunks :
        \A w \in Covered(chunks[i]) :
            w >= NewFrom(i) => chunks[i].start <= pageOf[w] /\ pageOf[w] <= chunks[i].end

\* A chunk is labelled with the section its last word (before a folded tail)
\* stands in (chunker.py:187, 211-215).
SectionOfLastWord ==
    \A i \in DOMAIN chunks :
        chunks[i].section = Cardinality({h \in headAt : h <= chunks[i].to})

\* What a citation says of a chunk fits its words: their pages lie in its page
\* range, and its section is that of its last word (chunker.py:187, 197).
LabelsFit == NewWordsInPages /\ SectionOfLastWord

\* With an overlap below the minimum, as configured, every chunk adds text
\* to the ones before it (config.py:75-76).
EveryChunkAdds ==
    size.overlap < size.min => \A i \in DOMAIN chunks : chunks[i].to >= NewFrom(i)
=============================================================================
