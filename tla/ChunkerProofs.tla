--------------------------- MODULE ChunkerProofs ---------------------------
(* Proofs about Chunker, for any sizes that chunk_document accepts and any  *)
(* document: types, that no word is lost, that each chunk begins with       *)
(* exactly the overlap, how long and how short chunks can be, and that      *)
(* their labels fit.                                                        *)
(*                                                                          *)
(* All need to know what the buffer holds: it begins where the overlap of   *)
(* the last chunk does, never after the next word to be read, so a word     *)
(* before it is in a chunk; and no chunk has a folded tail yet (IInv).  The *)
(* sizes (SInv) and the labels (LInv) are invariants of their own on top.   *)
EXTENDS Chunker, FiniteSetTheorems, TLAPS

\* The buffer begins at the next word at the latest.
BufferJoins == first <= words + 1

\* Only the end of the document folds a tail.
NoTailYet == stage = "reading" => \A i \in DOMAIN chunks : chunks[i].tail = 0

\* A chunk is not empty and ends with a word that was read.
ChunksNonempty ==
    \A i \in DOMAIN chunks : chunks[i].from <= chunks[i].to /\ chunks[i].to <= words

\* A word that is not in the buffer is in a chunk.
Kept ==
    \A w \in 1 .. words : \/ stage = "reading" /\ w >= first
                          \/ \E i \in DOMAIN chunks : w \in Covered(chunks[i])

\* The buffer begins with the overlap of the last chunk.
BufferCarries ==
    stage = "reading" /\ Len(chunks) > 0 =>
        first = Carry(chunks[Len(chunks)].from, chunks[Len(chunks)].to)

Places == TypeOK /\ BufferJoins /\ NoTailYet /\ ChunksNonempty

IInv == Places /\ Kept /\ BufferCarries /\ OverlapExact

-----------------------------------------------------------------------------
\* Where the carried words of from..to begin: in from..to, or behind them.
LEMMA CarryBounds ==
  ASSUME size \in Sizes, NEW from \in Nat \ {0}, NEW to \in Nat, from <= to + 1
  PROVE  Carry(from, to) \in Nat \ {0} /\ from <= Carry(from, to) /\ Carry(from, to) <= to + 1
  BY SizesAssumption DEF Carry, MinOf

\* The history of pages stays a function on the words read.
LEMMA ReadTypes ==
  ASSUME TypeOK, NEW k \in Nat \ {0}, NEW p \in Nat \ {0}, NEW heading \in BOOLEAN,
         Read(k, p, heading)
  PROVE  /\ words' = words + k /\ words' \in Nat
         /\ page' \in Nat \ {0} /\ heads' \in Nat
         /\ pageOf' \in [1 .. words' -> Nat]
         /\ headAt' \subseteq 1 .. words'
<1>1. words' = words + k /\ words' \in Nat /\ page' \in Nat \ {0} /\ heads' \in Nat
  BY DEF Read, TypeOK
<1>2. pageOf' \in [1 .. words' -> Nat]
  BY <1>1 DEF Read, TypeOK
<1>3. headAt' \subseteq 1 .. words'
  BY <1>1 DEF Read, TypeOK
<1>4. QED
  BY <1>1, <1>2, <1>3

\* A line has at least one word and stands on a page.
LEMMA LineTypes ==
  ASSUME TypeOK, NEW l \in Line
  PROVE  l.size \in Nat \ {0} /\ l.page \in Nat \ {0}
  BY BoundsAssumption DEF Line, TypeOK

\* What a flush makes is a chunk, and the list stays one with it at its end.
LEMMA FlushTypes ==
  ASSUME TypeOK, NEW to \in Nat, NEW start \in Nat, NEW end \in Nat
  PROVE  /\ Flushed(to, start, end) \in Chunk
         /\ Append(chunks, Flushed(to, start, end)) \in Seq(Chunk)
  BY DEF Flushed, Chunk, TypeOK

\* The list after a flush: the old chunks and the new one.
LEMMA Appended ==
  ASSUME TypeOK, NEW to \in Nat, NEW start \in Nat, NEW end \in Nat,
         chunks' = Append(chunks, Flushed(to, start, end))
  PROVE  /\ chunks' \in Seq(Chunk)
         /\ Len(chunks') = Len(chunks) + 1
         /\ DOMAIN chunks = 1 .. Len(chunks) /\ DOMAIN chunks' = 1 .. Len(chunks')
         /\ \A i \in DOMAIN chunks : i \in DOMAIN chunks' /\ chunks'[i] = chunks[i]
         /\ chunks'[Len(chunks')] = Flushed(to, start, end)
         /\ Len(chunks) \in Nat
<1>1. Flushed(to, start, end) \in Chunk /\ chunks \in Seq(Chunk)
  BY FlushTypes DEF TypeOK
<1>2. QED
  BY <1>1

\* A flush of the words first..to keeps the invariant: they are the new chunk,
\* and the buffer that is left begins with their overlap.
LEMMA FlushKeeps ==
  ASSUME IInv, TypeOK', stage = "reading", size' = size,
         NEW to \in Nat, NEW start \in Nat, NEW end \in Nat,
         first <= to, words <= to, to <= words', stage' = "reading" \/ to = words',
         chunks' = Append(chunks, Flushed(to, start, end)),
         first' = Carry(first, to)
  PROVE  IInv'
<1> DEFINE n == Len(chunks')
<1>1. /\ Len(chunks) \in Nat /\ n = Len(chunks) + 1
      /\ DOMAIN chunks = 1 .. Len(chunks) /\ DOMAIN chunks' = 1 .. n
      /\ \A i \in DOMAIN chunks : i \in DOMAIN chunks' /\ chunks'[i] = chunks[i]
  BY Appended DEF IInv, Places
<1>2. chunks'[n] = Flushed(to, start, end)
  BY Appended DEF IInv, Places
<1>3. /\ chunks'[n].from = first /\ chunks'[n].to = to /\ chunks'[n].tail = 0
  BY <1>2 DEF Flushed
<1>4. /\ first \in Nat \ {0} /\ words \in Nat /\ words' \in Nat /\ size \in Sizes
      /\ first' \in Nat \ {0}
  BY DEF IInv, Places, TypeOK
<1>5. first' <= to + 1
  BY <1>4, CarryBounds
<1>6. \A i \in DOMAIN chunks : chunks[i].tail = 0 /\ chunks[i] \in Chunk
  BY DEF IInv, Places, NoTailYet, TypeOK
<1> HIDE DEF n
<1>7. BufferJoins'
  BY <1>4, <1>5 DEF BufferJoins
<1>8. NoTailYet'
  BY <1>1, <1>3, <1>6 DEF NoTailYet
<1>9. ChunksNonempty'
  <2> SUFFICES ASSUME NEW i \in DOMAIN chunks'
               PROVE  chunks'[i].from <= chunks'[i].to /\ chunks'[i].to <= words'
    BY DEF ChunksNonempty
  <2>1. CASE i = n
    BY <2>1, <1>3
  <2>2. CASE i # n
    <3>1. i \in DOMAIN chunks /\ chunks'[i] = chunks[i]
      BY <2>2, <1>1
    <3>2. chunks[i].from <= chunks[i].to /\ chunks[i].to <= words /\ chunks[i].to \in Nat
      BY <3>1, <1>6 DEF IInv, Places, ChunksNonempty, Chunk
    <3>3. QED
      BY <3>1, <3>2, <1>4
  <2>3. QED
    BY <2>1, <2>2
<1>10. Kept'
  <2> SUFFICES ASSUME NEW w \in 1 .. words',
                      ~(stage' = "reading" /\ w >= first')
               PROVE  \E i \in DOMAIN chunks' : w \in Covered(chunks[i])'
    BY DEF Kept
  <2>1. w <= to
    BY <1>4, <1>5
  <2>2. CASE w >= first
    <3>1. PICK k \in DOMAIN chunks' : k = n
      BY <1>1
    <3>2. w \in Covered(chunks[k])'
      BY <3>1, <2>1, <2>2, <1>3, <1>4 DEF Covered
    <3>3. QED
      BY <3>2
  <2>3. CASE w < first
    <3>1. w \in 1 .. words
      BY <2>3, <1>4 DEF IInv, Places, BufferJoins
    <3>2. PICK i \in DOMAIN chunks : w \in Covered(chunks[i])
      BY <3>1, <2>3, <1>4 DEF IInv, Kept
    <3>3. Covered(chunks[i])' = Covered(chunks[i])
      BY <1>1, <1>6 DEF Covered
    <3>4. QED
      BY <3>2, <3>3, <1>1
  <2>4. QED
    BY <2>2, <2>3, <1>4
<1>11. BufferCarries'
  BY <1>3 DEF BufferCarries, Carry, n
<1>12. OverlapExact'
  <2> SUFFICES ASSUME NEW i \in 2 .. n
               PROVE  chunks'[i].from =
                        chunks'[i - 1].to + 1
                          - MinOf(size.overlap, chunks'[i - 1].to - chunks'[i - 1].from + 1)
    BY DEF OverlapExact, n
  <2>1. CASE i = n
    <3>1. Len(chunks) > 0 /\ i - 1 = Len(chunks) /\ i - 1 \in DOMAIN chunks
      BY <2>1, <1>1
    <3>2. PICK p \in Chunk : p = chunks[i - 1] /\ p = chunks'[i - 1]
      BY <3>1, <1>1, <1>6
    <3>3. chunks'[i].from = Carry(p.from, p.to)
      BY <3>1, <3>2, <2>1, <1>3 DEF IInv, BufferCarries
    <3>4. p.to \in Nat /\ MinOf(size.overlap, p.to - p.from + 1) \in Int
      BY <1>4, SizesAssumption DEF MinOf, Chunk
    <3>5. p.to - MinOf(size.overlap, p.to - p.from + 1) + 1
            = p.to + 1 - MinOf(size.overlap, p.to - p.from + 1)
      BY <3>4
    <3>6. QED
      BY <3>2, <3>3, <3>5 DEF Carry
  <2>2. CASE i # n
    <3>1. i \in 2 .. Len(chunks) /\ i \in DOMAIN chunks /\ i - 1 \in DOMAIN chunks
      BY <2>2, <1>1
    <3>2. chunks'[i] = chunks[i] /\ chunks'[i - 1] = chunks[i - 1]
      BY <3>1, <1>1
    <3>3. QED
      BY <3>1, <3>2 DEF IInv, OverlapExact
  <2>3. QED
    BY <2>1, <2>2
<1>13. QED
  BY <1>7, <1>8, <1>9, <1>10, <1>11, <1>12 DEF IInv, Places

\* A buffer that joins the words read still does when more words follow.
LEMMA StillJoins ==
  ASSUME NEW a \in Nat, NEW b \in Nat, NEW k \in Nat, a <= b + 1
  PROVE  a <= (b + k) + 1
  OBVIOUS

\* Nothing changes for the chunks when words only join the buffer.
LEMMA GrowKeeps ==
  ASSUME IInv, TypeOK', stage = "reading", stage' = "reading", size' = size,
         NEW k \in Nat, words' = words + k, first' = first, chunks' = chunks
  PROVE  IInv'
<1>1. /\ first \in Nat \ {0} /\ words \in Nat /\ words' \in Nat /\ words <= words'
      /\ \A i \in DOMAIN chunks : chunks[i].tail = 0 /\ chunks[i] \in Chunk
  BY DEF IInv, Places, TypeOK, NoTailYet
<1>2. BufferJoins' /\ NoTailYet'
  <2>1. first <= words + 1
    BY DEF IInv, Places, BufferJoins
  <2>2. first <= (words + k) + 1
    BY <2>1, <1>1, StillJoins
  <2>3. QED
    BY <2>2, <1>1 DEF BufferJoins, NoTailYet
<1>3. ChunksNonempty'
  <2> SUFFICES ASSUME NEW i \in DOMAIN chunks
               PROVE  chunks[i].from <= chunks[i].to /\ chunks[i].to <= words'
    BY DEF ChunksNonempty
  <2>1. chunks[i].from <= chunks[i].to /\ chunks[i].to <= words /\ chunks[i].to \in Nat
    BY <1>1 DEF IInv, Places, ChunksNonempty, Chunk
  <2>2. QED
    BY <2>1, <1>1
<1>4. Kept'
  <2> SUFFICES ASSUME NEW w \in 1 .. words', ~(w >= first)
               PROVE  \E i \in DOMAIN chunks : w \in Covered(chunks[i])'
    BY DEF Kept
  <2>1. w \in 1 .. words
    BY <1>1 DEF IInv, Places, BufferJoins
  <2>2. PICK i \in DOMAIN chunks : w \in Covered(chunks[i])
    BY <2>1 DEF IInv, Kept
  <2>3. Covered(chunks[i])' = Covered(chunks[i])
    BY <1>1 DEF Covered
  <2>4. QED
    BY <2>2, <2>3
<1>5. BufferCarries' /\ OverlapExact'
  BY DEF IInv, BufferCarries, OverlapExact, Carry
<1>6. QED
  BY <1>2, <1>3, <1>4, <1>5 DEF IInv, Places

\* Reading a line keeps the invariant.
LEMMA ReadKeeps ==
  ASSUME IInv, ReadLine
  PROVE  IInv'
<1>0. PICK l \in Line : TextFits(l) \/ TextFlushes(l) \/ HeadingJoins(l) \/ HeadingFlushes(l)
  BY DEF ReadLine
<1> DEFINE k == l.size
           p == l.page
<1>1. /\ TypeOK /\ k \in Nat \ {0} /\ p \in Nat \ {0}
      /\ size \in Sizes /\ first \in Nat \ {0} /\ words \in Nat
      /\ pageStart \in Nat /\ pageEnd \in Nat /\ first <= words + 1
      /\ chunks \in Seq(Chunk)
  BY LineTypes DEF IInv, Places, TypeOK, BufferJoins
<1>2. StartWith(p) \in Nat
  BY <1>1 DEF StartWith
<1> HIDE DEF k, p
<1>3. CASE TextFits(l)
  <2>1. /\ stage = "reading" /\ Read(k, p, FALSE) /\ pageStart' = StartWith(p) /\ pageEnd' = p
        /\ UNCHANGED <<size, stage, first, chunks>>
    BY <1>3 DEF TextFits, k, p
  <2>2. TypeOK' /\ words' = words + k
    BY <2>1, <1>1, <1>2, ReadTypes DEF TypeOK
  <2>3. QED
    BY <2>1, <2>2, <1>1, GrowKeeps
<1>4. CASE HeadingJoins(l)
  <2>1. /\ stage = "reading" /\ Read(k, p, TRUE) /\ pageStart' = StartWith(p) /\ pageEnd' = p
        /\ UNCHANGED <<size, stage, first, chunks>>
    BY <1>4 DEF HeadingJoins, k, p
  <2>2. TypeOK' /\ words' = words + k
    BY <2>1, <1>1, <1>2, ReadTypes DEF TypeOK
  <2>3. QED
    BY <2>1, <2>2, <1>1, GrowKeeps
<1>5. CASE TextFlushes(l)
  <2>1. /\ stage = "reading" /\ Read(k, p, FALSE)
        /\ chunks' = Append(chunks, Flushed(words + k, StartWith(p), p))
        /\ first' = Carry(first, words + k)
        /\ pageStart' = p /\ pageEnd' = p /\ UNCHANGED <<size, stage>>
    BY <1>5 DEF TextFlushes, k, p
  <2>2. chunks' \in Seq(Chunk) /\ words + k \in Nat /\ p \in Nat
    BY <2>1, <1>1, <1>2, FlushTypes
  <2>3. first <= words + k /\ first <= (words + k) + 1
    BY <1>1
  <2>4. first' \in Nat \ {0}
    BY <2>1, <2>2, <2>3, <1>1, CarryBounds
  <2>5. TypeOK' /\ words' = words + k
    BY <2>1, <2>2, <2>4, <1>1, <1>2, ReadTypes DEF TypeOK
  <2>6. QED
    BY <2>1, <2>2, <2>3, <2>5, <1>1, <1>2, FlushKeeps
<1>6. CASE HeadingFlushes(l)
  <2>1. /\ stage = "reading" /\ Length > 0 /\ Read(k, p, TRUE)
        /\ chunks' = Append(chunks, Flushed(words, pageStart, pageEnd))
        /\ first' = Carry(first, words)
        /\ pageStart' = pageEnd /\ pageEnd' = p /\ UNCHANGED <<size, stage>>
    BY <1>6 DEF HeadingFlushes, k, p
  <2>2. chunks' \in Seq(Chunk)
    BY <2>1, <1>1, FlushTypes
  <2>3. first' \in Nat \ {0} /\ first <= words
    BY <2>1, <1>1, CarryBounds DEF Length
  <2>4. TypeOK' /\ words' = words + k
    BY <2>1, <2>2, <2>3, <1>1, <1>2, ReadTypes DEF TypeOK
  <2>5. QED
    BY <2>1, <2>2, <2>3, <2>4, <1>1, FlushKeeps
<1>7. QED
  BY <1>0, <1>3, <1>4, <1>5, <1>6

\* So does the end of the document: an empty buffer holds no word, another one
\* is flushed or becomes the tail of the last chunk.
LEMMA EndKeeps ==
  ASSUME IInv, EndEmpty \/ EndFlushes \/ EndFolds
  PROVE  IInv'
<1>1. /\ TypeOK /\ size \in Sizes /\ first \in Nat \ {0} /\ words \in Nat
      /\ pageStart \in Nat /\ pageEnd \in Nat /\ first <= words + 1
      /\ chunks \in Seq(Chunk) /\ DOMAIN chunks = 1 .. Len(chunks) /\ Len(chunks) \in Nat
  BY DEF IInv, Places, TypeOK, BufferJoins
<1>2. CASE EndEmpty
  <2>1. /\ stage = "reading" /\ Length = 0 /\ stage' = "done"
        /\ UNCHANGED <<size, input, buf, chunks>>
    BY <1>2 DEF EndEmpty
  <2>2. TypeOK' /\ BufferJoins' /\ NoTailYet' /\ ChunksNonempty' /\ BufferCarries' /\ OverlapExact'
    BY <2>1 DEF IInv, Places, TypeOK, BufferJoins, NoTailYet, ChunksNonempty, BufferCarries,
                OverlapExact, input, buf
  <2>3. \A w \in 1 .. words : ~(w >= first)
    BY <2>1, <1>1 DEF Length
  <2>4. Kept'
    BY <2>1, <2>3 DEF IInv, Kept, Covered, input
  <2>5. QED
    BY <2>2, <2>4 DEF IInv, Places
<1>3. CASE EndFlushes
  <2>1. /\ stage = "reading" /\ Length > 0 /\ stage' = "done"
        /\ chunks' = Append(chunks, Flushed(words, pageStart, pageEnd))
        /\ first' = Carry(first, words) /\ pageStart' = pageEnd
        /\ UNCHANGED <<size, input, pageEnd>>
    BY <1>3 DEF EndFlushes
  <2>2. chunks' \in Seq(Chunk)
    BY <2>1, <1>1, FlushTypes
  <2>3. first' \in Nat \ {0} /\ first <= words
    BY <2>1, <1>1, CarryBounds DEF Length
  <2>4. TypeOK' /\ words' = words
    BY <2>1, <2>2, <2>3, <1>1 DEF TypeOK, input
  <2>5. QED
    BY <2>1, <2>2, <2>3, <2>4, <1>1, FlushKeeps
<1>4. CASE EndFolds
  <2> DEFINE n    == Len(chunks)
             last == [chunks[n] EXCEPT !.tail = first, !.end = pageEnd]
  <2>1. /\ stage = "reading" /\ chunks # <<>> /\ stage' = "done"
        /\ chunks' = [chunks EXCEPT ![n] = last]
        /\ UNCHANGED <<size, input, buf>>
    BY <1>4 DEF EndFolds
  <2>2. n \in DOMAIN chunks /\ chunks[n] \in Chunk
    BY <2>1, <1>1
  <2>3. /\ last \in Chunk /\ last.from = chunks[n].from /\ last.to = chunks[n].to
        /\ last.tail = first
    BY <2>2, <1>1 DEF Chunk
  <2> HIDE DEF last, n
  <2>4. /\ DOMAIN chunks' = DOMAIN chunks /\ chunks'[n] = last
        /\ \A i \in DOMAIN chunks : i # n => chunks'[i] = chunks[i]
        /\ chunks' \in Seq(Chunk) /\ Len(chunks') = Len(chunks)
    BY <2>1, <2>2, <2>3, <1>1
  <2>5. \A i \in DOMAIN chunks :
            chunks'[i].from = chunks[i].from /\ chunks'[i].to = chunks[i].to
    BY <2>3, <2>4
  <2>6. TypeOK' /\ BufferJoins' /\ NoTailYet' /\ BufferCarries'
    BY <2>1, <2>4 DEF IInv, Places, TypeOK, BufferJoins, NoTailYet, BufferCarries, input, buf
  <2>7. ChunksNonempty'
    BY <2>1, <2>4, <2>5 DEF IInv, Places, ChunksNonempty, input
  <2>8. OverlapExact'
    <3>1. \A i \in 2 .. Len(chunks) : i \in DOMAIN chunks /\ i - 1 \in DOMAIN chunks
      BY <1>1
    <3>2. QED
      BY <2>1, <2>4, <2>5, <3>1 DEF IInv, OverlapExact
  <2>9. Kept'
    <3> SUFFICES ASSUME NEW w \in 1 .. words
                 PROVE  \E i \in DOMAIN chunks : w \in Covered(chunks[i])'
      BY <2>1, <2>4 DEF Kept, input
    <3>1. CASE w >= first
      <4>1. PICK k \in DOMAIN chunks : k = n
        BY <2>2
      <4>2. w \in Covered(chunks[k])'
        BY <4>1, <3>1, <2>1, <2>3, <2>4, <1>1 DEF Covered, input
      <4>3. QED
        BY <4>2
    <3>2. CASE ~(w >= first)
      <4>1. PICK i \in DOMAIN chunks : w \in Covered(chunks[i])
        BY <3>2 DEF IInv, Kept
      <4>2. chunks[i].tail = 0
        BY <2>1 DEF IInv, Places, NoTailYet
      <4>3. w \in chunks[i].from .. chunks[i].to
        BY <4>1, <4>2 DEF Covered
      <4>4. w \in Covered(chunks[i])'
        BY <4>3, <2>5 DEF Covered
      <4>5. QED
        BY <4>4
    <3>3. QED
      BY <3>1, <3>2
  <2>10. QED
    BY <2>6, <2>7, <2>8, <2>9 DEF IInv, Places
<1>5. QED
  BY <1>2, <1>3, <1>4

-----------------------------------------------------------------------------
\* The invariant holds at the start.
LEMMA InitIInv == Init => IInv
<1> SUFFICES ASSUME Init PROVE IInv
  OBVIOUS
<1>1. chunks = <<>> /\ Len(chunks) = 0 /\ DOMAIN chunks = {} /\ chunks \in Seq(Chunk)
  BY DEF Init
<1>2. pageOf \in [1 .. words -> Nat] /\ headAt \subseteq 1 .. words
  BY DEF Init
<1>3. TypeOK
  BY <1>1, <1>2 DEF Init, TypeOK
<1>4. QED
  BY <1>1, <1>3 DEF Init, IInv, Places, BufferJoins, NoTailYet, ChunksNonempty, Kept,
                    BufferCarries, OverlapExact

\* The inductive invariant holds in every reachable state.
THEOREM Invariant == Spec => []IInv
<1>1. IInv /\ [Next]_vars => IInv'
  <2> SUFFICES ASSUME IInv, [Next]_vars PROVE IInv'
    OBVIOUS
  <2>1. CASE UNCHANGED vars
    BY <2>1 DEF vars, input, buf, IInv, Places, TypeOK, BufferJoins, NoTailYet, ChunksNonempty,
                Kept, Covered, BufferCarries, Carry, OverlapExact
  <2>2. QED
    BY <2>1, ReadKeeps, EndKeeps DEF Next, Returned
<1>2. QED
  BY <1>1, InitIInv, PTL DEF Spec

\* Type correctness of the buffer, the chunks and the history.
THEOREM TypeCorrect == Spec => []TypeOK
<1>1. IInv => TypeOK
  BY DEF IInv, Places
<1>2. QED
  BY <1>1, Invariant, PTL

\* Whatever the sizes, the lines and the headings, every word of the document
\* is in a chunk when chunk_document returns (chunker.py:174-200, 229-242).
THEOREM EveryWordKept == Spec => []NothingLost
<1>1. IInv => NothingLost
  BY DEF IInv, Kept, NothingLost
<1>2. QED
  BY <1>1, Invariant, PTL

\* Whatever the sizes, each chunk begins with the last overlap_tokens words of
\* the one before it, or with all of them (chunker.py:194).
THEOREM OverlapAlwaysExact == Spec => []OverlapExact
<1>1. IInv => OverlapExact
  BY DEF IInv
<1>2. QED
  BY <1>1, Invariant, PTL
-----------------------------------------------------------------------------
(* Sizes.  The buffer is bounded, so what is flushed from it is; a tail     *)
(* that is folded in is short; and a buffer that has reached the minimum    *)
(* holds more than the overlap.                                             *)

\* The longest buffer that waits for a line.
Limit == MaxOf(size.target - 1, MaxOf(size.min - 1, size.overlap) + MaxLine)
Least == MinOf(size.min, size.target)
Span(c) == c.to - c.from + 1

BufferBounded == stage = "reading" => Length <= Limit

SpansBounded == \A i \in DOMAIN chunks : Span(chunks[i]) <= Limit + MaxLine

SpansEnough ==
    stage = "reading" \/ Len(chunks) > 1 => \A i \in DOMAIN chunks : Span(chunks[i]) >= Least

TailsShort ==
    \A i \in DOMAIN chunks : chunks[i].tail # 0 =>
        1 <= words - chunks[i].tail + 1 /\ words - chunks[i].tail + 1 <= size.min - 1

SInv == BufferBounded /\ SpansBounded /\ SpansEnough /\ TailsShort /\ EveryChunkAdds

\* What the two bounds are made of.
LEMMA LimitFacts ==
  ASSUME size \in Sizes
  PROVE  /\ size.target \in Nat \ {0} /\ size.overlap \in Nat /\ size.min \in Nat
         /\ size.overlap < size.target /\ MaxLine \in Nat \ {0}
         /\ Limit \in Int /\ Least \in Nat
         /\ size.target - 1 <= Limit
         /\ size.min - 1 + MaxLine <= Limit /\ size.overlap + MaxLine <= Limit
         /\ Least <= size.min /\ Least <= size.target
  BY SizesAssumption, BoundsAssumption DEF Limit, Least, MaxOf, MinOf

\* What may wait for a line fits when one more line has joined it.
LEMMA JoinFits ==
  ASSUME NEW len \in Nat, NEW k \in Nat, NEW longest \in Nat, NEW limit \in Int,
         NEW target \in Nat, NEW overlap \in Nat, NEW min \in Nat, k <= longest,
         target - 1 <= limit, min - 1 + longest <= limit, overlap + longest <= limit,
         len + k < target \/ len < min \/ len <= overlap
  PROVE  len + k <= limit
  OBVIOUS

\* The lengths of lines and of what a flush carries over.
LEMMA LineFacts ==
  ASSUME TypeOK, NEW l \in Line
  PROVE  l.size \in Nat \ {0} /\ l.size <= MaxLine /\ l.page \in Nat \ {0} /\ page <= l.page
  BY BoundsAssumption DEF Line, TypeOK

LEMMA CarriedLength ==
  ASSUME size \in Sizes, NEW from \in Nat \ {0}, NEW to \in Nat, from <= to + 1
  PROVE  to - Carry(from, to) + 1 <= size.overlap
  BY SizesAssumption DEF Carry, MinOf

\* A buffer longer than the overlap holds a word that no chunk has.
LEMMA BufferIsNew ==
  ASSUME IInv, stage = "reading", Len(chunks) > 0, Length > size.overlap
  PROVE  chunks[Len(chunks)].to + 1 <= words
<1> DEFINE c == chunks[Len(chunks)]
<1>1. c \in Chunk /\ size \in Sizes /\ words \in Nat /\ c.from <= c.to
  BY DEF IInv, Places, TypeOK, ChunksNonempty
<1>2. first = Carry(c.from, c.to)
  BY DEF IInv, BufferCarries
<1>3. c.from \in Nat /\ c.to \in Nat /\ size.overlap \in Nat
  BY <1>1, SizesAssumption DEF Chunk
<1> HIDE DEF c
<1>4. first \in Int /\ c.to - first + 1 <= size.overlap
  BY <1>1, <1>2, <1>3 DEF Carry, MinOf
<1>5. words - first + 1 > size.overlap
  BY DEF Length
<1> QED BY <1>1, <1>3, <1>4, <1>5 DEF c

\* A flush of the words first..to keeps the sizes.
LEMMA FlushSizes ==
  ASSUME IInv, SInv, stage = "reading", size' = size,
         NEW to \in Nat, NEW start \in Nat, NEW end \in Nat,
         first <= to, words <= to,
         chunks' = Append(chunks, Flushed(to, start, end)),
         to - first + 1 <= Limit + MaxLine,
         to - first + 1 >= Least \/ (stage' = "done" /\ chunks = <<>>),
         to > words \/ chunks = <<>> \/ Length >= size.min
  PROVE  SpansBounded' /\ SpansEnough' /\ TailsShort' /\ EveryChunkAdds'
<1> DEFINE n == Len(chunks')
<1>1. /\ Len(chunks) \in Nat /\ n = Len(chunks) + 1
      /\ DOMAIN chunks = 1 .. Len(chunks) /\ DOMAIN chunks' = 1 .. n
      /\ \A i \in DOMAIN chunks : i \in DOMAIN chunks' /\ chunks'[i] = chunks[i]
  BY Appended DEF IInv, Places
<1>2. chunks'[n] = Flushed(to, start, end)
  BY Appended DEF IInv, Places
<1>3. chunks'[n].from = first /\ chunks'[n].to = to /\ chunks'[n].tail = 0
  BY <1>2 DEF Flushed
<1>4. /\ first \in Nat \ {0} /\ words \in Nat /\ size \in Sizes
      /\ \A i \in DOMAIN chunks : chunks[i] \in Chunk
      /\ \A i \in DOMAIN chunks : chunks[i].tail = 0
      /\ \A i \in DOMAIN chunks : chunks[i].to <= words
  BY DEF IInv, Places, TypeOK, NoTailYet, ChunksNonempty
<1>5. Limit' = Limit /\ Least' = Least
  BY DEF Limit, Least
<1> HIDE DEF n
<1>6. Span(chunks'[n]) = to - first + 1
  BY <1>3 DEF Span
<1>7. SpansBounded'
  <2> SUFFICES ASSUME NEW i \in DOMAIN chunks' PROVE Span(chunks'[i]) <= Limit + MaxLine
    BY <1>5 DEF SpansBounded, Span
  <2>1. CASE i = n
    BY <2>1, <1>6
  <2>2. CASE i # n
    BY <2>2, <1>1 DEF SInv, SpansBounded
  <2> QED BY <2>1, <2>2
<1>8. SpansEnough'
  <2> SUFFICES ASSUME stage' = "reading" \/ n > 1, NEW i \in DOMAIN chunks'
               PROVE  Span(chunks'[i]) >= Least
    BY <1>5 DEF SpansEnough, Span, n
  <2>1. CASE i = n
    <3>1. chunks = <<>> => n = 1
      BY <1>1
    <3> QED BY <2>1, <3>1, <1>1, <1>6
  <2>2. CASE i # n
    BY <2>2, <1>1 DEF SInv, SpansEnough
  <2> QED BY <2>1, <2>2
<1>9. TailsShort'
  BY <1>1, <1>3, <1>4 DEF TailsShort
<1>10. EveryChunkAdds'
  <2> SUFFICES ASSUME size.overlap < size.min, NEW i \in DOMAIN chunks'
               PROVE  chunks'[i].to >= NewFrom(i)'
    BY DEF EveryChunkAdds
  <2>1. CASE i = n
    <3>1. CASE n = 1
      BY <2>1, <3>1, <1>3, <1>4 DEF NewFrom
    <3>2. CASE n > 1
      <4>1. /\ Len(chunks) > 0 /\ n - 1 = Len(chunks) /\ Len(chunks) \in DOMAIN chunks
            /\ n - 1 \in DOMAIN chunks /\ chunks # <<>>
        BY <3>2, <1>1
      <4>2. chunks'[n - 1] = chunks[Len(chunks)]
        BY <4>1, <1>1
      <4>3. chunks[Len(chunks)].to \in Nat /\ chunks[Len(chunks)].to <= words
        BY <4>1, <1>4 DEF Chunk
      <4>4. chunks[Len(chunks)].to + 1 <= to
        <5>1. CASE to > words
          BY <5>1, <4>3, <1>4
        <5>2. CASE Length >= size.min
          <6>1. Length > size.overlap
            BY <5>2, <1>4, LimitFacts DEF Length
          <6>2. chunks[Len(chunks)].to + 1 <= words
            BY <6>1, <4>1, BufferIsNew
          <6> QED BY <6>2, <4>3, <1>4
        <5> QED BY <5>1, <5>2, <4>1
      <4>5. NewFrom(i)' = chunks'[n - 1].to + 1
        BY <2>1, <3>2 DEF NewFrom
      <4> QED BY <4>2, <4>3, <4>4, <4>5, <2>1, <1>3
    <3> QED BY <3>1, <3>2, <1>1
  <2>2. CASE i # n
    <3>1. /\ i \in DOMAIN chunks /\ chunks'[i] = chunks[i]
          /\ i # 1 => i - 1 \in DOMAIN chunks /\ chunks'[i - 1] = chunks[i - 1]
      BY <2>2, <1>1
    <3>2. NewFrom(i)' = NewFrom(i)
      BY <3>1 DEF NewFrom
    <3> QED BY <3>1, <3>2 DEF SInv, EveryChunkAdds
  <2> QED BY <2>1, <2>2
<1> QED BY <1>7, <1>8, <1>9, <1>10

\* Nothing changes in the sizes of chunks while words only join the buffer.
LEMMA GrowSizes ==
  ASSUME IInv, SInv, stage = "reading", size' = size, chunks' = chunks
  PROVE  SpansBounded' /\ SpansEnough' /\ TailsShort' /\ EveryChunkAdds'
<1>1. \A i \in DOMAIN chunks : chunks[i].tail = 0
  BY DEF IInv, Places, NoTailYet
<1> QED BY <1>1 DEF SInv, SpansBounded, SpansEnough, TailsShort, EveryChunkAdds, Limit, Least,
                    Span, NewFrom

\* Every step keeps the sizes.
LEMMA SizesStep == IInv /\ SInv /\ [Next]_vars => SInv'
<1> SUFFICES ASSUME IInv, SInv, [Next]_vars PROVE SInv'
  OBVIOUS
<1>y. TypeOK
  BY DEF IInv, Places
<1>t. /\ size \in Sizes /\ first \in Nat \ {0} /\ words \in Nat
      /\ pageStart \in Nat /\ pageEnd \in Nat /\ first <= words + 1
      /\ chunks \in Seq(Chunk)
  BY DEF IInv, Places, TypeOK, BufferJoins
<1>f. /\ size.target \in Nat \ {0} /\ size.overlap \in Nat /\ size.min \in Nat
      /\ size.overlap < size.target /\ MaxLine \in Nat \ {0}
      /\ Limit \in Int /\ Least \in Nat
      /\ size.target - 1 <= Limit
      /\ size.min - 1 + MaxLine <= Limit /\ size.overlap + MaxLine <= Limit
      /\ Least <= size.min /\ Least <= size.target
  BY <1>t, LimitFacts
<1>b. stage = "reading" => words - first + 1 <= Limit
  BY DEF SInv, BufferBounded, Length
<1>1. ASSUME NEW l \in Line, TextFits(l) \/ HeadingJoins(l) PROVE SInv'
  <2> DEFINE k == l.size
  <2>1. k \in Nat \ {0} /\ k <= MaxLine
    BY <1>y, LineFacts
  <2>2. /\ stage = "reading" /\ words' = words + k
        /\ UNCHANGED <<size, stage, first, chunks>>
        /\ Length + k < size.target \/ Length < size.min \/ Length = 0
    BY <1>1 DEF TextFits, HeadingJoins, Read
  <2> HIDE DEF k
  <2>3. words - first + 1 \in Nat /\ Length = words - first + 1
    BY <1>t DEF Length
  <2>4. words - first + 1 + k <= Limit
    BY <2>1, <2>2, <2>3, <1>f, JoinFits
  <2>5. words' = words + k /\ first' = first
    BY <2>2
  <2>6. words' - first' + 1 <= Limit
    BY <2>1, <2>4, <2>5, <1>t
  <2>7. BufferBounded'
    BY <2>2, <2>6 DEF BufferBounded, Length, Limit
  <2> QED BY <2>2, <2>7, GrowSizes DEF SInv
<1>2. ASSUME NEW l \in Line, TextFlushes(l) PROVE SInv'
  <2> DEFINE k == l.size
             p == l.page
  <2>0. k \in Nat \ {0} /\ k <= MaxLine /\ p \in Nat
    BY <1>y, LineFacts
  <2>1. k \in Nat \ {0} /\ k <= MaxLine /\ p \in Nat /\ StartWith(p) \in Nat
    BY <2>0, <1>t DEF StartWith
  <2>2. /\ stage = "reading" /\ words' = words + k /\ UNCHANGED <<size, stage>>
        /\ chunks' = Append(chunks, Flushed(words + k, StartWith(p), p))
        /\ first' = Carry(first, words + k)
        /\ words - first + 1 + k >= size.target
    BY <1>2 DEF TextFlushes, Read, Length
  <2> HIDE DEF k, p
  <2>3. /\ words + k \in Nat /\ first <= words + k /\ words <= words + k /\ words + k > words
        /\ first <= (words + k) + 1
        /\ (words + k) - first + 1 <= Limit + MaxLine /\ (words + k) - first + 1 >= Least
    BY <2>1, <2>2, <1>t, <1>f, <1>b
  <2>4. SpansBounded' /\ SpansEnough' /\ TailsShort' /\ EveryChunkAdds'
    BY <2>1, <2>2, <2>3, FlushSizes
  <2>5. (words + k) - Carry(first, words + k) + 1 <= size.overlap
    BY <2>3, <1>t, CarriedLength
  <2>6. Carry(first, words + k) \in Nat
    BY <2>3, <1>t, CarryBounds
  <2>7. words' - first' + 1 <= Limit
    BY <2>2, <2>3, <2>5, <2>6, <1>f
  <2>8. BufferBounded'
    BY <2>2, <2>7 DEF BufferBounded, Length, Limit
  <2> QED BY <2>4, <2>8 DEF SInv
<1>3. ASSUME NEW l \in Line, HeadingFlushes(l) PROVE SInv'
  <2> DEFINE k == l.size
  <2>1. k \in Nat \ {0} /\ k <= MaxLine
    BY <1>y, LineFacts
  <2>2. /\ stage = "reading" /\ words' = words + k /\ UNCHANGED <<size, stage>>
        /\ chunks' = Append(chunks, Flushed(words, pageStart, pageEnd))
        /\ first' = Carry(first, words)
        /\ words - first + 1 >= size.min /\ words - first + 1 > 0 /\ Length >= size.min
    BY <1>3 DEF HeadingFlushes, Read, Length
  <2> HIDE DEF k
  <2>3. /\ first <= words /\ first <= words + 1
        /\ words - first + 1 <= Limit + MaxLine /\ words - first + 1 >= Least
    BY <2>2, <1>t, <1>f, <1>b
  <2>4. SpansBounded' /\ SpansEnough' /\ TailsShort' /\ EveryChunkAdds'
    BY <2>2, <2>3, <1>t, FlushSizes
  <2>5. words - Carry(first, words) + 1 <= size.overlap /\ Carry(first, words) \in Nat
    BY <1>t, CarriedLength, CarryBounds
  <2>6. words' - first' + 1 <= Limit
    BY <2>1, <2>2, <2>5, <1>t, <1>f
  <2>7. BufferBounded'
    BY <2>2, <2>6 DEF BufferBounded, Length, Limit
  <2> QED BY <2>4, <2>7 DEF SInv
<1>4. ASSUME EndEmpty PROVE SInv'
  <2>1. stage = "reading" /\ stage' = "done" /\ UNCHANGED <<size, chunks>>
    BY <1>4 DEF EndEmpty
  <2> QED BY <2>1, GrowSizes DEF SInv, BufferBounded
<1>5. ASSUME EndFlushes PROVE SInv'
  <2>1. /\ stage = "reading" /\ stage' = "done" /\ size' = size
        /\ chunks' = Append(chunks, Flushed(words, pageStart, pageEnd))
        /\ words - first + 1 > 0
        /\ chunks = <<>> \/ Length >= size.min
    BY <1>5 DEF EndFlushes, Length
  <2>2. /\ first <= words /\ words - first + 1 <= Limit + MaxLine
        /\ words - first + 1 >= Least \/ chunks = <<>>
    BY <2>1, <1>t, <1>f, <1>b DEF Length
  <2>3. SpansBounded' /\ SpansEnough' /\ TailsShort' /\ EveryChunkAdds'
    BY <2>1, <2>2, <1>t, FlushSizes
  <2> QED BY <2>1, <2>3 DEF SInv, BufferBounded
<1>6. ASSUME EndFolds PROVE SInv'
  <2> DEFINE n    == Len(chunks)
             last == [chunks[n] EXCEPT !.tail = first, !.end = pageEnd]
  <2>1. /\ stage = "reading" /\ chunks # <<>> /\ stage' = "done"
        /\ chunks' = [chunks EXCEPT ![n] = last]
        /\ size' = size /\ words' = words
        /\ words - first + 1 > 0 /\ words - first + 1 < size.min
    BY <1>6 DEF EndFolds, Length, input
  <2>2. n \in DOMAIN chunks /\ chunks[n] \in Chunk
    BY <2>1, <1>t
  <2>3. last.from = chunks[n].from /\ last.to = chunks[n].to /\ last.tail = first
    BY <2>2, <1>t DEF Chunk
  <2> HIDE DEF last, n
  <2>4. /\ DOMAIN chunks' = DOMAIN chunks /\ Len(chunks') = Len(chunks)
        /\ chunks'[n] = last
        /\ \A i \in DOMAIN chunks : i # n => chunks'[i] = chunks[i]
    BY <2>1, <2>2, <1>t
  <2>5. \A i \in DOMAIN chunks :
            chunks'[i].from = chunks[i].from /\ chunks'[i].to = chunks[i].to
    BY <2>3, <2>4
  <2>6. \A i \in DOMAIN chunks : Span(chunks'[i]) = Span(chunks[i])
    BY <2>5 DEF Span
  <2>7. Limit' = Limit /\ Least' = Least
    BY <2>1 DEF Limit, Least
  <2>8. SpansBounded' /\ SpansEnough'
    BY <2>1, <2>4, <2>6, <2>7 DEF SInv, SpansBounded, SpansEnough, Span
  <2>9. TailsShort'
    <3> SUFFICES ASSUME NEW i \in DOMAIN chunks, chunks'[i].tail # 0
                 PROVE  /\ 1 <= words - chunks'[i].tail + 1
                        /\ words - chunks'[i].tail + 1 <= size.min - 1
      BY <2>1, <2>4 DEF TailsShort
    <3>1. i = n
      BY <2>1, <2>4 DEF IInv, Places, NoTailYet
    <3> QED BY <3>1, <2>1, <2>3, <2>4, <1>t, <1>f
  <2>10. EveryChunkAdds'
    <3> SUFFICES ASSUME size.overlap < size.min, NEW i \in DOMAIN chunks
                 PROVE  chunks'[i].to >= NewFrom(i)'
      BY <2>1, <2>4 DEF EveryChunkAdds
    <3>1. i # 1 => i - 1 \in DOMAIN chunks
      BY <1>t
    <3>2. NewFrom(i)' = NewFrom(i)
      BY <3>1, <2>5 DEF NewFrom
    <3> QED BY <3>2, <2>5 DEF SInv, EveryChunkAdds
  <2> QED BY <2>1, <2>8, <2>9, <2>10 DEF SInv, BufferBounded
<1>7. ASSUME UNCHANGED vars PROVE SInv'
  BY <1>7 DEF vars, input, buf, SInv, BufferBounded, Length, SpansBounded, SpansEnough,
              TailsShort, EveryChunkAdds, Limit, Least, Span, NewFrom
<1> QED BY <1>1, <1>2, <1>3, <1>4, <1>5, <1>6, <1>7 DEF Next, ReadLine, Returned

\* The sizes hold in every reachable state.
LEMMA SizesAlways == Spec => [](TypeOK /\ SInv)
<1>1. Init => SInv
  <2> SUFFICES ASSUME Init PROVE SInv
    OBVIOUS
  <2>1. /\ DOMAIN chunks = {} /\ words = 0 /\ first = 1 /\ size \in Sizes
    BY DEF Init
  <2>2. Length <= Limit
    BY <2>1, LimitFacts DEF Length
  <2> QED BY <2>1, <2>2 DEF SInv, BufferBounded, SpansBounded, SpansEnough, TailsShort,
                            EveryChunkAdds
<1>2. IInv => TypeOK
  BY DEF IInv, Places
<1> QED BY <1>1, <1>2, SizesStep, Invariant, PTL DEF Spec

\* No chunk is longer than the target makes it: a line is never cut, a heading
\* is added without a look at the target, and one short tail may be folded in
\* (chunker.py:211-226, 230).
THEOREM SizesAlwaysBounded == Spec => []SizeBounded
<1>1. TypeOK /\ SInv => SizeBounded
  <2> SUFFICES ASSUME TypeOK, SInv, NEW i \in DOMAIN chunks
               PROVE  TokenCount(chunks[i]) <=
                        Limit + MaxLine + (IF chunks[i].tail = 0 THEN 0 ELSE size.min - 1)
    BY DEF SizeBounded, Limit
  <2>1. chunks[i] \in Chunk /\ words \in Nat /\ size \in Sizes
    BY DEF TypeOK
  <2>2. chunks[i].to - chunks[i].from + 1 <= Limit + MaxLine
    BY DEF SInv, SpansBounded, Span
  <2>3. chunks[i].tail # 0 => words - chunks[i].tail + 1 <= size.min - 1
    BY DEF SInv, TailsShort
  <2> QED BY <2>1, <2>2, <2>3, LimitFacts DEF TokenCount, Chunk
<1> QED BY <1>1, SizesAlways, PTL

\* A document of more than one chunk has none that is shorter than both the
\* minimum and the target (chunker.py:162-163, 211, 230).
THEOREM NoChunkIsTiny == Spec => []NoTinyChunk
<1>1. TypeOK /\ SInv => NoTinyChunk
  <2> SUFFICES ASSUME TypeOK, SInv, Len(chunks) > 1, NEW i \in DOMAIN chunks
               PROVE  TokenCount(chunks[i]) >= Least
    BY DEF NoTinyChunk, Least
  <2>1. chunks[i] \in Chunk /\ words \in Nat /\ size \in Sizes
    BY DEF TypeOK
  <2>2. chunks[i].to - chunks[i].from + 1 >= Least
    BY DEF SInv, SpansEnough, Span
  <2>3. chunks[i].tail # 0 => 1 <= words - chunks[i].tail + 1
    BY DEF SInv, TailsShort
  <2>4. chunks[i].from \in Nat /\ chunks[i].to \in Nat /\ chunks[i].tail \in Nat
    BY <2>1 DEF Chunk
  <2>5. Least \in Nat
    BY <2>1, LimitFacts
  <2>6. CASE chunks[i].tail = 0
    BY <2>2, <2>4, <2>5, <2>6 DEF TokenCount
  <2>7. CASE chunks[i].tail # 0
    BY <2>1, <2>2, <2>3, <2>4, <2>5, <2>7 DEF TokenCount
  <2> QED BY <2>6, <2>7
<1> QED BY <1>1, SizesAlways, PTL

\* With an overlap below the minimum every chunk holds a word that is in no
\* chunk before it (config.py:75-76).
THEOREM EveryChunkIsNew == Spec => []EveryChunkAdds
<1>1. SInv => EveryChunkAdds
  BY DEF SInv
<1> QED BY <1>1, SizesAlways, PTL
-----------------------------------------------------------------------------
(* Labels.  A word is on the page of its line or an earlier one; the words  *)
(* the buffer has and no chunk has are on pages from its page_start on, and *)
(* that never lies before the page_start of the last chunk.                 *)

\* The last word that is in a chunk.
LastTo == IF chunks = <<>> THEN 0 ELSE chunks[Len(chunks)].to

HeadsCounted == heads = Cardinality(headAt)

WordsOnPages == \A w \in 1 .. words : pageOf[w] <= page

StartSet == pageStart = 0 => words = 0

BufferPages ==
    stage = "reading" =>
        /\ words > 0 => pageEnd = page
        /\ pageStart <= page
        /\ \A w \in 1 .. words : w > LastTo => pageStart <= pageOf[w]
        /\ chunks # <<>> => chunks[Len(chunks)].start <= pageStart

ChunksPositive == \A i \in DOMAIN chunks : chunks[i].from >= 1

LInv ==
    /\ ChunksPositive /\ HeadsCounted /\ SectionOfLastWord
    /\ WordsOnPages /\ StartSet /\ BufferPages /\ NewWordsInPages

\* What Read does to the histories: earlier words keep their page, the new
\* ones are on page p, and a heading is counted.
LEMMA ReadLabels ==
  ASSUME TypeOK, HeadsCounted, WordsOnPages, NEW k \in Nat \ {0}, NEW p \in Nat \ {0}, page <= p,
         NEW heading \in BOOLEAN, Read(k, p, heading)
  PROVE  /\ words' = words + k /\ page' = p
         /\ \A w \in 1 .. words : pageOf'[w] = pageOf[w]
         /\ \A w \in 1 .. words + k : w > words => pageOf'[w] = p
         /\ WordsOnPages' /\ HeadsCounted'
         /\ {h \in headAt' : h <= words} = headAt /\ headAt' \subseteq Nat
         /\ ~heading => headAt' = headAt
<1>1. words \in Nat /\ page \in Nat /\ headAt \subseteq 1 .. words /\ pageOf \in [1 .. words -> Nat]
  BY DEF TypeOK
<1>2. /\ words' = words + k /\ page' = p
      /\ pageOf' = [i \in 1 .. words + k |-> IF i <= words THEN pageOf[i] ELSE p]
      /\ heads' = IF heading THEN heads + 1 ELSE heads
      /\ headAt' = IF heading THEN headAt \cup {words + 1} ELSE headAt
  BY DEF Read
<1>3. /\ \A w \in 1 .. words : pageOf'[w] = pageOf[w]
      /\ \A w \in 1 .. words + k : w > words => pageOf'[w] = p
  BY <1>1, <1>2
<1>4. WordsOnPages'
  <2> SUFFICES ASSUME NEW w \in 1 .. words + k PROVE pageOf'[w] <= p
    BY <1>2 DEF WordsOnPages
  <2>1. CASE w <= words
    <3>1. w \in 1 .. words /\ pageOf[w] \in Nat
      BY <2>1, <1>1
    <3> QED BY <3>1, <1>1, <1>3 DEF WordsOnPages
  <2>2. CASE w > words
    BY <2>2, <1>3
  <2> QED BY <2>1, <2>2, <1>1
<1>5. {h \in headAt' : h <= words} = headAt /\ headAt' \subseteq Nat
  <2>1. \A h \in headAt : h \in Nat /\ h <= words
    BY <1>1
  <2>2. ~(words + 1 <= words) /\ words + 1 \in Nat
    BY <1>1
  <2>3. \A h \in headAt' : h \in headAt \/ h = words + 1
    BY <1>2
  <2>4. headAt \subseteq headAt'
    BY <1>2
  <2> QED BY <2>1, <2>2, <2>3, <2>4
<1>6. HeadsCounted'
  <2>1. CASE heading
    <3>0. IsFiniteSet(1 .. words)
      BY <1>1, FS_Interval
    <3>1. IsFiniteSet(headAt)
      BY <3>0, <1>1, FS_Subset
    <3>2. words + 1 \notin headAt
      BY <1>1
    <3>3. Cardinality(headAt \cup {words + 1}) = Cardinality(headAt) + 1
      BY <3>1, <3>2, FS_AddElement
    <3> QED BY <2>1, <1>2, <3>3 DEF HeadsCounted
  <2>2. CASE ~heading
    BY <2>2, <1>2 DEF HeadsCounted
  <2> QED BY <2>1, <2>2
<1> QED BY <1>2, <1>3, <1>4, <1>5, <1>6

\* A heading that comes after a chunk is not one of the chunk's.
LEMMA OldSections ==
  ASSUME IInv, headAt' \subseteq Nat, {h \in headAt' : h <= words} = headAt,
         NEW i \in DOMAIN chunks
  PROVE  {h \in headAt' : h <= chunks[i].to} = {h \in headAt : h <= chunks[i].to}
<1>1. chunks[i] \in Chunk /\ chunks[i].to <= words /\ words \in Nat
  BY DEF IInv, Places, TypeOK, ChunksNonempty
<1>2. chunks[i].to \in Nat
  BY <1>1 DEF Chunk
<1>3. \A h \in headAt' : h \in Nat /\ (h <= words => h \in headAt)
  OBVIOUS
<1>4. \A h \in headAt : h \in headAt'
  OBVIOUS
<1>5. \A h \in Nat : h <= chunks[i].to => h <= words
  BY <1>1, <1>2
<1> QED BY <1>3, <1>4, <1>5

\* A flush labels the new chunk right and leaves the labels of the others.
LEMMA FlushLabels ==
  ASSUME IInv, LInv, stage = "reading",
         NEW to \in Nat, NEW start \in Nat, NEW end \in Nat, words <= to,
         chunks' = Append(chunks, Flushed(to, start, end)),
         headAt' \subseteq Nat,
         {h \in headAt' : h <= words} = headAt, {h \in headAt' : h <= to} = headAt,
         \A w \in 1 .. words : pageOf'[w] = pageOf[w],
         \A w \in 1 .. to : w > LastTo => start <= pageOf'[w] /\ pageOf'[w] <= end
  PROVE  /\ SectionOfLastWord' /\ NewWordsInPages' /\ ChunksPositive'
         /\ LastTo' = to /\ chunks' # <<>> /\ chunks'[Len(chunks')].start = start
<1> DEFINE n == Len(chunks')
<1>1. /\ Len(chunks) \in Nat /\ n = Len(chunks) + 1
      /\ DOMAIN chunks = 1 .. Len(chunks) /\ DOMAIN chunks' = 1 .. n
      /\ \A i \in DOMAIN chunks : i \in DOMAIN chunks' /\ chunks'[i] = chunks[i]
  BY Appended DEF IInv, Places
<1>2. chunks'[n] = Flushed(to, start, end)
  BY Appended DEF IInv, Places
<1>3. /\ chunks'[n].from = first /\ chunks'[n].to = to /\ chunks'[n].tail = 0
      /\ chunks'[n].section = heads /\ chunks'[n].start = start /\ chunks'[n].end = end
  BY <1>2 DEF Flushed
<1>4. /\ first \in Nat \ {0} /\ words \in Nat
      /\ \A i \in DOMAIN chunks : chunks[i] \in Chunk /\ chunks[i].tail = 0
      /\ \A i \in DOMAIN chunks : chunks[i].to <= words
  BY DEF IInv, Places, TypeOK, NoTailYet, ChunksNonempty
<1>5. LastTo' = to /\ chunks' # <<>> /\ chunks'[Len(chunks')].start = start
  <2>1. n # 0
    BY <1>1
  <2>2. chunks' # <<>>
    BY <2>1 DEF n
  <2> QED BY <2>2, <1>3 DEF LastTo, n
<1> HIDE DEF n
<1>6. SectionOfLastWord'
  <2> SUFFICES ASSUME NEW i \in DOMAIN chunks'
               PROVE  chunks'[i].section = Cardinality({h \in headAt' : h <= chunks'[i].to})
    BY DEF SectionOfLastWord
  <2>1. CASE i = n
    BY <2>1, <1>3 DEF LInv, HeadsCounted
  <2>2. CASE i # n
    <3>1. i \in DOMAIN chunks /\ chunks'[i] = chunks[i]
      BY <2>2, <1>1
    <3>2. {h \in headAt' : h <= chunks[i].to} = {h \in headAt : h <= chunks[i].to}
      BY <3>1, OldSections
    <3>3. chunks[i].section = Cardinality({h \in headAt : h <= chunks[i].to})
      BY <3>1 DEF LInv, SectionOfLastWord
    <3> QED BY <3>1, <3>2, <3>3, Zenon
  <2> QED BY <2>1, <2>2
<1>7. NewWordsInPages'
  <2> SUFFICES ASSUME NEW i \in DOMAIN chunks', NEW w \in Covered(chunks[i])', w >= NewFrom(i)'
               PROVE  chunks'[i].start <= pageOf'[w] /\ pageOf'[w] <= chunks'[i].end
    BY DEF NewWordsInPages
  <2>1. CASE i = n
    <3>1. w \in 1 .. to
      BY <2>1, <1>3, <1>4 DEF Covered
    <3>2. NewFrom(i)' = LastTo + 1
      <4>1. CASE chunks = <<>>
        BY <4>1, <2>1, <1>1 DEF NewFrom, LastTo
      <4>2. CASE chunks # <<>>
        <5>1. Len(chunks) # 0
          BY <4>2, <1>1 DEF IInv, Places, TypeOK
        <5>2. n # 1 /\ n - 1 = Len(chunks) /\ n - 1 \in DOMAIN chunks
          BY <5>1, <1>1
        <5> QED BY <5>2, <4>2, <2>1, <1>1 DEF NewFrom, LastTo
      <4> QED BY <4>1, <4>2
    <3>3. LastTo \in Nat
      <4>1. chunks # <<>> => Len(chunks) \in DOMAIN chunks
        BY DEF IInv, Places, TypeOK
      <4> QED BY <4>1, <1>4 DEF LastTo, Chunk
    <3>4. w > LastTo
      BY <3>1, <3>2, <3>3
    <3> QED BY <3>1, <3>4, <2>1, <1>3
  <2>2. CASE i # n
    <3>1. /\ i \in DOMAIN chunks /\ chunks'[i] = chunks[i]
          /\ i # 1 => i - 1 \in DOMAIN chunks /\ chunks'[i - 1] = chunks[i - 1]
      BY <2>2, <1>1
    <3>2. NewFrom(i)' = NewFrom(i) /\ w \in Covered(chunks[i])
      BY <3>1, <1>4 DEF NewFrom, Covered
    <3>3. chunks[i].start <= pageOf[w] /\ pageOf[w] <= chunks[i].end
      BY <3>1, <3>2 DEF LInv, NewWordsInPages
    <3>4. w \in 1 .. words
      <4>1. chunks[i] \in Chunk /\ chunks[i].tail = 0 /\ chunks[i].to <= words
        BY <3>1, <1>4
      <4>2. chunks[i].from # 0
        BY <3>1 DEF LInv, ChunksPositive
      <4> QED BY <3>2, <4>1, <4>2, <1>4 DEF Covered, Chunk
    <3> QED BY <3>1, <3>3, <3>4
  <2> QED BY <2>1, <2>2
<1>8. ChunksPositive'
  BY <1>1, <1>3, <1>4 DEF LInv, ChunksPositive
<1> QED BY <1>5, <1>6, <1>7, <1>8

\* Words that join the buffer change no label.
LEMMA JoinLabels ==
  ASSUME IInv, LInv, stage = "reading", chunks' = chunks,
         headAt' \subseteq Nat, {h \in headAt' : h <= words} = headAt,
         \A w \in 1 .. words : pageOf'[w] = pageOf[w]
  PROVE  SectionOfLastWord' /\ NewWordsInPages' /\ ChunksPositive' /\ LastTo' = LastTo
<1>1. /\ words \in Nat
      /\ \A i \in DOMAIN chunks : chunks[i] \in Chunk /\ chunks[i].tail = 0
      /\ \A i \in DOMAIN chunks : chunks[i].from >= 1 /\ chunks[i].to <= words
  BY DEF IInv, LInv, Places, TypeOK, NoTailYet, ChunksNonempty, ChunksPositive
<1>2. LastTo' = LastTo /\ ChunksPositive'
  BY DEF LastTo, LInv, ChunksPositive
<1>3. SectionOfLastWord'
  <2> SUFFICES ASSUME NEW i \in DOMAIN chunks
               PROVE  chunks[i].section = Cardinality({h \in headAt' : h <= chunks[i].to})
    BY DEF SectionOfLastWord
  <2>1. {h \in headAt' : h <= chunks[i].to} = {h \in headAt : h <= chunks[i].to}
    BY OldSections
  <2>2. chunks[i].section = Cardinality({h \in headAt : h <= chunks[i].to})
    BY DEF LInv, SectionOfLastWord
  <2> QED BY <2>1, <2>2, Zenon
<1>4. NewWordsInPages'
  <2> SUFFICES ASSUME NEW i \in DOMAIN chunks, NEW w \in Covered(chunks[i])', w >= NewFrom(i)'
               PROVE  chunks[i].start <= pageOf'[w] /\ pageOf'[w] <= chunks[i].end
    BY DEF NewWordsInPages
  <2>1. NewFrom(i)' = NewFrom(i) /\ w \in Covered(chunks[i])
    BY <1>1 DEF NewFrom, Covered
  <2>2. chunks[i].start <= pageOf[w] /\ pageOf[w] <= chunks[i].end
    BY <2>1 DEF LInv, NewWordsInPages
  <2>3. w \in 1 .. words
    BY <2>1, <1>1 DEF Covered, Chunk
  <2> QED BY <2>2, <2>3
<1> QED BY <1>2, <1>3, <1>4

\* Every step keeps the labels.
LEMMA LabelsStep == IInv /\ LInv /\ [Next]_vars => LInv'
<1> SUFFICES ASSUME IInv, LInv, [Next]_vars PROVE LInv'
  OBVIOUS
<1>y. TypeOK /\ HeadsCounted /\ WordsOnPages
  BY DEF IInv, Places, LInv
<1>t. /\ first \in Nat \ {0} /\ words \in Nat /\ page \in Nat \ {0}
      /\ pageStart \in Nat /\ pageEnd \in Nat
      /\ pageOf \in [1 .. words -> Nat] /\ LastTo \in Nat /\ LastTo <= words
  <2>1. \A i \in DOMAIN chunks : chunks[i] \in Chunk /\ chunks[i].to <= words
    BY DEF IInv, Places, TypeOK, ChunksNonempty
  <2>2. chunks # <<>> => Len(chunks) \in DOMAIN chunks
    BY DEF IInv, Places, TypeOK
  <2> QED BY <2>1, <2>2 DEF IInv, Places, TypeOK, LastTo, Chunk
<1>w. \A w \in 1 .. words : pageOf[w] \in Nat /\ pageOf[w] <= page
  BY <1>t, <1>y DEF WordsOnPages
<1>s. pageStart = 0 => words = 0
  BY DEF LInv, StartSet
<1>b. stage = "reading" =>
        /\ words > 0 => pageEnd = page
        /\ pageStart <= page
        /\ \A w \in 1 .. words : w > LastTo => pageStart <= pageOf[w]
        /\ chunks # <<>> => chunks[Len(chunks)].start <= pageStart
  BY DEF LInv, BufferPages
<1>1. ASSUME NEW l \in Line, TextFits(l) \/ HeadingJoins(l) PROVE LInv'
  <2> DEFINE k == l.size
             p == l.page
  <2>1. k \in Nat \ {0} /\ p \in Nat \ {0} /\ page <= p
    BY <1>y, LineFacts
  <2>2. /\ Read(k, p, FALSE) \/ Read(k, p, TRUE)
        /\ pageStart' = StartWith(p) /\ pageEnd' = p
        /\ chunks' = chunks
    BY <1>1 DEF TextFits, HeadingJoins
  <2>r. stage = "reading"
    BY <1>1 DEF TextFits, HeadingJoins
  <2> HIDE DEF k, p
  <2>3. /\ words' = words + k /\ page' = p
        /\ \A w \in 1 .. words : pageOf'[w] = pageOf[w]
        /\ \A w \in 1 .. words + k : w > words => pageOf'[w] = p
        /\ WordsOnPages' /\ HeadsCounted'
        /\ {h \in headAt' : h <= words} = headAt /\ headAt' \subseteq Nat
    BY <2>1, <2>2, <1>y, ReadLabels
  <2>4. SectionOfLastWord' /\ NewWordsInPages' /\ ChunksPositive' /\ LastTo' = LastTo
    BY <2>2, <2>3, <2>r, JoinLabels
  <2>5. /\ pageStart' = IF pageStart = 0 THEN p ELSE pageStart
        /\ pageStart' \in Nat \ {0} /\ pageStart' <= p /\ pageStart <= pageStart'
    BY <2>1, <2>2, <2>r, <1>t, <1>b DEF StartWith
  <2>6. StartSet'
    BY <2>5 DEF StartSet
  <2>7. \A w \in 1 .. words + k : w > LastTo => pageStart' <= pageOf'[w]
    <3> SUFFICES ASSUME NEW w \in 1 .. words + k, w > LastTo PROVE pageStart' <= pageOf'[w]
      OBVIOUS
    <3>1. CASE w > words
      BY <3>1, <2>3, <2>5
    <3>2. CASE w <= words
      <4>1. w \in 1 .. words /\ pageOf'[w] = pageOf[w] /\ pageStart <= pageOf[w]
        BY <3>2, <2>3, <2>r, <1>b, <1>t
      <4>2. pageStart' = pageStart
        BY <4>1, <2>5, <1>s, <1>t
      <4> QED BY <4>1, <4>2
    <3> QED BY <3>1, <3>2, <1>t, <2>1
  <2>8. chunks' # <<>> => chunks'[Len(chunks')].start <= pageStart'
    <3> SUFFICES ASSUME chunks # <<>> PROVE chunks[Len(chunks)].start <= pageStart'
      BY <2>2
    <3>1. chunks[Len(chunks)] \in Chunk
      BY DEF IInv, Places, TypeOK
    <3>2. chunks[Len(chunks)].start <= pageStart /\ chunks[Len(chunks)].start \in Nat
      BY <3>1, <2>r, <1>b DEF Chunk
    <3> QED BY <3>2, <2>5, <1>t
  <2>9. BufferPages'
    BY <2>2, <2>3, <2>4, <2>5, <2>7, <2>8 DEF BufferPages
  <2> QED BY <2>3, <2>4, <2>6, <2>9 DEF LInv
<1>2. ASSUME NEW l \in Line, TextFlushes(l) PROVE LInv'
  <2> DEFINE k == l.size
             p == l.page
  <2>1. k \in Nat \ {0} /\ p \in Nat \ {0} /\ page <= p
    BY <1>y, LineFacts
  <2>2. /\ stage = "reading" /\ Read(k, p, FALSE)
        /\ chunks' = Append(chunks, Flushed(words + k, StartWith(p), p))
        /\ pageStart' = p /\ pageEnd' = p
    BY <1>2 DEF TextFlushes
  <2> HIDE DEF k, p
  <2>3. /\ words' = words + k /\ page' = p
        /\ \A w \in 1 .. words : pageOf'[w] = pageOf[w]
        /\ \A w \in 1 .. words + k : w > words => pageOf'[w] = p
        /\ WordsOnPages' /\ HeadsCounted'
        /\ {h \in headAt' : h <= words} = headAt /\ headAt' \subseteq Nat
        /\ headAt' = headAt
    BY <2>1, <2>2, <1>y, ReadLabels
  <2>4. /\ StartWith(p) = IF pageStart = 0 THEN p ELSE pageStart
        /\ StartWith(p) \in Nat /\ StartWith(p) <= p
    BY <2>1, <2>2, <1>t, <1>b DEF StartWith
  <2>5. {h \in headAt' : h <= words + k} = headAt
    <3>1. \A h \in headAt : h <= words + k
      BY <2>1, <1>t DEF IInv, Places, TypeOK
    <3> QED BY <3>1, <2>3
  <2>6. \A w \in 1 .. words + k : w > LastTo => StartWith(p) <= pageOf'[w] /\ pageOf'[w] <= p
    <3> SUFFICES ASSUME NEW w \in 1 .. words + k, w > LastTo
                 PROVE  StartWith(p) <= pageOf'[w] /\ pageOf'[w] <= p
      OBVIOUS
    <3>1. CASE w > words
      BY <3>1, <2>1, <2>3, <2>4
    <3>2. CASE w <= words
      <4>1. /\ w \in 1 .. words /\ pageOf'[w] = pageOf[w] /\ pageStart <= pageOf[w]
            /\ pageOf[w] \in Nat /\ pageOf[w] <= page
        BY <3>2, <2>2, <2>3, <1>b, <1>t, <1>w
      <4>2. StartWith(p) = pageStart
        BY <4>1, <2>4, <1>s, <1>t
      <4> QED BY <4>1, <4>2, <2>1, <1>t
    <3> QED BY <3>1, <3>2, <1>t, <2>1
  <2>7. words + k \in Nat /\ words <= words + k
    BY <2>1, <1>t
  <2>8. /\ SectionOfLastWord' /\ NewWordsInPages' /\ ChunksPositive'
        /\ LastTo' = words + k /\ chunks' # <<>> /\ chunks'[Len(chunks')].start = StartWith(p)
    BY <2>1, <2>2, <2>3, <2>4, <2>5, <2>6, <2>7, FlushLabels
  <2>9. BufferPages' /\ StartSet'
    BY <2>1, <2>2, <2>3, <2>4, <2>7, <2>8 DEF BufferPages, StartSet
  <2> QED BY <2>3, <2>8, <2>9 DEF LInv
<1>3. ASSUME NEW l \in Line, HeadingFlushes(l) PROVE LInv'
  <2> DEFINE k == l.size
             p == l.page
  <2>1. k \in Nat \ {0} /\ p \in Nat \ {0} /\ page <= p
    BY <1>y, LineFacts
  <2>2. /\ stage = "reading" /\ Read(k, p, TRUE)
        /\ chunks' = Append(chunks, Flushed(words, pageStart, pageEnd))
        /\ pageStart' = pageEnd /\ pageEnd' = p /\ words - first + 1 > 0
    BY <1>3 DEF HeadingFlushes, Length
  <2> HIDE DEF k, p
  <2>3. /\ words' = words + k /\ page' = p
        /\ \A w \in 1 .. words : pageOf'[w] = pageOf[w]
        /\ \A w \in 1 .. words + k : w > words => pageOf'[w] = p
        /\ WordsOnPages' /\ HeadsCounted'
        /\ {h \in headAt' : h <= words} = headAt /\ headAt' \subseteq Nat
    BY <2>1, <2>2, <1>y, ReadLabels
  <2>4. words > 0 /\ pageEnd = page /\ pageStart <= page
    BY <2>2, <1>t, <1>b
  <2>5. \A w \in 1 .. words : w > LastTo => pageStart <= pageOf'[w] /\ pageOf'[w] <= pageEnd
    BY <2>2, <2>3, <2>4, <1>b, <1>w
  <2>6. /\ SectionOfLastWord' /\ NewWordsInPages' /\ ChunksPositive'
        /\ LastTo' = words /\ chunks' # <<>> /\ chunks'[Len(chunks')].start = pageStart
    <3>1. words <= words
      BY <1>t
    <3> QED BY <3>1, <2>2, <2>3, <2>5, <1>t, FlushLabels
  <2>7. \A w \in 1 .. words + k : w > words => pageEnd <= pageOf'[w]
    BY <2>1, <2>3, <2>4, <1>t
  <2>8. BufferPages' /\ StartSet'
    BY <2>1, <2>2, <2>3, <2>4, <2>6, <2>7, <1>t DEF BufferPages, StartSet
  <2> QED BY <2>3, <2>6, <2>8 DEF LInv
<1>4. ASSUME EndEmpty PROVE LInv'
  <2>1. stage' = "done" /\ UNCHANGED <<input, buf, chunks>>
    BY <1>4 DEF EndEmpty
  <2> QED BY <2>1 DEF LInv, ChunksPositive, HeadsCounted, SectionOfLastWord, WordsOnPages,
                      StartSet, BufferPages, NewWordsInPages, NewFrom, Covered, input, buf
<1>5. ASSUME EndFlushes PROVE LInv'
  <2>1. /\ stage = "reading" /\ stage' = "done" /\ UNCHANGED <<words, page, heads, pageOf, headAt>>
        /\ chunks' = Append(chunks, Flushed(words, pageStart, pageEnd))
        /\ pageStart' = pageEnd /\ words - first + 1 > 0
    BY <1>5 DEF EndFlushes, Length, input
  <2>2. words > 0 /\ pageEnd = page
    BY <2>1, <1>t, <1>b
  <2>3. {h \in headAt' : h <= words} = headAt /\ headAt' \subseteq Nat
    <3>1. \A h \in headAt : h \in Nat /\ h <= words
      BY <1>t DEF IInv, Places, TypeOK
    <3> QED BY <3>1, <2>1
  <2>4. \A w \in 1 .. words : w > LastTo => pageStart <= pageOf'[w] /\ pageOf'[w] <= pageEnd
    BY <2>1, <2>2, <1>b, <1>w
  <2>5. SectionOfLastWord' /\ NewWordsInPages' /\ ChunksPositive'
    <3>1. words <= words /\ \A w \in 1 .. words : pageOf'[w] = pageOf[w]
      BY <2>1, <1>t
    <3> QED BY <3>1, <2>1, <2>3, <2>4, <1>t, FlushLabels
  <2>6. StartSet' /\ BufferPages' /\ WordsOnPages' /\ HeadsCounted'
    BY <2>1, <2>2, <1>t, <1>y DEF StartSet, BufferPages, WordsOnPages, HeadsCounted
  <2> QED BY <2>5, <2>6 DEF LInv
<1>6. ASSUME EndFolds PROVE LInv'
  <2> DEFINE n    == Len(chunks)
             last == [chunks[n] EXCEPT !.tail = first, !.end = pageEnd]
  <2>1. /\ stage = "reading" /\ chunks # <<>> /\ stage' = "done"
        /\ chunks' = [chunks EXCEPT ![n] = last]
        /\ UNCHANGED <<words, page, heads, pageOf, headAt, first, pageStart, pageEnd>>
        /\ words - first + 1 > 0
    BY <1>6 DEF EndFolds, Length, input, buf
  <2>2. n \in DOMAIN chunks /\ chunks[n] \in Chunk /\ DOMAIN chunks = 1 .. n
    BY <2>1 DEF IInv, Places, TypeOK
  <2>3. /\ last.from = chunks[n].from /\ last.to = chunks[n].to /\ last.tail = first
        /\ last.section = chunks[n].section /\ last.start = chunks[n].start /\ last.end = pageEnd
    BY <2>2 DEF Chunk
  <2>l. LastTo = chunks[n].to
    BY <2>1 DEF LastTo
  <2>s. chunks[n].start <= pageStart
    BY <2>1, <1>b
  <2> HIDE DEF last, n
  <2>4. /\ DOMAIN chunks' = DOMAIN chunks /\ chunks'[n] = last
        /\ \A i \in DOMAIN chunks : i # n => chunks'[i] = chunks[i]
    BY <2>1, <2>2
  <2>5. \A i \in DOMAIN chunks :
            /\ chunks'[i].from = chunks[i].from /\ chunks'[i].to = chunks[i].to
            /\ chunks'[i].section = chunks[i].section
    BY <2>3, <2>4
  <2>6. ChunksPositive' /\ SectionOfLastWord' /\ HeadsCounted' /\ WordsOnPages' /\ StartSet'
    BY <2>1, <2>4, <2>5 DEF LInv, ChunksPositive, SectionOfLastWord, HeadsCounted, WordsOnPages,
                            StartSet
  <2>7. NewWordsInPages'
    <3> SUFFICES ASSUME NEW i \in DOMAIN chunks, NEW w \in Covered(chunks[i])', w >= NewFrom(i)'
                 PROVE  chunks'[i].start <= pageOf[w] /\ pageOf[w] <= chunks'[i].end
      BY <2>1, <2>4 DEF NewWordsInPages
    <3>1. i # 1 => i - 1 \in DOMAIN chunks
      BY <2>2
    <3>2. NewFrom(i)' = NewFrom(i)
      BY <3>1, <2>5 DEF NewFrom
    <3>3. CASE i # n
      <4>1. chunks'[i] = chunks[i]
        BY <3>3, <2>4
      <4>2. w \in Covered(chunks[i])
        BY <4>1, <2>1 DEF Covered
      <4> QED BY <4>1, <4>2, <3>2 DEF LInv, NewWordsInPages
    <3>4. CASE i = n
      <4>1. w \in (chunks[n].from .. chunks[n].to) \cup (first .. words)
        BY <3>4, <2>1, <2>3, <2>4, <1>t DEF Covered
      <4>2. /\ chunks[n].from \in Nat \ {0} /\ chunks[n].to \in Nat /\ chunks[n].to <= words
            /\ chunks[n].start \in Nat /\ chunks[n].tail = 0
        BY <2>1, <2>2 DEF LInv, ChunksPositive, IInv, Places, ChunksNonempty, NoTailYet, Chunk
      <4>3. w \in 1 .. words /\ pageOf[w] \in Nat /\ pageOf[w] <= page
        BY <4>1, <4>2, <1>t, <1>w
      <4>4. page = pageEnd
        BY <2>1, <1>t, <1>b
      <4>5. chunks[n].start <= pageOf[w]
        <5>1. CASE w > chunks[n].to
          <6>1. pageStart <= pageOf[w]
            BY <5>1, <4>3, <2>l, <2>1, <1>b
          <6> QED BY <6>1, <4>2, <4>3, <2>s, <1>t
        <5>2. CASE w <= chunks[n].to
          <6>1. w >= chunks[n].from
            <7>1. CASE w \in chunks[n].from .. chunks[n].to
              BY <7>1, <4>2
            <7>2. CASE w \in first .. words
              <8>1. first >= chunks[n].from
                <9>1. size \in Sizes /\ chunks[n].from <= chunks[n].to
                  BY <2>2 DEF IInv, Places, TypeOK, ChunksNonempty
                <9>2. Len(chunks) > 0
                  BY <2>2 DEF n
                <9>3. first = Carry(chunks[n].from, chunks[n].to)
                  BY <9>2, <2>1 DEF IInv, BufferCarries, n
                <9>4. chunks[n].from <= chunks[n].to + 1
                  BY <9>1, <4>2
                <9> QED BY <9>1, <9>3, <9>4, <4>2, CarryBounds
              <8> QED BY <7>2, <8>1, <4>2, <1>t
            <7> QED BY <7>1, <7>2, <4>1
          <6>2. w \in Covered(chunks[n])
            BY <6>1, <5>2, <4>2, <4>3 DEF Covered
          <6>3. w >= NewFrom(n)
            BY <3>2, <3>4
          <6> QED BY <6>2, <6>3, <2>2 DEF LInv, NewWordsInPages
        <5> QED BY <5>1, <5>2, <4>2, <4>3
      <4> QED BY <4>3, <4>4, <4>5, <3>4, <2>3, <2>4
    <3> QED BY <3>3, <3>4
  <2>8. BufferPages'
    BY <2>1 DEF BufferPages
  <2> QED BY <2>6, <2>7, <2>8 DEF LInv
<1>7. ASSUME UNCHANGED vars PROVE LInv'
  BY <1>7 DEF vars, input, buf, LInv, ChunksPositive, HeadsCounted, SectionOfLastWord,
              WordsOnPages, StartSet, BufferPages, NewWordsInPages, NewFrom, Covered, LastTo
<1> QED BY <1>1, <1>2, <1>3, <1>4, <1>5, <1>6, <1>7 DEF Next, ReadLine, Returned

\* What a citation says of a chunk fits its words: the pages of those it does
\* not share with the chunk before lie in its page range, and its section is
\* that of its last word (chunker.py:187, 197).
THEOREM LabelsAlwaysFit == Spec => []LabelsFit
<1>1. Init => LInv
  <2> SUFFICES ASSUME Init PROVE LInv
    OBVIOUS
  <2>1. DOMAIN chunks = {} /\ chunks = <<>> /\ 1 .. words = {} /\ headAt = {} /\ heads = 0
    BY DEF Init
  <2>2. Cardinality(headAt) = 0
    BY <2>1, FS_EmptySet
  <2>3. HeadsCounted /\ SectionOfLastWord /\ ChunksPositive /\ WordsOnPages /\ NewWordsInPages
    BY <2>1, <2>2 DEF HeadsCounted, SectionOfLastWord, ChunksPositive, WordsOnPages,
                      NewWordsInPages
  <2>4. StartSet /\ BufferPages
    BY <2>1 DEF Init, StartSet, BufferPages
  <2> QED BY <2>3, <2>4 DEF LInv
<1>2. LInv => LabelsFit
  BY DEF LInv, LabelsFit
<1> QED BY <1>1, <1>2, LabelsStep, Invariant, PTL DEF Spec
=============================================================================
