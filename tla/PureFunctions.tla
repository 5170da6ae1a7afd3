--------------------------- MODULE PureFunctions ----------------------------
(* The functions of Fusion, Extraction, Documents and Metrics, called with  *)
(* any input of given sets: each step hands one function one input, and     *)
(* each invariant compares what it returns with what is expected of it.     *)
(* The sets are parameters, of which only is assumed what the callers see   *)
(* to: nothing bounds how many inputs there are or how long one is.         *)
EXTENDS Fusion, Extraction, Documents, Metrics

CONSTANTS Ids,            \* passages, or documents
          Rankings,       \* lists that a search returns
          Cuts,           \* values of out_k
          Reads,          \* what an extractor makes of a file
          PageLists,      \* the pages of a document
          NumberedPages,  \* single pages, no piece of which is there twice
          Flats,          \* flat texts
          ChunkLists,     \* the chunks of a document
          GoldLists,      \* the gold documents of an item
          ResultLists,    \* the documents retrieved for an item
          ItemCounts      \* numbers of items in a run

-----------------------------------------------------------------------------
(* The inputs.                                                              *)

\* A list a search returns: no longer than its top_k, and no passage twice.
IsRanking(ids) ==
    /\ ids \in Seq(ToSet(ids))
    /\ Len(ids) <= MaxRank
    /\ \A r, s \in DOMAIN ids : ids[r] = ids[s] => r = s

\* Lines of words that are made of the pieces in Q, with an end in E.
LineShapes(Q, E) == [words : Seq(Seq(Q)), end : E]
PageLines ==
    LineShapes(Words \cup Numbers \cup PageMarks, {"plain", "hyphen", "hyphen_space"})

\* The pieces on a line.
On(line) == ToSet(FlattenSeq(line.words))

\* As pages are extracted: a word is one piece, and no piece is on two lines.
SinglePieces(page) ==
    \A i \in DOMAIN page : \A j \in DOMAIN page[i].words : Len(page[i].words[j]) = 1
NothingTwice(page) ==
    \A i, j \in DOMAIN page : i # j => On(page[i]) \cap On(page[j]) = {}

\* " ".join(content.split()) of a chunk, which is never empty.
IsFlat(text) ==
    /\ text \in Seq({"c", ".", "blank"}) /\ text # <<>>
    /\ text[1] # "blank" /\ text[Len(text)] # "blank"
    /\ \A i \in 1 .. Len(text) - 1 : text[i] # "blank" \/ text[i + 1] # "blank"

\* Whether a chunk is long, whether it looks like a table of contents, its text.
Chunks == [long : {"yes", "no"}, toc : {"yes", "no"}, text : Seq({"c", ".", "blank"})]

ASSUME InputsAssumption ==
    /\ \A ids \in Rankings : IsRanking(ids)
    /\ Cuts \subseteq Nat
    /\ \A read \in Reads : read.ok \in {"yes", "no"} /\ read.pages \in Seq(Seq(PageLines))
    /\ PageLists \subseteq Seq(Seq(PageLines))
    /\ \A page \in NumberedPages :
          page \in Seq(PageLines) /\ SinglePieces(page) /\ NothingTwice(page)
    /\ \A flat \in Flats : IsFlat(flat)
    /\ ChunkLists \subseteq Seq(Chunks)
    /\ \A chunks \in ChunkLists : \A i \in DOMAIN chunks : IsFlat(chunks[i].text)
    /\ GoldLists \subseteq Seq(Ids) /\ ResultLists \subseteq Seq(Ids)
    /\ \A gold \in GoldLists :
          gold # <<>> /\ \A i, j \in DOMAIN gold : gold[i] = gold[j] => i = j
    /\ ItemCounts \subseteq Nat \ {0}

-----------------------------------------------------------------------------
VARIABLE task  \* the function and its arguments

NoTask == [fn |-> "none"]

Init == task = NoTask

Next ==
    /\ task = NoTask
    /\ \/ task' \in [fn : {"fusion"}, bm25 : Rankings, vector : Rankings, outK : Cuts]
       \/ task' \in [fn : {"load"}, plumber : Reads, pypdf : Reads]
       \/ task' \in [fn : {"clean_pages"}, pages : PageLists]
       \/ task' \in [fn : {"clean_page"}, page : NumberedPages]
       \/ task' \in [fn : {"preview"}, flat : Flats]
       \/ task' \in [fn : {"list"}, chunks : ChunkLists]
       \/ task' \in [fn : {"score"}, gold : GoldLists, retrieved : ResultLists]
       \/ task' \in [fn : {"latency"}, n : ItemCounts]

Spec == Init /\ [][Next]_task

-----------------------------------------------------------------------------
(* The properties, each stated of one call in the module of its function.   *)

\* Fusion ranks by the sum of the reciprocal ranks, lists a passage once and
\* cuts only what scores no higher than what it keeps; whatever both searches
\* found is ahead of what only one of them found, and what no search ranks
\* ahead of another passage is behind it, for all the ties of the stable sort
\* (hybrid.py:31-87, test_hybrid_merge.py:33).
FusedInOrder ==
    task.fn = "fusion" =>
        /\ HybridIsBest(task.bm25, task.vector, task.outK)
        /\ BothAheadOfOne(task.bm25, task.vector, task.outK)
        /\ DominatedIsBehindOf(task.bm25, task.vector, task.outK)

\* A document that one of the two extractors can read is left without a word by
\* loading and cleaning only if pdfplumber reads nothing but page numbers, or
\* all its text is a running header (loader.py:70-84, cleaner.py:52-122).
ReadableNotEmpty == task.fn = "load" => ReadableSurvives(task.plumber, task.pypdf)

\* Cleaning takes no text from a page but one line that heads two fifths of
\* the pages, and keeps the rest in order (cleaner.py:52-122).
TextKept ==
    /\ task.fn = "clean_pages" => TextSurvives(task.pages)
    /\ task.fn = "clean_page" => TextSurvives(<<task.page>>)

\* A line that heads more than half of the pages goes from those it heads,
\* once (cleaner.py:52-93).
MajorityHeaderGone == task.fn = "clean_pages" => MajorityHeaderDropped(task.pages)

\* A page number survives only behind a broken word, and no other number goes
\* but a lone one broken before a lone one (cleaner.py:96-109).
NumbersKept == task.fn = "clean_page" => NumbersExplained(task.page)

\* A preview that is cut is neither shorter than the minimum nor longer than
\* the maximum, and is cut between words when it can be; a document is without
\* one only if its chunks are all short, and shows its first prose if one of
\* its first three long chunks is prose (documents.py:38-51, 61-115).
PreviewReadable ==
    /\ task.fn = "preview" => PreviewFits(task.flat) /\ CutBetweenWords(task.flat)
    /\ task.fn = "list" => PreviewShown(task.chunks)

\* Reciprocal rank lies between recall at 1 and recall; both percentiles are
\* latencies of the run, and p95 is not below p50 unless there are two
\* (run_eval.py:83-104, 262-266).
FiguresConsistent ==
    /\ task.fn = "score" => RecallBoundsMrr(task.gold, task.retrieved)
    /\ task.fn = "latency" => PercentilesOrdered(task.n)
=============================================================================
