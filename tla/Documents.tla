----------------------------- MODULE Documents ------------------------------
(* The list of documents, src/app/services/documents.py: which chunk of a   *)
(* document its preview is taken from, and where that is cut.               *)
(*                                                                          *)
(* A flat text is a sequence of "c", "." and "blank" - "c" is a character    *)
(* of a word; it neither begins nor ends with a blank, nor has two in a row. *)
(* A preview is what is left of it: the number of characters kept and       *)
(* whether an ellipsis follows.                                             *)
EXTENDS Integers, Sequences, FiniteSets, SequencesExt

CONSTANTS MaxPreview,  \* _MAX_PREVIEW_CHARS
          MinPreview   \* _MIN_PREVIEW_CHARS

ASSUME PreviewAssumption ==
    MinPreview \in Nat /\ MaxPreview \in Nat /\ MinPreview < MaxPreview

-----------------------------------------------------------------------------
(* _make_preview.                                                           *)

\* The 0-based indices at which ". " and " " are found in the cut; a period in
\* its last place is none.
Periods(flat, size) == {i \in 0 .. size - 2 : flat[i + 1] = "." /\ flat[i + 2] = "blank"}
Spaces(flat, size)  == {i \in 0 .. size - 1 : flat[i + 1] = "blank"}

LastOf(S) == IF S = {} THEN -1 ELSE CHOOSE i \in S : \A j \in S : j <= i

NoPreview == [kept |-> 0, ellipsis |-> "no"]

\* cut.rstrip() + an ellipsis
Stripped(flat, size) ==
    [kept |-> IF flat[size] = "blank" THEN size - 1 ELSE size, ellipsis |-> "yes"]

\* Mutant: the last sentence or word, however little it leaves.
MutMakePreview(flat) ==
    LET period == LastOf(Periods(flat, MaxPreview))
        space  == LastOf(Spaces(flat, MaxPreview))
    IN  IF Len(flat) <= MaxPreview THEN [kept |-> Len(flat), ellipsis |-> "no"]
        ELSE IF period >= 0 THEN [kept |-> period + 1, ellipsis |-> "no"]
        ELSE IF space >= 0 THEN [kept |-> space, ellipsis |-> "yes"]
        ELSE Stripped(flat, MaxPreview)

MakePreview(flat) ==
    LET period == LastOf(Periods(flat, MaxPreview))
        space  == LastOf(Spaces(flat, MaxPreview))
    IN  IF Len(flat) <= MaxPreview THEN [kept |-> Len(flat), ellipsis |-> "no"]
        ELSE IF period >= MinPreview THEN [kept |-> period + 1, ellipsis |-> "no"]
        ELSE IF space >= MinPreview THEN [kept |-> space, ellipsis |-> "yes"]
        ELSE Stripped(flat, MaxPreview)

-----------------------------------------------------------------------------
(* list_documents.  A chunk is whether it has 200 characters, whether it    *)
(* looks like a table of contents, and its flat text.                       *)

\* The chunks of 200 characters, and ROW_NUMBER() of the query: the place of
\* such a chunk among them, in the order of the index.
Long(chunks) == {i \in DOMAIN chunks : chunks[i].long = "yes"}
RowNumber(chunks, i) == Cardinality({j \in Long(chunks) : j <= i})

\* array_agg of the rows whose number is at most three.
FirstChunks(chunks) ==
    LET n == Cardinality(Long(chunks))
    IN  [r \in 1 .. (IF n < 3 THEN n ELSE 3) |->
            chunks[CHOOSE i \in Long(chunks) : RowNumber(chunks, i) = r]]

\* Which of these the preview is of: the earliest that is no table of contents.
Chosen(first) ==
    LET prose == {i \in DOMAIN first : first[i].toc = "no"}
    IN  IF prose = {} THEN 1 ELSE CHOOSE i \in prose : \A j \in prose : i <= j

ListDocument(chunks) ==
    LET first == FirstChunks(chunks)
    IN  [chunkCount |-> Len(chunks),
         preview    |-> IF first = <<>> THEN NoPreview
                        ELSE MakePreview(first[Chosen(first)].text)]

-----------------------------------------------------------------------------
(* What is expected of it.                                                  *)

\* A preview that is cut is never shorter than the minimum nor, with its
\* ellipsis, longer than the maximum and one.
PreviewFits(flat) ==
    LET p == MakePreview(flat)
    IN  /\ p.kept + (IF p.ellipsis = "yes" THEN 1 ELSE 0) <= MaxPreview + 1
        /\ p.kept < Len(flat) => p.kept >= MinPreview

\* It ends at the end of a word, unless the word in which it is cut began
\* before the minimum; and without an ellipsis only at the end of a sentence.
CutBetweenWords(flat) ==
    LET p == MakePreview(flat)
    IN  p.kept < Len(flat) =>
            /\ p.ellipsis = "no" => flat[p.kept] = "." /\ flat[p.kept + 1] = "blank"
            /\ \/ flat[p.kept + 1] = "blank"
               \/ \A i \in MinPreview + 1 .. MaxPreview : flat[i] # "blank"

\* A document that has chunks goes without a preview only if all are short; a
\* table of contents is shown only if no prose is among the first three.
PreviewShown(chunks) ==
    LET doc == ListDocument(chunks)
    IN  /\ doc.preview = NoPreview <=> Long(chunks) = {}
        /\ \A i \in Long(chunks) :
              /\ chunks[i].toc = "no"
              /\ Cardinality({j \in Long(chunks) : j < i}) < 3
              /\ \A j \in Long(chunks) : j < i => chunks[j].toc = "yes"
              => doc.preview = MakePreview(chunks[i].text)
=============================================================================
