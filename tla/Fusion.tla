------------------------------- MODULE Fusion -------------------------------
(* Reciprocal rank fusion, src/app/retrieval/hybrid.py: the lists of the    *)
(* keyword and of the vector search become one list, by rank alone.         *)
(*                                                                          *)
(* Scores are the fractions 1/(k + rank), written as multiples of 1/Unit.   *)
(* Two sums of fractions that are equal here may differ by a rounding of    *)
(* their floats in the code: what is said below of ties holds of exact      *)
(* arithmetic only, and the properties are about strict order.              *)
EXTENDS Integers, Sequences, FiniteSets, SequencesExt

CONSTANTS K,        \* rrf_k
          MaxRank,  \* the longer of bm25_top_k and vector_top_k
          Unit      \* a multiple of K + 1, ..., K + MaxRank

ASSUME FusionAssumption ==
    /\ K \in Nat /\ MaxRank \in Nat /\ Unit \in Nat \ {0}
    /\ \A r \in 1 .. MaxRank : \E m \in 1 .. Unit : m * (K + r) = Unit

-----------------------------------------------------------------------------
(* The code.                                                                *)

\* Mutant: the damping constant is forgotten.
MutContribution(rank) == CHOOSE m \in 1 .. Unit : m * rank = Unit

\* 1/(k + rank), what a retriever adds to the score of its hit at that rank.
Contribution(rank) == CHOOSE m \in 1 .. Unit : m * (K + rank) = Unit

\* The hits of one retriever, best first, each with its rank.
Ranked(source, ids) ==
    [r \in DOMAIN ids |-> [id |-> ids[r], rank |-> r, source |-> source]]

NewEntry(hit) == [id      |-> hit.id,
                  score   |-> Contribution(hit.rank),
                  sources |-> {hit.source},
                  text    |-> hit.source]

\* One turn of the loop over the hits.  The dictionary is in insertion order,
\* and an entry keeps the text that the first retriever read.
Merge(fused, hit) ==
    IF \E i \in DOMAIN fused : fused[i].id = hit.id
    THEN [i \in DOMAIN fused |->
            IF fused[i].id = hit.id
            THEN [fused[i] EXCEPT !.score = @ + Contribution(hit.rank),
                                  !.sources = @ \cup {hit.source}]
            ELSE fused[i]]
    ELSE Append(fused, NewEntry(hit))

\* sorted(..., reverse=True): best first, equal scores in the order they had.
SortedByScore(fused) ==
    LET Before(i, j) == \/ fused[i].score > fused[j].score
                        \/ fused[i].score = fused[j].score /\ i < j
    IN  [n \in DOMAIN fused |->
            fused[CHOOSE i \in DOMAIN fused :
                    Cardinality({j \in DOMAIN fused : Before(j, i)}) = n - 1]]

ReciprocalRankFusion(bm25, vector) ==
    SortedByScore(FoldLeft(Merge, <<>>,
                           Ranked("bm25", bm25) \o Ranked("vector", vector)))

\* The cut at out_k that hybrid_search makes.
Hybrid(bm25, vector, outK) ==
    LET fused == ReciprocalRankFusion(bm25, vector)
    IN  SubSeq(fused, 1, IF outK < Len(fused) THEN outK ELSE Len(fused))

-----------------------------------------------------------------------------
(* What is expected of it.                                                  *)

\* The share of a list in the score of id, without any loop.
Share(ids, id) == IF \E r \in DOMAIN ids : ids[r] = id
                  THEN Contribution(CHOOSE r \in DOMAIN ids : ids[r] = id)
                  ELSE 0
Score(bm25, vector, id) == Share(bm25, id) + Share(vector, id)

FoundByBoth(bm25, vector) == ToSet(bm25) \cap ToSet(vector)

\* Id a is at least as well placed as b in this list.
NoWorse(ids, a, b) ==
    \A s \in DOMAIN ids : ids[s] = b => \E r \in 1 .. s : ids[r] = a

\* The loop computes the sums of the formula: what is cut off never has a
\* higher score than what is kept, and nothing is listed twice or invented.
HybridIsBest(bm25, vector, outK) ==
    LET out   == Hybrid(bm25, vector, outK)
        found == ToSet(bm25) \cup ToSet(vector)
        kept  == {out[i].id : i \in DOMAIN out}
    IN  /\ kept \subseteq found
        /\ Cardinality(kept) = Len(out)
        /\ Len(out) < outK => kept = found
        /\ \A i \in DOMAIN out : out[i].score = Score(bm25, vector, out[i].id)
        /\ \A i \in DOMAIN out : \A id \in found \ {out[j].id : j \in 1 .. i} :
                Score(bm25, vector, id) <= out[i].score

\* A passage that both searches found is never behind, or cut in favour of,
\* one that only a single search found, whatever their ranks are.
BothAheadOfOne(bm25, vector, outK) ==
    LET out  == Hybrid(bm25, vector, outK)
        both == FoundByBoth(bm25, vector)
    IN  \A i \in DOMAIN out : out[i].id \notin both =>
            \A id \in both : \E j \in 1 .. i - 1 : out[j].id = id

\* A passage that no search places ahead of another is never ahead of it.
DominatedIsBehindOf(bm25, vector, outK) ==
    LET out == Hybrid(bm25, vector, outK)
    IN  \A i \in DOMAIN out : \A a \in ToSet(bm25) \cup ToSet(vector) :
            /\ a # out[i].id
            /\ NoWorse(bm25, a, out[i].id)
            /\ NoWorse(vector, a, out[i].id)
            => \E j \in 1 .. i - 1 : out[j].id = a
=============================================================================
