------------------------------ MODULE Metrics -------------------------------
(* The figures of the evaluation harness: _recall_at_k, _mrr and the        *)
(* latencies of _aggregate in src/eval/run_eval.py.                         *)
(*                                                                          *)
(* gold and retrieved are lists of documents; a document is in retrieved    *)
(* once for each of its passages.  A mean over the gold documents is left   *)
(* as its sum, in multiples of 1/Whole where it sums reciprocals.           *)
EXTENDS Integers, Sequences, FiniteSets, SequencesExt

CONSTANT Whole  \* a multiple of every rank

ASSUME MetricsAssumption == Whole \in Nat \ {0}

-----------------------------------------------------------------------------
(* The code.                                                                *)

TopOf(retrieved, k) == SubSeq(retrieved, 1, IF k < Len(retrieved) THEN k
                                            ELSE Len(retrieved))

\* _recall_at_k times len(gold).
Hits(gold, retrieved, k) ==
    Cardinality({i \in DOMAIN gold : gold[i] \in ToSet(TopOf(retrieved, k))})

\* retrieved.index(g) + 1, or 0.
RankOf(g, retrieved) == SelectInSeq(retrieved, LAMBDA d : d = g)

\* Mutant: the 0-based index is the rank.
MutReciprocal(g, retrieved) ==
    IF RankOf(g, retrieved) <= 1 THEN 0 ELSE Whole \div (RankOf(g, retrieved) - 1)

Reciprocal(g, retrieved) ==
    IF RankOf(g, retrieved) = 0 THEN 0 ELSE Whole \div RankOf(g, retrieved)

\* _mrr times len(gold).
MrrSum(gold, retrieved) ==
    FoldLeft(LAMBDA sum, g : sum + Reciprocal(g, retrieved), 0, gold)

\* The positions, from 0, of the two latencies in the sorted list of n.
P50(n) == n \div 2

P95(n) == IF (95 * n) \div 100 - 1 > 0 THEN (95 * n) \div 100 - 1 ELSE 0

-----------------------------------------------------------------------------
(* What is expected of it.                                                  *)

\* The mean reciprocal rank lies between recall at 1 and the recall of the
\* whole list, and recall never falls with k.  An item with two gold documents
\* never has a reciprocal rank of one, even if both are retrieved first.
RecallBoundsMrr(gold, retrieved) ==
    LET all == Len(retrieved)
        mrr == MrrSum(gold, retrieved)
    IN  /\ Whole * Hits(gold, retrieved, 1) <= mrr
        /\ mrr <= Whole * Hits(gold, retrieved, all)
        /\ \A k \in 1 .. all : Hits(gold, retrieved, k - 1) <= Hits(gold, retrieved, k)
        /\ Hits(gold, retrieved, all) <= Len(gold)
        /\ Len(gold) > 1 => mrr < Whole * Len(gold)

\* The latency called p95 is one of the list, and not below the one called p50
\* - save for two items, where p50 is the slower and p95 the faster of them.
PercentilesOrdered(n) ==
    /\ P50(n) \in 0 .. n - 1 /\ P95(n) \in 0 .. n - 1
    /\ n # 2 => P50(n) <= P95(n)
=============================================================================
