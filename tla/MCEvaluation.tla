--------------------------- MODULE MCEvaluation ----------------------------
(* A small instance of Evaluation for TLC.                                  *)
EXTENDS Evaluation

CONSTANTS d1, d2, d3  \* documents

\* The first item can be answered from d1, the second has no gold document and
\* the third is one to refuse.
MCGold == [i \in Items |-> IF i = 1 THEN {d1} ELSE {}]
MCAnswerable == Items \ {3}

\* An ingestion replaces d1 by d3 in the ranking of the first item and finds
\* something for the second.
MCFound == [c \in Corpora |-> [i \in Items |->
    IF i = 1 THEN IF c = 1 THEN <<d2, d1>> ELSE <<d2, d3>>
    ELSE IF i = 2 /\ c > 1 THEN <<d1>> ELSE <<>>]]
=============================================================================
