---------------------------- MODULE MCIngestion ----------------------------
(* Small instances of Ingestion for TLC.                                    *)
EXTENDS Ingestion

CONSTANTS v1, v2,   \* two versions of a PDF, of one and of two chunks
          scan      \* a version whose pages hold no text: no chunks

MCNumChunks == [v \in Versions |-> CASE v = v1 -> 1 [] v = scan -> 0 [] OTHER -> 2]
=============================================================================
