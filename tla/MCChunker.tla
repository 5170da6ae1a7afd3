----------------------------- MODULE MCChunker -----------------------------
(* Small instances of Chunker for TLC.                                      *)
EXTENDS Chunker

\* Minima on both sides of the overlap and of the target.
SmallSizes ==
    {s \in [target : 1 .. 4, overlap : 0 .. 2, min : 0 .. 5] : s.overlap < s.target}

\* The shape of the configured sizes (500, 50, 80).
ConfiguredSizes == {[target |-> 4, overlap |-> 2, min |-> 3]}
=============================================================================
