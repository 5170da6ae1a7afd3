-------------------------- MODULE RetrievalProofs --------------------------
(* Proofs about Retrieval, for any number of requests and any bounds.       *)
(*                                                                          *)
(* OneIndexPerEpoch is not inductive: that two searches agree follows from  *)
(* every search of the epoch having used the index that is installed now,   *)
(* none while there is none.  StaleOnlyByRace follows from no index being    *)
(* kept across an invalidation.                                             *)
EXTENDS Retrieval, TLAPS

\* A build that is to be installed has read the table.
SnapshotTaken == \A q \in Requests : bm[q] = "install" => snap[q] \in Nat

\* Every search since the last invalidation used the installed index.
UsedIsInstalled == \A x \in used : x = index

\* No index outlives an invalidation.
KeptInEpoch ==
    /\ invalidated <= db
    /\ index # None => keptSince = invalidated

IInv == TypeOK /\ SnapshotTaken /\ UsedIsInstalled /\ KeptInEpoch

\* The inductive invariant holds at the start.
LEMMA InitIInv == Init => IInv
<1> SUFFICES ASSUME Init PROVE IInv
  OBVIOUS
<1> USE ConstantsAssumption DEF Init
<1>1. TypeOK
  BY DEF TypeOK, BmState, VecState, Running
<1>2. SnapshotTaken
  BY DEF SnapshotTaken
<1>3. UsedIsInstalled
  BY DEF UsedIsInstalled
<1>4. KeptInEpoch
  BY DEF KeptInEpoch
<1>5. QED
  BY <1>1, <1>2, <1>3, <1>4 DEF IInv

\* The steps of ingestion and of a restart keep it.
LEMMA EnvironmentStep ==
  ASSUME IInv, Commit \/ Invalidate \/ Restart
  PROVE  IInv'
<1> USE ConstantsAssumption DEF IInv, TypeOK, SnapshotTaken, UsedIsInstalled,
        KeptInEpoch, BmState, VecState, Running, reqVars, envVars
<1>1. CASE Commit
  <2>1. TypeOK' /\ SnapshotTaken' /\ UsedIsInstalled'
    BY <1>1 DEF Commit
  <2>2. KeptInEpoch'
    BY <1>1 DEF Commit
  <2>3. QED
    BY <2>1, <2>2
<1>2. CASE Invalidate
  <2>1. TypeOK'
    BY <1>2 DEF Invalidate
  <2>2. SnapshotTaken' /\ UsedIsInstalled' /\ KeptInEpoch'
    BY <1>2 DEF Invalidate
  <2>3. QED
    BY <2>1, <2>2
<1>3. CASE Restart
  BY <1>3 DEF Restart
<1> HIDE DEF IInv
<1>4. QED
  BY <1>1, <1>2, <1>3

\* The steps of one request keep it; Install and IndexHit are the ones that
\* search, Install the one that sets the index.
LEMMA RequestStepKeeps ==
  ASSUME IInv, NEW q \in Requests, RequestStep(q)
  PROVE  IInv'
<1> USE ConstantsAssumption DEF IInv, TypeOK, SnapshotTaken, UsedIsInstalled,
        KeptInEpoch, BmState, VecState, Running, reqVars, envVars
<1>1. CASE StartGather(q)
  BY <1>1 DEF StartGather
<1>2. CASE IndexHit(q)
  BY <1>2 DEF IndexHit, Score
<1>3. CASE IndexMiss(q)
  BY <1>3 DEF IndexMiss
<1>4. CASE LoadChunks(q)
  BY <1>4 DEF LoadChunks
<1>5. CASE Install(q)
  <2>1. CASE index = None
    <3>1. used = {} /\ snap[q] \in Nat
      BY <1>5, <2>1 DEF Install
    <3>2. index' = snap[q] /\ used' = {snap[q]} /\ keptSince' = invalidated
      BY <1>5, <2>1, <3>1 DEF Install, Score
    <3>3. TypeOK' /\ SnapshotTaken'
      BY <1>5, <3>1, <3>2 DEF Install, Score
    <3>4. UsedIsInstalled'
      BY <3>2
    <3>5. KeptInEpoch'
      BY <1>5, <3>1, <3>2 DEF Install
    <3>6. QED
      BY <3>3, <3>4, <3>5
  <2>2. CASE index # None
    BY <1>5, <2>2 DEF Install, Score
  <2>3. QED
    BY <2>1, <2>2
<1>6. CASE VectorSearch(q)
  BY <1>6 DEF VectorSearch
<1>7. CASE Fuse(q)
  BY <1>7 DEF Fuse
<1>8. CASE GatherFails(q)
  BY <1>8 DEF GatherFails
<1>9. CASE EndRequest(q)
  BY <1>9 DEF EndRequest
<1> HIDE DEF IInv
<1>10. QED
  BY <1>1, <1>2, <1>3, <1>4, <1>5, <1>6, <1>7, <1>8, <1>9 DEF RequestStep

\* So do the start of a request and its failures.
LEMMA StartAndFailures ==
  ASSUME IInv, NEW q \in Requests,
         BeginSearch(q) \/ EmbedFails(q) \/ BuildFails(q) \/ VectorFails(q)
  PROVE  IInv'
<1> USE ConstantsAssumption DEF IInv, TypeOK, SnapshotTaken, UsedIsInstalled,
        KeptInEpoch, BmState, VecState, Running, reqVars, envVars, UseFault
<1>1. CASE BeginSearch(q)
  BY <1>1 DEF BeginSearch
<1>2. CASE EmbedFails(q)
  BY <1>2 DEF EmbedFails
<1>3. CASE BuildFails(q)
  BY <1>3 DEF BuildFails
<1>4. CASE VectorFails(q)
  BY <1>4 DEF VectorFails
<1> HIDE DEF IInv
<1>5. QED
  BY <1>1, <1>2, <1>3, <1>4

\* The inductive invariant holds in every reachable state.
THEOREM Invariant == Spec => []IInv
<1>1. Init => IInv
  BY InitIInv
<1>2. IInv /\ [Next]_vars => IInv'
  <2> SUFFICES ASSUME IInv, [Next]_vars PROVE IInv'
    OBVIOUS
  <2>1. CASE Next
    BY <2>1, EnvironmentStep, RequestStepKeeps, StartAndFailures DEF Next
  <2>2. CASE UNCHANGED vars
    BY <2>2 DEF vars, reqVars, envVars, IInv, TypeOK, SnapshotTaken, UsedIsInstalled,
                KeptInEpoch
  <2>3. QED
    BY <2>1, <2>2
<1>3. QED
  BY <1>1, <1>2, PTL DEF Spec

\* Type correctness of the index, its users and the request coroutines of
\* bm25.py and hybrid.py.
THEOREM TypeCorrect == Spec => []TypeOK
<1>1. IInv => TypeOK
  BY DEF IInv
<1>2. QED
  BY <1>1, Invariant, PTL

\* However many requests miss the index at once and build their own
\* (_get_index, bm25.py:100-109), the searches of one epoch share one index.
THEOREM OneIndex == Spec => []OneIndexPerEpoch
<1>1. IInv => OneIndexPerEpoch
  BY DEF IInv, UsedIsInstalled, OneIndexPerEpoch
<1>2. QED
  BY <1>1, Invariant, PTL

\* With callers that invalidate (bm25.py:93-97), an index older than the table
\* awaits its invalidation or was read before it and installed after it.
THEOREM StaleIndexExplained == Spec => []StaleOnlyByRace
<1>1. IInv => StaleOnlyByRace
  BY DEF IInv, TypeOK, KeptInEpoch, StaleOnlyByRace
<1>2. QED
  BY <1>1, Invariant, PTL
=============================================================================
