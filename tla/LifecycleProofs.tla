-------------------------- MODULE LifecycleProofs --------------------------
(* Proofs about Lifecycle, for any set of executor threads: types, that the *)
(* embedding model is loaded once, and that none is used unchecked.         *)
(*                                                                          *)
(* LoadedOnce needs to know why a second load cannot begin: whoever loads   *)
(* or checks holds the lock, a load begins only while there is no model,    *)
(* and there is a model as soon as one has been constructed.  A wrong model *)
(* that nobody has refused yet is still behind the lock.                    *)
EXTENDS Lifecycle, TLAPS

\* The threads between Enter and the release hold the lock.
LoaderHoldsLock == \A t \in Threads : pc[t] \in {"load", "check"} => lock = t

\* A model is under construction only while there is none, and one that was
\* constructed is kept.
LoadsOfModel ==
    /\ \A t \in Threads : pc[t] = "load" => model = "none"
    /\ loads = IF model = "none" THEN "none" ELSE "one"

\* A model of the wrong dimension is locked away until its check has failed,
\* and no thread is past the lock with it.
UncheckedIsLocked ==
    model = "wrong" /\ refused = "no" =>
        /\ lock \in Threads /\ pc[lock] = "check"
        /\ \A t \in Threads : pc[t] # "use"

\* Without a model nobody is past the load.
NoneWithoutModel == model = "none" => \A t \in Threads : pc[t] \notin {"check", "use"}

IInv == TypeOK /\ LoaderHoldsLock /\ LoadsOfModel /\ UncheckedIsLocked /\ NoneWithoutModel

\* The inductive invariant holds at the start.
LEMMA InitIInv == Init => IInv
  BY DEF Init, IInv, TypeOK, LoaderHoldsLock, LoadsOfModel, NotReady,
     UncheckedIsLocked, NoneWithoutModel

\* The process, its database and the probe leave the lock alone or reset it.
LEMMA EnvironmentKeeps ==
  ASSUME IInv, Start \/ InitPool \/ Stop \/ DbGoesDown \/ DbComesUp \/ Ready
  PROVE  IInv'
<1> USE DEF IInv, TypeOK, LoaderHoldsLock, LoadsOfModel, processVars, modelVars,
        UncheckedIsLocked, NoneWithoutModel
<1>1. CASE Start
  BY <1>1 DEF Start
<1>2. CASE InitPool
  BY <1>2 DEF InitPool
<1>3. CASE Stop
  BY <1>3 DEF Stop, NotReady
<1>4. CASE DbGoesDown
  BY <1>4 DEF DbGoesDown
<1>5. CASE DbComesUp
  BY <1>5 DEF DbComesUp
<1>6. CASE Ready
  BY <1>6 DEF Ready, HealthCheck, EmbedderIsReady
<1> HIDE DEF IInv
<1>7. QED
  BY <1>1, <1>2, <1>3, <1>4, <1>5, <1>6

\* Nor does a thread break it: Enter begins a load only without a model, and
\* Construct is done under the lock.
LEMMA ThreadKeeps ==
  ASSUME IInv, NEW t \in Threads, Embed(t) \/ ThreadStep(t)
  PROVE  IInv'
<1> USE ConstantsAssumption
        DEF IInv, TypeOK, LoaderHoldsLock, LoadsOfModel, processVars, modelVars,
        UncheckedIsLocked, NoneWithoutModel
<1>1. CASE Embed(t)
  BY <1>1 DEF Embed
<1>2. CASE Enter(t)
  BY <1>2 DEF Enter
<1>3. CASE Construct(t)
  BY <1>3 DEF Construct
<1>4. CASE ConstructFails(t)
  BY <1>4 DEF ConstructFails
<1>5. CASE CheckDimension(t)
  BY <1>5 DEF CheckDimension
<1>6. CASE EndEmbed(t)
  BY <1>6 DEF EndEmbed
<1> HIDE DEF IInv
<1>7. QED
  BY <1>1, <1>2, <1>3, <1>4, <1>5, <1>6 DEF ThreadStep

\* The inductive invariant holds in every reachable state.
THEOREM Invariant == Spec => []IInv
<1>1. IInv /\ [Next]_vars => IInv'
  <2> SUFFICES ASSUME IInv, [Next]_vars PROVE IInv'
    OBVIOUS
  <2>1. CASE Next
    BY <2>1, EnvironmentKeeps, ThreadKeeps DEF Next
  <2>2. CASE UNCHANGED vars
    BY <2>2 DEF vars, processVars, modelVars, IInv, TypeOK, LoaderHoldsLock,
                LoadsOfModel, UncheckedIsLocked, NoneWithoutModel
  <2>3. QED
    BY <2>1, <2>2
<1>2. QED
  BY <1>1, InitIInv, PTL DEF Spec

\* Type correctness of the process, the pool, the model and the probe.
THEOREM TypeCorrect == Spec => []TypeOK
<1>1. IInv => TypeOK
  BY DEF IInv
<1>2. QED
  BY <1>1, Invariant, PTL

\* For any number of threads that need the model at once, it is constructed
\* once in the life of the process, by one of them (embedder.py:30-48).
THEOREM ModelLoadedOnce == Spec => []LoadedOnce
<1>1. IInv => LoadedOnce
  BY DEF IInv, TypeOK, LoaderHoldsLock, LoadsOfModel, LoadedOnce
<1>2. QED
  BY <1>1, Invariant, PTL

\* For any number of threads, a model of the wrong dimension has been refused,
\* to a caller that was told so, before any thread uses it (embedder.py:30-48).
THEOREM WrongModelRefused == Spec => []RefusedBeforeUse
<1>1. IInv => RefusedBeforeUse
  BY DEF IInv, TypeOK, LoadsOfModel, UncheckedIsLocked, NoneWithoutModel, RefusedBeforeUse
<1>2. QED
  BY <1>1, Invariant, PTL
=============================================================================
