----------------------------- MODULE Retrieval -----------------------------
(* Hybrid retrieval in the API process: the BM25 index, a copy of the       *)
(* chunks table kept in a module-level singleton (src/app/retrieval/bm25.py)*)
(* and the gather of BM25 and vector search (hybrid.py), while ingestion    *)
(* commits new chunks.                                                      *)
(*                                                                          *)
(* A corpus is known by the number of ingestion commits it reflects; 0 is   *)
(* the empty one, for which an (empty) index is built and kept as well.     *)
(* Requests are coroutines of one event loop: what lies between two awaits  *)
(* is one action.                                                           *)
EXTENDS Naturals

CONSTANTS Requests,          \* slots for concurrent /search and /ask requests
          CallersInvalidate, \* does whoever ingests call bm25.invalidate()?
          None,              \* no index, no snapshot
          MaxCommits,        \* bound: ingestion commits
          MaxFaults,         \* bound: database and model errors
          MaxRestarts        \* bound: restarts of the API process

ASSUME ConstantsAssumption ==
    /\ CallersInvalidate \in BOOLEAN
    /\ None \notin Nat
    /\ MaxCommits \in Nat /\ MaxFaults \in Nat /\ MaxRestarts \in Nat

VARIABLES
    db,           \* the corpus in the chunks table
    invalidated,  \* the corpus at the last call of invalidate()
    index,        \* _index: the corpus it was built from, or None
    req,          \* req[q]: where the request stands
    bm,           \* bm[q]: its bm25_search coroutine
    vec,          \* vec[q]: its vector_search coroutine
    snap,         \* snap[q]: the corpus _load_chunks has read
    bmAt, vecAt,  \* the corpora the two searches have answered from
    used,         \* history: corpora searched by BM25 since the last invalidation
    keptSince,    \* history: invalidated when the index was installed
    faults, restarts

envVars == <<faults, restarts>>
reqVars == <<req, bm, vec, snap, bmAt, vecAt>>
vars    == <<db, invalidated, index, reqVars, used, keptSince, envVars>>

Running  == {"lookup", "load", "install"}   \* bm25_search has not returned
BmState  == {"off"} \cup Running \cup {"done", "error"}
VecState == {"off", "query", "done", "error"}

TypeOK ==
    /\ db \in Nat /\ invalidated \in Nat
    /\ index \in Nat \cup {None}
    /\ req \in [Requests -> {"idle", "embed", "gather", "fused", "failed"}]
    /\ bm \in [Requests -> BmState]
    /\ vec \in [Requests -> VecState]
    /\ snap \in [Requests -> Nat \cup {None}]
    /\ bmAt \in [Requests -> Nat \cup {None}]
    /\ vecAt \in [Requests -> Nat \cup {None}]
    /\ used \subseteq Nat
    /\ keptSince \in Nat
    /\ faults \in Nat /\ restarts \in Nat

Init ==
    /\ db = 0 /\ invalidated = 0
    /\ index = None
    /\ req = [q \in Requests |-> "idle"]
    /\ bm = [q \in Requests |-> "off"]
    /\ vec = [q \in Requests |-> "off"]
    /\ snap = [q \in Requests |-> None]
    /\ bmAt = [q \in Requests |-> None]
    /\ vecAt = [q \in Requests |-> None]
    /\ used = {}
    /\ keptSince = 0
    /\ faults = 0 /\ restarts = 0

-----------------------------------------------------------------------------
(* Ingestion, seen from the API process.                                    *)

\* write_chunks of some run commits.
Commit ==
    /\ db < MaxCommits
    /\ db' = db + 1
    /\ UNCHANGED <<invalidated, index, reqVars, used, keptSince, envVars>>

\* Mutant: without "global" the assignment is to a local name.
MutInvalidate ==
    /\ CallersInvalidate
    /\ invalidated < db
    /\ invalidated' = db
    /\ keptSince' = 0
    /\ UNCHANGED <<db, index, reqVars, used, envVars>>

\* invalidate(), called after ingestion as its docstring asks.  No code in the
\* repository calls it: that is CallersInvalidate = FALSE.
Invalidate ==
    /\ CallersInvalidate
    /\ invalidated < db
    /\ invalidated' = db
    /\ index' = None
    /\ used' = {}
    /\ keptSince' = 0
    /\ UNCHANGED <<db, reqVars, envVars>>

-----------------------------------------------------------------------------
(* hybrid_search.                                                           *)

\* The query is embedded in a worker thread.
BeginSearch(q) ==
    /\ req[q] = "idle"
    /\ req' = [req EXCEPT ![q] = "embed"]
    /\ UNCHANGED <<db, invalidated, index, bm, vec, snap, bmAt, vecAt, used, keptSince,
                   envVars>>

\* asyncio.gather starts both searches.
StartGather(q) ==
    /\ req[q] = "embed"
    /\ req' = [req EXCEPT ![q] = "gather"]
    /\ bm' = [bm EXCEPT ![q] = "lookup"]
    /\ vec' = [vec EXCEPT ![q] = "query"]
    /\ UNCHANGED <<db, invalidated, index, snap, bmAt, vecAt, used, keptSince, envVars>>

\* bm25_search scores the index it was given, with no await in between.
Score(q, corpus) ==
    /\ bm' = [bm EXCEPT ![q] = "done"]
    /\ bmAt' = [bmAt EXCEPT ![q] = corpus]
    /\ used' = used \cup {corpus}

IndexHit(q) ==
    /\ bm[q] = "lookup"
    /\ index # None
    /\ Score(q, index)
    /\ UNCHANGED <<db, invalidated, index, req, vec, snap, vecAt, keptSince, envVars>>

IndexMiss(q) ==
    /\ bm[q] = "lookup"
    /\ index = None
    /\ bm' = [bm EXCEPT ![q] = "load"]
    /\ UNCHANGED <<db, invalidated, index, req, vec, snap, bmAt, vecAt, used, keptSince,
                   envVars>>

\* The SELECT of _load_chunks: a snapshot of the table.
LoadChunks(q) ==
    /\ bm[q] = "load"
    /\ snap' = [snap EXCEPT ![q] = db]
    /\ bm' = [bm EXCEPT ![q] = "install"]
    /\ UNCHANGED <<db, invalidated, index, req, vec, bmAt, vecAt, used, keptSince,
                   envVars>>

\* Mutant: the request searches the index it has built itself.
MutInstall(q) ==
    /\ bm[q] = "install"
    /\ index' = IF index = None THEN snap[q] ELSE index
    /\ keptSince' = IF index = None THEN invalidated ELSE keptSince
    /\ Score(q, snap[q])
    /\ snap' = [snap EXCEPT ![q] = None]
    /\ UNCHANGED <<db, invalidated, req, vec, vecAt, envVars>>

\* The index that was built is kept only if there is none by now, and the
\* request searches the one that is kept.
Install(q) ==
    /\ bm[q] = "install"
    /\ index' = IF index = None THEN snap[q] ELSE index
    /\ keptSince' = IF index = None THEN invalidated ELSE keptSince
    /\ Score(q, index')
    /\ snap' = [snap EXCEPT ![q] = None]
    /\ UNCHANGED <<db, invalidated, req, vec, vecAt, envVars>>

\* One statement of vector_search reads the live table.
VectorSearch(q) ==
    /\ vec[q] = "query"
    /\ vec' = [vec EXCEPT ![q] = "done"]
    /\ vecAt' = [vecAt EXCEPT ![q] = db]
    /\ UNCHANGED <<db, invalidated, index, req, bm, snap, bmAt, used, keptSince, envVars>>

Fuse(q) ==
    /\ req[q] = "gather"
    /\ bm[q] = "done" /\ vec[q] = "done"
    /\ req' = [req EXCEPT ![q] = "fused"]
    /\ UNCHANGED <<db, invalidated, index, bm, vec, snap, bmAt, vecAt, used, keptSince,
                   envVars>>

\* Mutant: the gather gives up only when both searches have failed.
MutGatherFails(q) ==
    /\ req[q] = "gather"
    /\ bm[q] = "error" /\ vec[q] = "error"
    /\ req' = [req EXCEPT ![q] = "failed"]
    /\ UNCHANGED <<db, invalidated, index, bm, vec, snap, bmAt, vecAt, used, keptSince,
                   envVars>>

\* gather passes the first exception on; the other search is not cancelled
\* and runs to its end, an index build included.
GatherFails(q) ==
    /\ req[q] = "gather"
    /\ bm[q] = "error" \/ vec[q] = "error"
    /\ req' = [req EXCEPT ![q] = "failed"]
    /\ UNCHANGED <<db, invalidated, index, bm, vec, snap, bmAt, vecAt, used, keptSince,
                   envVars>>

\* The slot is free again once nothing of the request is running.
EndRequest(q) ==
    /\ req[q] \in {"fused", "failed"}
    /\ bm[q] \notin Running /\ vec[q] # "query"
    /\ req' = [req EXCEPT ![q] = "idle"]
    /\ bm' = [bm EXCEPT ![q] = "off"]
    /\ vec' = [vec EXCEPT ![q] = "off"]
    /\ bmAt' = [bmAt EXCEPT ![q] = None]
    /\ vecAt' = [vecAt EXCEPT ![q] = None]
    /\ UNCHANGED <<db, invalidated, index, snap, used, keptSince, envVars>>

-----------------------------------------------------------------------------
(* Failures.                                                                *)

UseFault == faults < MaxFaults /\ faults' = faults + 1 /\ UNCHANGED restarts

EmbedFails(q) ==
    /\ UseFault
    /\ req[q] = "embed"
    /\ req' = [req EXCEPT ![q] = "failed"]
    /\ UNCHANGED <<db, invalidated, index, bm, vec, snap, bmAt, vecAt, used, keptSince>>

\* No connection, or the SELECT raises: nothing is installed.
BuildFails(q) ==
    /\ UseFault
    /\ bm[q] = "load"
    /\ bm' = [bm EXCEPT ![q] = "error"]
    /\ UNCHANGED <<db, invalidated, index, req, vec, snap, bmAt, vecAt, used, keptSince>>

VectorFails(q) ==
    /\ UseFault
    /\ vec[q] = "query"
    /\ vec' = [vec EXCEPT ![q] = "error"]
    /\ UNCHANGED <<db, invalidated, index, req, bm, snap, bmAt, vecAt, used, keptSince>>

\* The process restarts: requests and index are gone.
Restart ==
    /\ restarts < MaxRestarts /\ restarts' = restarts + 1
    /\ index' = None
    /\ req' = [q \in Requests |-> "idle"]
    /\ bm' = [q \in Requests |-> "off"]
    /\ vec' = [q \in Requests |-> "off"]
    /\ snap' = [q \in Requests |-> None]
    /\ bmAt' = [q \in Requests |-> None]
    /\ vecAt' = [q \in Requests |-> None]
    /\ used' = {}
    /\ keptSince' = 0
    /\ UNCHANGED <<db, invalidated, faults>>

RequestStep(q) ==
    \/ StartGather(q) \/ IndexHit(q) \/ IndexMiss(q) \/ LoadChunks(q) \/ Install(q)
    \/ VectorSearch(q) \/ Fuse(q) \/ GatherFails(q) \/ EndRequest(q)

Next ==
    \/ Commit \/ Invalidate \/ Restart
    \/ \E q \in Requests : \/ BeginSearch(q) \/ RequestStep(q)
                           \/ EmbedFails(q) \/ BuildFails(q) \/ VectorFails(q)

Spec == Init /\ [][Next]_vars

\* The event loop serves a request that can go on, clients go on searching, and
\* a caller that has ingested does call invalidate() in the end.
FairSpec == /\ Spec
            /\ WF_vars(Invalidate)
            /\ \A q \in Requests : WF_vars(BeginSearch(q)) /\ WF_vars(RequestStep(q))

-----------------------------------------------------------------------------
(* Properties.                                                              *)

\* Between two invalidations every BM25 search is answered from one and the
\* same index, however many requests missed it and built their own
\* (bm25.py:100-109).
OneIndexPerEpoch == \A x, y \in used : x = y

\* When callers invalidate after ingesting, an index older than the table has
\* one of two causes: the caller has yet to invalidate, or the index was read
\* before the invalidation and installed after it (bm25.py:93-109).
StaleOnlyByRace ==
    CallersInvalidate /\ index # None /\ index < db =>
        invalidated < db \/ index < keptSince

\* Every search is answered, with passages or with an error: one failing half
\* of the gather is enough to fail it, and concurrent index builds do not wait
\* for each other (hybrid.py:77, bm25.py:104-109).
SearchAnswered ==
    \A q \in Requests : req[q] = "embed" ~> req[q] \in {"fused", "failed", "idle"}

\* "After ingestion runs, callers should invalidate() to force a rebuild"
\* (bm25.py:8-9), by a "background invalidation helper used by the ingest
\* endpoint" (bm25.py:151): an index that has fallen behind the table does not
\* stay in use for ever.
IndexCatchesUp ==
    \A v \in 1 .. MaxCommits :
        (db = v /\ index # None /\ index < v) ~> (index = None \/ index >= v)
=============================================================================
