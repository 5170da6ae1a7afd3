----------------------------- MODULE Lifecycle -----------------------------
(* The API process: its start and end, the connection pool, the embedding   *)
(* model that is loaded on first use by whichever thread comes first, and   *)
(* the readiness probe (src/app/main.py, db.py, ingestion/embedder.py,      *)
(* api/routes.py).                                                          *)
(*                                                                          *)
(* Queries embed in executor threads; an ingestion run loads the model and  *)
(* embeds on the event loop itself, which then serves nobody.  /health      *)
(* reads and writes nothing.                                                *)
CONSTANTS Workers,  \* executor threads
          Loop,     \* the event loop's thread
          None      \* no holder of the lock

Threads == Workers \cup {Loop}

ASSUME ConstantsAssumption == Loop \notin Workers /\ None \notin Threads

VARIABLES
    app,      \* "down", "starting" (inside init_pool) or "up"
    db,       \* is Postgres reachable?
    pool,     \* db._pool: "none" or "open"
    started,  \* history: did init_pool succeed in this process?
    dim,      \* does the configured model have the configured dimension?
    model,    \* embedder._model: "none", or the model with that dimension
    lock,     \* embedder._lock
    pc,       \* pc[t]: where thread t is in _load_model
    loads,    \* history: models constructed in this process ("many" from two)
    refused,  \* history: has a dimension check failed in this process?
    ready     \* the last answer of /ready

processVars == <<app, pool, started>>
modelVars   == <<model, lock, pc, loads, refused>>
vars        == <<processVars, db, dim, modelVars, ready>>

TypeOK ==
    /\ app \in {"down", "starting", "up"}
    /\ db \in {"up", "down"}
    /\ pool \in {"none", "open"}
    /\ started \in {"with_db", "without_db", "no"}
    /\ dim \in {"right", "wrong"}
    /\ model \in {"none", "right", "wrong"}
    /\ lock \in Threads \cup {None}
    /\ pc \in [Threads -> {"idle", "want", "load", "check", "use", "error"}]
    /\ loads \in {"none", "one", "many"}
    /\ refused \in {"yes", "no"}
    /\ ready \in [db : {"ok", "not_ok"}, embedder : {"ok", "not_ok"}]

NotReady == [db |-> "not_ok", embedder |-> "not_ok"]

Init ==
    /\ app = "down" /\ pool = "none" /\ started = "no"
    /\ db \in {"up", "down"}
    /\ dim \in {"right", "wrong"}
    /\ model = "none" /\ lock = None /\ loads = "none" /\ refused = "no"
    /\ pc = [t \in Threads |-> "idle"]
    /\ ready = NotReady

-----------------------------------------------------------------------------
(* The process and its database.                                            *)

Start ==
    /\ app = "down"
    /\ app' = "starting"
    /\ UNCHANGED <<pool, started, db, dim, modelVars, ready>>

\* lifespan: an error of init_pool is logged, and the process serves.
InitPool ==
    /\ app = "starting"
    /\ app' = "up"
    /\ \/ db = "up" /\ pool' = "open" /\ started' = "with_db"
       \/ db = "down" /\ pool' = "none" /\ started' = "without_db"
    /\ UNCHANGED <<db, dim, modelVars, ready>>

\* The process ends, by a shutdown that closes the pool or by dying.
Stop ==
    /\ app # "down"
    /\ app' = "down" /\ pool' = "none" /\ started' = "no"
    /\ model' = "none" /\ lock' = None /\ loads' = "none" /\ refused' = "no"
    /\ pc' = [t \in Threads |-> "idle"]
    /\ ready' = NotReady
    /\ UNCHANGED <<db, dim>>

DbGoesDown ==
    /\ db = "up"
    /\ db' = "down"
    /\ UNCHANGED <<processVars, dim, modelVars, ready>>

\* An open pool reconnects by itself.
DbComesUp ==
    /\ db = "down"
    /\ db' = "up"
    /\ UNCHANGED <<processVars, dim, modelVars, ready>>

-----------------------------------------------------------------------------
(* The embedding model.                                                     *)

LoopFree == app = "up" /\ pc[Loop] = "idle"

\* A query hands embed_query to a worker; an ingestion run calls warm and
\* embed_texts on the loop.
Embed(t) ==
    /\ LoopFree
    /\ pc[t] = "idle"
    /\ pc' = [pc EXCEPT ![t] = "want"]
    /\ UNCHANGED <<processVars, db, dim, model, lock, loads, refused, ready>>

\* Mutant: _model is looked at before the lock is taken.
MutEnter(t) ==
    /\ pc[t] = "want" /\ lock = None
    /\ pc' = [pc EXCEPT ![t] = "load"]
    /\ lock' = t
    /\ UNCHANGED <<processVars, db, dim, model, loads, refused, ready>>

\* "with _lock": a model that is there is returned, or else it is loaded.
Enter(t) ==
    /\ pc[t] = "want" /\ lock = None
    /\ \/ model # "none" /\ pc' = [pc EXCEPT ![t] = "use"] /\ UNCHANGED lock
       \/ model = "none" /\ pc' = [pc EXCEPT ![t] = "load"] /\ lock' = t
    /\ UNCHANGED <<processVars, db, dim, model, loads, refused, ready>>

\* Mutant: the lock covers the load, and the check comes after it.
MutConstruct(t) ==
    /\ pc[t] = "load"
    /\ model' = dim
    /\ loads' = IF loads = "none" THEN "one" ELSE "many"
    /\ pc' = [pc EXCEPT ![t] = "check"]
    /\ lock' = None
    /\ UNCHANGED <<processVars, db, dim, refused, ready>>

\* The constructor returns; _model is assigned before it is checked, which
\* embedder_is_ready can see, as it takes no lock.
Construct(t) ==
    /\ pc[t] = "load"
    /\ model' = dim
    /\ loads' = IF loads = "none" THEN "one" ELSE "many"
    /\ pc' = [pc EXCEPT ![t] = "check"]
    /\ UNCHANGED <<processVars, db, dim, lock, refused, ready>>

\* Mutant: acquire and release without "with".
MutConstructFails(t) ==
    /\ pc[t] = "load"
    /\ pc' = [pc EXCEPT ![t] = "error"]
    /\ UNCHANGED <<processVars, db, dim, model, lock, loads, refused, ready>>

\* No weights, no network: the lock is released and the model not set.
ConstructFails(t) ==
    /\ pc[t] = "load"
    /\ pc' = [pc EXCEPT ![t] = "error"]
    /\ lock' = None
    /\ UNCHANGED <<processVars, db, dim, model, loads, refused, ready>>

\* A model of the wrong dimension raises, but stays in _model.
CheckDimension(t) ==
    /\ pc[t] = "check"
    /\ pc' = [pc EXCEPT ![t] = IF model = "right" THEN "use" ELSE "error"]
    /\ refused' = IF model = "right" THEN refused ELSE "yes"
    /\ lock' = None
    /\ UNCHANGED <<processVars, db, dim, model, loads, ready>>

EndEmbed(t) ==
    /\ pc[t] \in {"use", "error"}
    /\ pc' = [pc EXCEPT ![t] = "idle"]
    /\ UNCHANGED <<processVars, db, dim, model, lock, loads, refused, ready>>

-----------------------------------------------------------------------------
(* The readiness probe.                                                     *)

\* healthcheck: a pool that was never opened raises, which counts as not ok.
HealthCheck == IF pool = "open" /\ db = "up" THEN "ok" ELSE "not_ok"

\* embedder_is_ready: no lock, no load.
EmbedderIsReady == IF model # "none" THEN "ok" ELSE "not_ok"

\* Mutant: a failing check discards the pool, to have it opened anew.
MutReady ==
    /\ LoopFree
    /\ ready' = [db |-> HealthCheck, embedder |-> EmbedderIsReady]
    /\ pool' = IF HealthCheck = "ok" THEN pool ELSE "none"
    /\ UNCHANGED <<app, started, db, dim, modelVars>>

Ready ==
    /\ LoopFree
    /\ ready' = [db |-> HealthCheck, embedder |-> EmbedderIsReady]
    /\ UNCHANGED <<processVars, db, dim, modelVars>>

ThreadStep(t) ==
    Enter(t) \/ Construct(t) \/ ConstructFails(t) \/ CheckDimension(t) \/ EndEmbed(t)

Next ==
    \/ Start \/ InitPool \/ Stop \/ DbGoesDown \/ DbComesUp
    \/ Ready
    \/ \E t \in Threads : Embed(t) \/ ThreadStep(t)

Spec == Init /\ [][Next]_vars

\* Threads run, a waiting thread gets a lock that is released again and again,
\* the container is restarted, and /ready is polled: the loop comes to a poll
\* as it gets free.
FairSpec ==
    /\ Spec
    /\ WF_vars(Start) /\ WF_vars(InitPool)
    /\ SF_vars(Ready)
    /\ \A t \in Threads : SF_vars(Enter(t)) /\ WF_vars(ThreadStep(t))

-----------------------------------------------------------------------------
(* Properties.                                                              *)

\* However many queries and runs need the model at once, one of them loads it,
\* once, and the others wait (embedder.py:30-48).
LoadedOnce ==
    /\ loads # "many"
    /\ \A t, u \in Threads :
           pc[t] \in {"load", "check"} /\ pc[u] \in {"load", "check"} => t = u

\* Every call of the embedder returns, also when a load fails while others wait
\* for it and when the loop itself waits for a worker's load.
EmbedReturns ==
    \A t \in Threads : pc[t] = "want" ~> pc[t] \in {"use", "error", "idle"}

\* A process that had its database at the start is ready again when an outage
\* is over: nothing in it has to be restarted (db.py:41-52, 76-88).
RecoversFromOutage ==
    <>[](app = "up" /\ started = "with_db" /\ db = "up") => <>[](ready.db = "ok")

\* Nobody uses a model before its dimension has been compared with the
\* configured one, and a model that fails the "sanity check" of
\* embedder.py:40-46 is reported to a caller before any other can use it: the
\* lock covers the load and the check.  (Later callers do use it: _model keeps
\* the refused model.)
RefusedBeforeUse ==
    \A t \in Threads : pc[t] = "use" /\ model # "right" => refused = "yes"
=============================================================================
