---------------------------- MODULE CorpusStore ----------------------------
(* What an ingestion promises to whoever reads the chunks table             *)
(* (src/app/ingestion/pipeline.py:7-8): the chunks of a document are only   *)
(* ever replaced as a whole, by a run that was asked for the document, at   *)
(* most once per run, and never by a run that has ended.  How the run       *)
(* reads, embeds, locks and commits is left to Ingestion.                   *)
EXTENDS Naturals

CONSTANTS Docs,       \* the documents of the manifest
          Runs,       \* the ingestion runs
          Versions,   \* the contents a document's PDF may have
          NumChunks   \* how many chunks the chunker cuts a version into

VARIABLES chunks,     \* chunks[d]: the committed chunk rows of document d
          state,      \* state[r]: has run r been opened, has it ended
          pending     \* pending[r]: documents run r may still replace

storeVars == <<chunks, state, pending>>

\* The rows one write_chunks call inserts: one per chunk index, all of one
\* version of the file, all by one run.
RowsOf(v, r) == [ix : 0 .. NumChunks[v] - 1, ver : {v}, by : {r}]

StoreInit ==
    /\ chunks = [d \in Docs |-> {}]
    /\ state = [r \in Runs |-> "new"]
    /\ pending = [r \in Runs |-> {}]

Open(r, S) ==
    /\ state[r] = "new"
    /\ state' = [state EXCEPT ![r] = "open"]
    /\ pending' = [pending EXCEPT ![r] = S]
    /\ UNCHANGED chunks

Replace(r, d, v) ==
    /\ state[r] = "open"
    /\ d \in pending[r]
    /\ chunks' = [chunks EXCEPT ![d] = RowsOf(v, r)]
    /\ pending' = [pending EXCEPT ![r] = @ \ {d}]
    /\ UNCHANGED state

\* The run leaves d as it is: already ingested, no text, or an error.
Leave(r, d) ==
    /\ state[r] = "open"
    /\ d \in pending[r]
    /\ pending' = [pending EXCEPT ![r] = @ \ {d}]
    /\ UNCHANGED <<chunks, state>>

\* Runs end one by one, or several at once when their process dies.
Close(R) ==
    /\ state' = [r \in Runs |-> IF r \in R THEN "closed" ELSE state[r]]
    /\ pending' = [r \in Runs |-> IF r \in R THEN {} ELSE pending[r]]
    /\ UNCHANGED chunks

StoreNext ==
    \/ \E r \in Runs, S \in SUBSET Docs : Open(r, S)
    \/ \E r \in Runs, d \in Docs, v \in Versions : Replace(r, d, v)
    \/ \E r \in Runs, d \in Docs : Leave(r, d)
    \/ \E R \in SUBSET Runs : Close(R)

StoreSpec == StoreInit /\ [][StoreNext]_storeVars
=============================================================================
