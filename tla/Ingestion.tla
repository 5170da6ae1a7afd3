----------------------------- MODULE Ingestion -----------------------------
(* Ingestion of the corpus into Postgres: src/app/ingestion/pipeline.py and *)
(* store.py, with the schema of src/scripts/init_db.sql.  Several runs may  *)
(* be active at once: POST /ingest requests served by one API process, and  *)
(* command-line runs, a process each.  A run walks its manifest entries; for*)
(* each it reads the PDF, then upserts the documents row in one transaction *)
(* and replaces the chunk rows in a second one.                             *)
(*                                                                          *)
(* A transaction of write_chunks is modelled statement by statement, under  *)
(* READ COMMITTED: the DELETE sees the rows committed when it starts and    *)
(* waits for a row another open transaction has deleted; the INSERTs meet   *)
(* UNIQUE (doc_id, chunk_index) and wait for an open transaction whose      *)
(* outcome decides whether they conflict.                                   *)
EXTENDS Naturals, FiniteSets

CONSTANTS Runs,         \* ingestion runs, each one row of ingestion_runs
          Api,          \* the runs the API process serves; the others are CLI
          NumDocs,      \* the manifest has NumDocs entries
          Versions,     \* the contents a document's PDF may have over time
          NumChunks,    \* how many chunks the chunker cuts a version into
          Corrupt,      \* the versions the PDF libraries cannot open
          None,         \* no row, no file, no version, no entry
          MaxFaults,    \* bound: failed statements, lost answers, stage errors
          MaxCrashes,   \* bound: processes that die
          MaxReplaced   \* bound: times a PDF already on disk is replaced

ASSUME ConstantsAssumption ==
    /\ Api \subseteq Runs
    /\ NumDocs \in Nat \ {0}
    /\ NumChunks \in [Versions -> Nat]
    /\ Corrupt \subseteq Versions
    /\ None \notin Versions \cup Runs \cup Nat
    /\ MaxFaults \in Nat /\ MaxCrashes \in Nat /\ MaxReplaced \in Nat

\* Manifest entries are known by their position in the manifest.
Docs == 1 .. NumDocs

VARIABLES
    file,       \* file[d]: the version of data/pdfs/<doc_id>.pdf on disk
    documents,  \* documents[d]: the sha256 (a version) of the row of d
    chunks,     \* chunks[d]: the committed chunk rows of d
    runs,       \* runs[r]: the row of ingestion_runs
    pc,         \* pc[r]: where run r stands in ingest_manifest / ingest_one
    req,        \* req[r]: the entries the request selected
    todo,       \* todo[r]: the entries the loop has not finished with
    force,      \* force[r]: the request's force flag
    entry,      \* entry[r]: the entry being ingested
    read,       \* read[r]: the version the chunks in memory were cut from
    sha,        \* sha[r]: the version that was on disk when it was hashed
    del,        \* del[r]: the DELETE's snapshot, then the rows it deleted
    tally,      \* tally[r]: docs_done, total_chunks and errors
    result,     \* result[r]: the status the caller is given
    wrote,      \* history: what run r has committed to the chunks table
    torn,       \* history: the documents run r failed or died on in between
    faults, crashes, replaced  \* how much of each bound is used up

dbVars   == <<documents, chunks, runs>>
runVars  == <<pc, req, todo, force, entry, read, sha, del, tally, result, wrote, torn>>
diskVars == <<file, replaced>>
vars     == <<dbVars, runVars, diskVars, faults, crashes>>

Row == [ix : Nat, ver : Versions, by : Runs]
RowsOf(v, r) == [ix : 0 .. NumChunks[v] - 1, ver : {v}, by : {r}]

\* While one of these holds, run r has an open write_chunks transaction that
\* has deleted the rows del[r], resp. also inserted its own.
Locking == {"insert", "commit"}
\* Between the commit of upsert_document and the end of write_chunks.
Writing == {"delete", "deleting"} \cup Locking
Ended   == {"done", "gone", "dead"}
Active  == {"next", "load", "hash", "upsert"} \cup Writing

DbTypeOK ==
    /\ documents \in [Docs -> Versions \cup {None}]
    /\ chunks \in [Docs -> SUBSET Row]
    /\ runs \in [Runs -> [status : {"none", "running", "success", "failed"},
                          docs : Nat, chunks : Nat]]

LoopTypeOK ==
    /\ pc \in [Runs -> {"idle"} \cup Active \cup Ended]
    /\ req \in [Runs -> SUBSET Docs]
    /\ todo \in [Runs -> SUBSET Docs]
    /\ force \in [Runs -> BOOLEAN]
    /\ entry \in [Runs -> Docs \cup {None}]
    /\ read \in [Runs -> Versions \cup {None}]
    /\ sha \in [Runs -> Versions \cup {None}]
    /\ del \in [Runs -> SUBSET Row]

TallyTypeOK ==
    /\ tally \in [Runs -> [docs : Nat, chunks : Nat, errors : SUBSET Docs]]
    /\ result \in [Runs -> {"none", "success", "partial", "failed"}]
    /\ wrote \in [Runs -> SUBSET (Docs \X Versions)]
    /\ torn \in [Runs -> SUBSET Docs]

EnvTypeOK ==
    /\ file \in [Docs -> Versions \cup {None}]
    /\ faults \in Nat /\ crashes \in Nat /\ replaced \in Nat

TypeOK == DbTypeOK /\ LoopTypeOK /\ TallyTypeOK /\ EnvTypeOK

\* A row of ingestion_runs as INSERT leaves it; "none" is no row.
NewRow(status) == [status |-> status, docs |-> 0, chunks |-> 0]

Init ==
    /\ file \in [Docs -> Versions \cup {None}]
    /\ documents = [d \in Docs |-> None]
    /\ chunks = [d \in Docs |-> {}]
    /\ runs = [r \in Runs |-> NewRow("none")]
    /\ pc = [r \in Runs |-> "idle"]
    /\ req = [r \in Runs |-> {}]
    /\ todo = [r \in Runs |-> {}]
    /\ force = [r \in Runs |-> FALSE]
    /\ entry = [r \in Runs |-> None]
    /\ read = [r \in Runs |-> None]
    /\ sha = [r \in Runs |-> None]
    /\ del = [r \in Runs |-> {}]
    /\ tally = [r \in Runs |-> [docs |-> 0, chunks |-> 0, errors |-> {}]]
    /\ result = [r \in Runs |-> "none"]
    /\ wrote = [r \in Runs |-> {}]
    /\ torn = [r \in Runs |-> {}]
    /\ faults = 0 /\ crashes = 0 /\ replaced = 0

-----------------------------------------------------------------------------
(* The loop of ingest_manifest.                                             *)

\* filter_by_ids, warm and start_run: the entries are chosen, the model is
\* loaded and the row 'running' is committed.  Unknown doc_ids and a model
\* that does not load raise before anything is written.
StartRun(r, S, f) ==
    /\ pc[r] = "idle"
    /\ S # {}
    /\ pc' = [pc EXCEPT ![r] = "next"]
    /\ req' = [req EXCEPT ![r] = S]
    /\ todo' = [todo EXCEPT ![r] = S]
    /\ force' = [force EXCEPT ![r] = f]
    /\ runs' = [runs EXCEPT ![r] = NewRow("running")]
    /\ UNCHANGED <<documents, chunks, entry, read, sha, del, tally, result, wrote, torn,
                   diskVars, faults, crashes>>

\* The loop takes the entries in manifest order.
IsNext(r, d) == d \in todo[r] /\ \A e \in todo[r] : d <= e

\* The loop is done with entry d, whatever came of it.
Advance(r, d) ==
    /\ pc' = [pc EXCEPT ![r] = "next"]
    /\ todo' = [todo EXCEPT ![r] = @ \ {d}]
    /\ entry' = [entry EXCEPT ![r] = None]
    /\ read' = [read EXCEPT ![r] = None]
    /\ sha' = [sha EXCEPT ![r] = None]
    /\ del' = [del EXCEPT ![r] = {}]
    /\ UNCHANGED <<req, force, result>>

\* Mutant: the running total is overwritten.
MutOverwritesTotal(r, d, n) ==
    /\ Advance(r, d)
    /\ tally' = [tally EXCEPT ![r] =
                    [docs |-> @.docs + 1, chunks |-> n, errors |-> @.errors]]

\* ingest_one returned n: the document counts as processed.
CountDocument(r, d, n) ==
    /\ Advance(r, d)
    /\ tally' = [tally EXCEPT ![r] =
                    [docs |-> @.docs + 1, chunks |-> @.chunks + n, errors |-> @.errors]]

\* Mutant: the error is logged but not kept.
MutErrorSwallowed(r, d) == Advance(r, d) /\ UNCHANGED tally

\* "except Exception": the error is noted and the loop goes on.  An open
\* transaction is rolled back when its connection returns to the pool.
RecordError(r, d) ==
    /\ Advance(r, d)
    /\ tally' = [tally EXCEPT ![r] =
                    [docs |-> @.docs, chunks |-> @.chunks, errors |-> @.errors \cup {d}]]

SkipExisting(r) ==
    /\ pc[r] = "next"
    /\ \E d \in Docs :
        /\ IsNext(r, d)
        /\ ~force[r]
        /\ documents[d] # None
        /\ Advance(r, d)
    /\ UNCHANGED <<dbVars, tally, wrote, torn, diskVars, faults, crashes>>

BeginDocument(r) ==
    /\ pc[r] = "next"
    /\ \E d \in Docs :
        /\ IsNext(r, d)
        /\ force[r] \/ documents[d] = None
        /\ entry' = [entry EXCEPT ![r] = d]
    /\ pc' = [pc EXCEPT ![r] = "load"]
    /\ UNCHANGED <<dbVars, req, todo, force, read, sha, del, tally, result, wrote, torn,
                   diskVars, faults, crashes>>

\* The run's row and the caller's status: a run with errors is stored as
\* 'failed' even when the caller is told 'partial'.
Outcome(r) ==
    IF tally[r].errors = {} THEN "success"
    ELSE IF tally[r].docs > 0 THEN "partial" ELSE "failed"

FinishedRow(r) ==
    [status |-> IF Outcome(r) = "success" THEN "success" ELSE "failed",
     docs |-> tally[r].docs, chunks |-> tally[r].chunks]

FinishRun(r) ==
    /\ pc[r] = "next"
    /\ todo[r] = {}
    /\ runs' = [runs EXCEPT ![r] = FinishedRow(r)]
    /\ result' = [result EXCEPT ![r] = Outcome(r)]
    /\ pc' = [pc EXCEPT ![r] = "done"]
    /\ UNCHANGED <<documents, chunks, req, todo, force, entry, read, sha, del, tally,
                   wrote, torn, diskVars, faults, crashes>>

-----------------------------------------------------------------------------
(* ingest_one.  load_pdf .. sha256_file run on the event loop without an    *)
(* await, so no other run of the API process is between them; the PDFs      *)
(* themselves are written by other processes.                               *)

LoopFree(r) == r \in Api => \A q \in Api : pc[q] # "hash"

\* Mutant: "if not chunks" is missing.
MutNoTextIsWritten(v) == TRUE

\* The pages yield at least one chunk.
HasText(v) == NumChunks[v] > 0

\* path.exists, load_pdf, clean_pages, chunk_document, embed_texts.
LoadAndChunk(r) ==
    LET d == entry[r]  v == file[d] IN
    /\ pc[r] = "load"
    /\ LoopFree(r)
    /\ v # None /\ v \notin Corrupt
    /\ HasText(v)
    /\ read' = [read EXCEPT ![r] = v]
    /\ pc' = [pc EXCEPT ![r] = "hash"]
    /\ UNCHANGED <<dbVars, req, todo, force, entry, sha, del, tally, result, wrote, torn,
                   diskVars, faults, crashes>>

\* "if not chunks: return 0": nothing is written, the document counts.
LoadNoText(r) ==
    LET d == entry[r]  v == file[d] IN
    /\ pc[r] = "load"
    /\ LoopFree(r)
    /\ v # None /\ v \notin Corrupt
    /\ ~HasText(v)
    /\ CountDocument(r, d, 0)
    /\ UNCHANGED <<dbVars, wrote, torn, diskVars, faults, crashes>>

\* page_count and sha256_file open the file a second time.
HashFile(r) ==
    LET v == file[entry[r]] IN
    /\ pc[r] = "hash"
    /\ v \notin Corrupt
    /\ sha' = [sha EXCEPT ![r] = v]
    /\ pc' = [pc EXCEPT ![r] = "upsert"]
    /\ UNCHANGED <<dbVars, req, todo, force, entry, read, del, tally, result, wrote, torn,
                   diskVars, faults, crashes>>

\* No PDF on disk, or one that cannot be opened, at either reading.
BadFile(r) ==
    LET d == entry[r]  v == file[d] IN
    /\ \/ pc[r] = "load" /\ LoopFree(r) /\ v \in Corrupt \cup {None}
       \/ pc[r] = "hash" /\ v \in Corrupt
    /\ RecordError(r, d)
    /\ UNCHANGED <<dbVars, wrote, torn, diskVars, faults, crashes>>

\* INSERT ... ON CONFLICT DO UPDATE and its own commit.
UpsertDocument(r) ==
    /\ pc[r] = "upsert"
    /\ documents' = [documents EXCEPT ![entry[r]] = sha[r]]
    /\ pc' = [pc EXCEPT ![r] = "delete"]
    /\ UNCHANGED <<chunks, runs, req, todo, force, entry, read, sha, del, tally,
                   result, wrote, torn, diskVars, faults, crashes>>

-----------------------------------------------------------------------------
(* write_chunks: one transaction.                                           *)

SameDoc(r, q) == q # r /\ entry[q] = entry[r]

\* Mutant: the DELETE is committed on its own.
MutDeleteCommits(r) ==
    /\ pc[r] = "delete"
    /\ chunks' = [chunks EXCEPT ![entry[r]] = {}]
    /\ del' = [del EXCEPT ![r] = chunks[entry[r]]]
    /\ pc' = [pc EXCEPT ![r] = "deleting"]
    /\ UNCHANGED <<documents, runs, req, todo, force, entry, read, sha, tally, result,
                   wrote, torn, diskVars, faults, crashes>>

\* The DELETE takes its snapshot: the rows committed now.
BeginDelete(r) ==
    /\ pc[r] = "delete"
    /\ del' = [del EXCEPT ![r] = chunks[entry[r]]]
    /\ pc' = [pc EXCEPT ![r] = "deleting"]
    /\ UNCHANGED <<dbVars, req, todo, force, entry, read, sha, tally, result, wrote, torn,
                   diskVars, faults, crashes>>

\* Mutant: a shared lock on the document, taken at "delete", is upgraded.
MutLockUpgrade(r) == \A q \in Runs : SameDoc(r, q) => pc[q] \notin {"deleting"} \cup Locking

\* No row of the snapshot has been deleted by another open transaction.
SnapshotFree(r) ==
    \A q \in Runs : SameDoc(r, q) /\ pc[q] \in Locking => del[q] \cap del[r] = {}

\* The DELETE waits for the rows of its snapshot, and then deletes those that
\* still exist.
EndDelete(r) ==
    /\ pc[r] = "deleting"
    /\ SnapshotFree(r)
    /\ del' = [del EXCEPT ![r] = @ \cap chunks[entry[r]]]
    /\ pc' = [pc EXCEPT ![r] = "insert"]
    /\ UNCHANGED <<dbVars, req, todo, force, entry, read, sha, tally, result, wrote, torn,
                   diskVars, faults, crashes>>

\* Rows in the way of UNIQUE (doc_id, chunk_index).  Every version with text
\* has a chunk at index 0.
Conflicting(r) ==
    {row \in chunks[entry[r]] \ del[r] : row.ix < NumChunks[read[r]]}

\* An INSERT waits for an open transaction that has inserted rows of the same
\* document, or has deleted one it would conflict with.
MustWait(r) ==
    \E q \in Runs : /\ SameDoc(r, q)
                    /\ \/ pc[q] = "commit"
                       \/ pc[q] = "insert" /\ del[q] \cap Conflicting(r) # {}

\* Mutant: the table has no UNIQUE (doc_id, chunk_index).
MutNoUniqueKey(r) == documents[entry[r]] = None

\* The insert breaks UNIQUE (doc_id, chunk_index) or the foreign key.
InsertRejected(r) == Conflicting(r) # {} \/ documents[entry[r]] = None

InsertChunks(r) ==
    /\ pc[r] = "insert"
    /\ ~MustWait(r)
    /\ ~InsertRejected(r)
    /\ pc' = [pc EXCEPT ![r] = "commit"]
    /\ UNCHANGED <<dbVars, req, todo, force, entry, read, sha, del, tally, result,
                   wrote, torn, diskVars, faults, crashes>>

\* IntegrityError: the transaction, its DELETE included, is rolled back.
InsertFails(r) ==
    /\ pc[r] = "insert"
    /\ ~MustWait(r)
    /\ InsertRejected(r)
    /\ RecordError(r, entry[r])
    /\ UNCHANGED <<dbVars, wrote, torn, diskVars, faults, crashes>>

\* The transaction of write_chunks becomes visible.
CommitRows(r) ==
    LET d == entry[r] IN
    /\ chunks' = [chunks EXCEPT ![d] = (@ \ del[r]) \cup RowsOf(read[r], r)]
    /\ wrote' = [wrote EXCEPT ![r] = @ \cup {<<d, read[r]>>}]

CommitChunks(r) ==
    /\ pc[r] = "commit"
    /\ CommitRows(r)
    /\ CountDocument(r, entry[r], NumChunks[read[r]])
    /\ UNCHANGED <<documents, runs, torn, diskVars, faults, crashes>>

-----------------------------------------------------------------------------
(* What goes wrong.                                                         *)

UseFault == faults < MaxFaults /\ faults' = faults + 1

\* start_run raises: its row may have been committed before the answer was
\* lost.  The request ends with an error.
StartFails(r) ==
    /\ UseFault
    /\ pc[r] = "idle"
    /\ \E s \in {"none", "running"} : runs' = [runs EXCEPT ![r] = NewRow(s)]
    /\ pc' = [pc EXCEPT ![r] = "gone"]
    /\ UNCHANGED <<documents, chunks, req, todo, force, entry, read, sha, del, tally,
                   result, wrote, torn, diskVars, crashes>>

\* A statement, a connection, the PDF library or the embedder raises.
StepFails(r) ==
    /\ UseFault
    /\ \/ pc[r] = "next" /\ ~force[r]
          /\ \E d \in Docs : IsNext(r, d) /\ RecordError(r, d)
          /\ UNCHANGED torn
       \/ pc[r] \in {"load", "hash", "upsert"} /\ RecordError(r, entry[r])
          /\ UNCHANGED torn
       \/ pc[r] \in Writing /\ RecordError(r, entry[r])
          /\ torn' = [torn EXCEPT ![r] = @ \cup {entry[r]}]
    /\ UNCHANGED <<dbVars, wrote, diskVars, crashes>>

\* A commit takes effect but its answer never arrives.
AnswerLost(r) ==
    /\ UseFault
    /\ \/ /\ pc[r] = "upsert"
          /\ documents' = [documents EXCEPT ![entry[r]] = sha[r]]
          /\ torn' = [torn EXCEPT ![r] = @ \cup {entry[r]}]
          /\ UNCHANGED <<chunks, wrote>>
       \/ /\ pc[r] = "commit"
          /\ CommitRows(r)
          /\ UNCHANGED <<documents, torn>>
    /\ RecordError(r, entry[r])
    /\ UNCHANGED <<runs, diskVars, crashes>>

\* finish_run raises, before or after its commit: no result is returned.
FinishFails(r) ==
    /\ UseFault
    /\ pc[r] = "next"
    /\ todo[r] = {}
    /\ \E row \in {runs[r], FinishedRow(r)} : runs' = [runs EXCEPT ![r] = row]
    /\ pc' = [pc EXCEPT ![r] = "gone"]
    /\ UNCHANGED <<documents, chunks, req, todo, force, entry, read, sha, del, tally,
                   result, wrote, torn, diskVars, crashes>>

\* A process dies with all its active runs; Postgres rolls their open
\* transactions back.  The locals keep their last values as a record of what
\* the run was doing: nothing reads them any more.
Crash(P) ==
    /\ crashes < MaxCrashes /\ crashes' = crashes + 1
    /\ \E r \in P : pc[r] \in Active
    /\ pc' = [r \in Runs |-> IF r \in P /\ pc[r] \in Active THEN "dead" ELSE pc[r]]
    /\ del' = [r \in Runs |-> IF r \in P THEN {} ELSE del[r]]
    /\ torn' = [r \in Runs |-> IF r \in P /\ pc[r] \in Writing
                                THEN torn[r] \cup {entry[r]} ELSE torn[r]]
    /\ UNCHANGED <<dbVars, req, todo, force, entry, read, sha, tally, result, wrote,
                   diskVars, faults>>

Processes == {Api} \cup {{r} : r \in Runs \ Api}

-----------------------------------------------------------------------------
(* The PDFs.                                                                *)

\* download_corpus.py saves a missing PDF, with an atomic rename, and leaves
\* one that is present alone.
Download(d, v) ==
    /\ file[d] = None
    /\ file' = [file EXCEPT ![d] = v]
    /\ UNCHANGED <<dbVars, runVars, replaced, faults, crashes>>

\* An operator puts a newer PDF in place.
ReplacePdf(d, v) ==
    /\ replaced < MaxReplaced /\ replaced' = replaced + 1
    /\ file[d] \notin {None, v}
    /\ file' = [file EXCEPT ![d] = v]
    /\ UNCHANGED <<dbVars, runVars, faults, crashes>>

RunStep(r) ==
    \/ SkipExisting(r) \/ BeginDocument(r) \/ FinishRun(r)
    \/ LoadAndChunk(r) \/ LoadNoText(r) \/ HashFile(r) \/ BadFile(r)
    \/ UpsertDocument(r)
    \/ BeginDelete(r) \/ EndDelete(r)
    \/ InsertChunks(r) \/ InsertFails(r) \/ CommitChunks(r)

Fault(r) == StartFails(r) \/ StepFails(r) \/ AnswerLost(r) \/ FinishFails(r)

\* Every run has ended: the system may stop.
AllEnded == (\A r \in Runs : pc[r] \in Ended) /\ UNCHANGED vars

Next ==
    \/ \E r \in Runs, S \in SUBSET Docs, f \in BOOLEAN : StartRun(r, S, f)
    \/ \E r \in Runs : RunStep(r) \/ Fault(r)
    \/ \E P \in Processes : Crash(P)
    \/ \E d \in Docs, v \in Versions : Download(d, v) \/ ReplacePdf(d, v)
    \/ AllEnded

Spec == Init /\ [][Next]_vars

\* The event loop and the database go on serving a run that can take a step.
FairSpec == Spec /\ \A r \in Runs : WF_vars(RunStep(r))
-----------------------------------------------------------------------------
(* Properties.                                                              *)

\* The chunk rows of a document are at every moment one whole version by one
\* run, whatever runs overlap, fail or die: never a mix, never a prefix
\* (write_chunks, store.py:82-110, against the UNIQUE constraint).
ChunksWhole ==
    \A d \in Docs : \/ chunks[d] = {}
                    \/ \E v \in Versions, r \in Runs : chunks[d] = RowsOf(v, r)

\* A documents row with no chunk rows always has one cause: a run is between
\* its two transactions on that very document, or has failed or died there
\* (pipeline.py:76-87).  An error before the first commit, a skipped document,
\* an empty PDF, an insert rejected for another run's rows and a lost answer of
\* write_chunks never leave one.
EmptyDocumentExplained ==
    \A d \in Docs : documents[d] # None /\ chunks[d] = {} =>
        \E r \in Runs : (entry[r] = d /\ pc[r] \in Writing) \/ d \in torn[r]

\* A run that reports success has accounted for every entry of its request:
\* the entries without a row are no more than those it counted although they
\* had no text (pipeline.py:120-140).
SuccessAccountsForAll ==
    \A r \in Runs : result[r] = "success" =>
        /\ tally[r].errors = {}
        /\ Cardinality({d \in req[r] : documents[d] = None})
             <= tally[r].docs - Cardinality({w[1] : w \in wrote[r]})

\* The chunk rows that run r has committed, those replaced since included.
CommittedRows(r) == UNION {{w} \X (0 .. NumChunks[w[2]] - 1) : w \in wrote[r]}

\* chunks_written of a run's row is the number of rows the run has committed;
\* it is lower only when the run has recorded an error, for a commit whose
\* answer was lost (pipeline.py:132-146).
ChunkCountExact ==
    \A r \in Runs :
        LET committed == Cardinality(CommittedRows(r)) IN
        /\ runs[r].status = "success" => runs[r].chunks = committed
        /\ runs[r].status = "failed" => runs[r].chunks <= committed

\* The runs implement the store a reader of the chunks table relies on.
Store == INSTANCE CorpusStore WITH
    state <- [r \in Runs |-> IF pc[r] = "idle" THEN "new"
                             ELSE IF pc[r] \in Ended THEN "closed" ELSE "open"],
    pending <- [r \in Runs |-> IF pc[r] \in Ended THEN {} ELSE todo[r]]

\* Chunks are replaced as a whole, by an active run that was asked for the
\* document, once per run and document: see CorpusStore.
ImplementsStore == Store!StoreSpec

\* Every run that has started ends, if its process survives: two writers of
\* one document never wait for each other for ever (the locks of
\* store.py:82-110 across an API process and CLI processes).
EveryRunEnds == \A r \in Runs : pc[r] = "next" ~> pc[r] \in Ended

\* "All writes happen in a single transaction per document so a failure
\* mid-doc leaves the DB in a clean state" (store.py:3-4): when no run is
\* between its two writes of a document, the documents row and the chunk rows
\* are both there or both not.
CleanAfterFailure ==
    \A d \in Docs :
        (~\E r \in Runs : entry[r] = d /\ pc[r] \in Writing)
            => (documents[d] = None <=> chunks[d] = {})
=============================================================================
