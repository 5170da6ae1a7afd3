# A TLA+ verification project for regrag

regrag answers questions about Indian financial regulation from a corpus of
SEBI and RBI PDFs. It is a FastAPI service over Postgres/pgvector, fed by an
ingestion pipeline that also runs from the command line, with a web client and
an evaluation harness beside it. This directory models the parts of it whose
correctness depends on an order of events, checks the models with TLC and
proves what matters most with TLAPS.

All paths below are relative to the repository (`src/` stands for its root).

## 1. Inventory

### Components, their state and their operations

| Component | Code | State it keeps | Operations |
|---|---|---|---|
| Ingestion pipeline | `app/ingestion/pipeline.py`, `app/ingestion/store.py`, `app/services/ingest.py`, `scripts/ingest_cli.py` | rows of `documents`, `chunks`, `ingestion_runs`; per run: entries left, counters, errors | start a run, skip an ingested document, load/chunk/embed/hash one, upsert its row, replace its chunks, finish |
| Chunker | `app/ingestion/chunker.py` | the buffer being filled, the heading stack, the chunks emitted | add a line, flush, carry an overlap, fold the tail |
| Loader, cleaner, manifest | `app/ingestion/loader.py`, `cleaner.py`, `manifest.py` | none (pure functions of a file) | read pages with one of two extractors, drop repeated headers and page numbers, join hyphenated breaks, select entries |
| Embedder | `app/ingestion/embedder.py` | `_model` singleton under a lock | load lazily, check dimension, embed, report ready |
| BM25 index | `app/retrieval/bm25.py` | `_index` singleton under a lock | build from the database, install, invalidate, search |
| Vector search | `app/retrieval/vector.py` | none (reads the database) | nearest chunks in one statement |
| Fusion and rerank | `app/retrieval/hybrid.py`, `rerank.py`, `services/search.py` | none | reciprocal rank fusion, cross-encoder or Cohere scores, threshold, cut |
| Answering | `app/services/ask.py`, `app/llm/*` | per request: passages, prompt, LLM answer | retrieve, rerank, refuse, call the LLM with retries, parse, resolve citations |
| Process life cycle | `app/main.py`, `app/db.py`, `app/api/routes.py` | the connection pool, the probes | start, stop, `/health`, `/ready`, acquire a connection |
| Documents listing | `app/services/documents.py` | none | list documents, choose and cut a preview |
| Downloaders | `scripts/download_corpus.py`, `scripts/download_via_browser.mjs` | PDF files on disk | skip what is present, resolve, download, rename or write in place |
| Evaluation | `eval/run_eval.py`, `eval/judge.py`; its reader `web/lib/corpus-stats.ts` | permits, results of the items, report files | search, ask and judge each item, aggregate, write a report and a sidecar, show the latest |
| Web client | `web/` | query cache of the browser | call the API, show the answer |

### How they interact

- The API process is one event loop. Every `POST /ingest`, `/ask`, `/search`
  request is a coroutine on it; `load_pdf` .. `sha256_file` of an ingestion run
  there without an `await` and hold the loop.
- `scripts/ingest_cli.py` is another process that writes the same tables. It
  shares nothing with the API process but Postgres and `data/pdfs`.
- The two downloaders write `data/pdfs`, perhaps at once; ingestion reads each
  PDF twice, once for its text and once for its page count and hash.
- The BM25 index is a copy of the `chunks` table in the API process. Vector
  search reads the table itself. Fusion merges the two by `chunk_id`.
- Answering calls retrieval, then the LLM; the LLM's citations are looked up in
  the passages that were shown to it.
- The evaluation harness is a client of the API, which may be ingesting while it
  asks; it compares the citations of `/ask` with the passages of an earlier
  `/search`. Its runs are processes that nothing keeps apart; they share the
  directory of the reports. The about page reads the newest of the JSON sidecars.

### What is hard

- **Interleaving and atomicity**: two transactions per document, other runs and
  other processes between and inside them; the file that may change between
  its two readings; an index build that overlaps a commit or an invalidation; two
  downloaders that both found a file missing; a corpus that changes between the
  two calls of an evaluation; runs of the evaluation that finish in another order
  than they started, or write to one file.
- **Failure**: a statement that fails, a commit whose answer is lost, a process
  that dies with runs open; an LLM or a Cohere call that times out and is
  retried; an LLM answer that is not the JSON asked for.
- **Staleness**: the index is never rebuilt; a pool that could not be opened at
  start is never opened again; a model that failed its dimension check stays.
- **Boundaries**: an empty corpus, a PDF without text, chunk sizes at the
  target and below the minimum, an overlap longer than the last chunk; headers on
  few pages, percentiles of few items, a preview cut at its limits.

### What makes each component correct

| Component | Properties |
|---|---|
| Ingestion pipeline | the chunk rows of a document are one whole version by one run, whatever overlaps, fails or dies; a document without chunks has one cause, a run between its two transactions; status and counters of a run describe what was committed; two writers never block each other for ever |
| Chunker | no word is lost; overlaps are exact; sizes are bounded on both sides; page ranges and section labels fit the words |
| Embedder | one load per process, every call returns, a model of the wrong dimension is refused before anybody uses it |
| BM25 index | searches of one epoch agree; an index older than the table is explained and does not stay |
| Search, answering | a citation was shown to the model and ranked above what was dropped; confidence is backed by a citation; a model is called only for passages to show, a bounded number of times, and an answer without one says so; every request ends |
| Process life cycle | a process recovers from a database outage without a restart |
| Loader, cleaner | nothing is dropped but running headers and page numbers, and a document that could be read is not left empty for another reason |
| Fusion | a passage that both searches found is ahead of all others, nothing better is cut off |
| Documents listing | a preview is of the first prose, neither too short nor too long, cut between words |
| Evaluation | permits are given back once on every path; no item is lost or counted twice; a citation that is missing from the search has a cause; the page shows, of the runs that finished, the one that started last |
| Downloaders | an incomplete file under a final name has one known cause; complete PDFs stay; success means presence; reruns end with a complete corpus |

The hazards behind them are listed line by line in `PROJECT.json`.

## 2. The modules

| Module | Models | Extends / composes |
|---|---|---|
| `Ingestion` | the runs of `ingest_manifest`/`ingest_one` and the transactions of `store.py`, by several processes | implements `CorpusStore` |
| `CorpusStore` | what a reader of `chunks` is promised | abstract |
| `Retrieval` | the BM25 singleton and the gather of `hybrid_search`, while ingestion commits | `Commit` is `CommitChunks` of `Ingestion` seen from the API process |
| `Answering` | `/ask` and `/search` from retrieval to response | implements `AnswerContract` |
| `AnswerContract` | what a client of the API is promised | abstract |
| `Lifecycle` | start, pool, `/ready`, the embedding model and its lock | |
| `Chunker` | `chunk_document` | |
| `Evaluation` | runs of the evaluation harness beside an ingesting API, and the reader of their files | what `/ask` may cite is `CitedWasShown` of `Answering` |
| `CorpusFiles` | `data/pdfs` under both downloaders | the environment `Download`, `ReplacePdf` and the `bad` version of `Ingestion`, in detail |
| `Fusion`, `Extraction`, `Documents`, `Metrics` | pure functions: rank fusion; `load_pdf` and `clean_pages`; previews; the evaluation's figures | |
| `PureFunctions` | calls of these functions with any input of given sets, which are its parameters | extends the four |
| `*Proofs` | the theorems about the module of that name; `FunctionProofs` those about the four modules of functions and `PureFunctions` | extend it and TLAPS |
| `MCIngestion`, `MCChunker`, `MCEvaluation` | constants for TLC that a cfg cannot write | extend the module |
| `MCFunctions` | the sets of inputs, small ones | extends `PureFunctions` |

A definition `Mut...` before another one is a mutated form of it, with a bug
the code could plausibly have. No specification uses them; `PROJECT.json` says
which property each of them must break.

### Ingestion

`Ingestion.tla` is several runs of `ingest_manifest`, each a request to the API
process (`Api`) or a command-line process of its own. One action is one
database statement with an observable effect or one stretch without an `await`.

| Code | Model |
|---|---|
| rows of `documents`, `chunks`, `ingestion_runs` | `documents`, `chunks`, `runs` |
| locals of `ingest_manifest` (`docs_done`, `total_chunks`, `errors`) | `tally`, `todo`, `force` |
| `filter_by_ids`, `warm`, `start_run` | `StartRun`; `StartFails` |
| `document_exists` and `continue` | `SkipExisting`, `BeginDocument` |
| `load_pdf` .. `embed_texts` | `LoadAndChunk`, `LoadNoText`, `BadFile` |
| `page_count`, `sha256_file` | `HashFile`, `BadFile` |
| `upsert_document` and its commit | `UpsertDocument` |
| `write_chunks`: DELETE, INSERTs, commit | `BeginDelete`, `EndDelete`, `InsertChunks`/`InsertFails`, `CommitChunks` |
| `except Exception` of the loop | `RecordError`, reached from `StepFails`, `AnswerLost` and the failing steps |
| `finish_run`, the result | `FinishRun`, `FinishFails` |

Postgres is modelled as READ COMMITTED: a DELETE takes a snapshot when it
begins and waits for a row that another open transaction has deleted; an INSERT
meets `UNIQUE (doc_id, chunk_index)` and waits for a transaction whose outcome
decides. `LoopFree` says that API runs share one event loop, which
`load_pdf` .. `sha256_file` never give up. The PDFs change underneath:
`Download` never overwrites, `ReplacePdf` is an operator's action.
`wrote` and `torn` are history: what a run has committed, and the documents it
failed or died on in between the two commits. An error anywhere else on a
document is no cause of a row without chunks.

`CorpusStore` abstracts all of it to: chunks are replaced as a whole, by a run
that is open and was asked for the document, at most once per run and document.
The refinement maps the position of a run to new/open/closed and its `todo` to
the documents it may still replace.

### Retrieval

One action is what a coroutine does between two awaits. A corpus is a number,
the commits it reflects, so "older" is `<`.

| Code | Model |
|---|---|
| `_index` | `index` |
| `_get_index` finds an index / none | `IndexHit`, `IndexMiss` |
| `_build`: `_load_chunks`; what follows it, up to `with _lock: if _index is None`, and the scoring | `LoadChunks`; `Install` (there is no await in between) |
| `invalidate` | `Invalidate` |
| `vector_search` | `VectorSearch`, `VectorFails` |
| `embed_query` in the executor; `asyncio.gather`; fusion | `BeginSearch`, `EmbedFails`, `StartGather`, `Fuse`, `GatherFails`, `EndRequest` |
| end of the process | `Restart` |

`CallersInvalidate` is a constant: FALSE is the repository as it is (nobody calls
`invalidate()`), TRUE is the use its docstring asks for. `gather` does not cancel
the other search, so a failed request may still install an index.

### Answering

Requests share nothing that changes, so one at a time is modelled. Passages are
ids; scores are below, at and above the threshold; what the model says is prose,
JSON that is no object, an object with a null list, or an object with any
citations, confidence and warnings. The warnings of a model (`Remarks`) go into the
list that holds the service's own (`ask.py:192-200`) and may be the same words, so
nothing is claimed of the exact list of an answer that a model gave. What tells a
refusal and an outage apart from such an answer is `model_used`: `"none"`,
`"unavailable"`, or a model.

| Code | Model |
|---|---|
| `hybrid_search` returns nothing / something / raises | `FindNothing`, `FindPassages`, `RetrievalFails` |
| `rerank`: scores, threshold, sort, cut | `Rerank`, `Kept`, `BestOf`; `RerankFails`, `CohereErrs` |
| `_empty_context_response`, `get_llm_client` | `AfterRerank`, `Refusal` |
| `complete_json` with its retries | `LlmErrs`, `LlmRefuses`, `LlmAnswers` |
| `_resolve_citations`, `_coerce_confidence`, the downgrade | `Resolve`, `UnknownWarning`, `CoerceConfidence`, `FinalAnswer` |
| exception handlers of `main.py` and the route | `Raise` |

`AnswerContract` is the client's view: a request gets one response, which the
schemas allow and whose parts agree: confidence above low has a citation, and an
answer that no model gave has none and says why. It does not promise the reason of
every answer without citations: a model that cites nothing, with low confidence,
is passed on as it is.

### Lifecycle

| Code | Model |
|---|---|
| `lifespan`, `init_pool`, `close_pool` | `Start`, `InitPool`, `Stop` |
| `healthcheck`, `embedder_is_ready`, `ready` | `HealthCheck`, `EmbedderIsReady`, `Ready` |
| `_load_model`: lock, constructor, dimension | `Enter`, `Construct`/`ConstructFails`, `CheckDimension` |
| `embed_query` in the executor; `warm`, `embed_texts` on the loop | `Embed(t)` for a worker; for `Loop` |

While `Loop` is inside the embedder nothing else is served (`LoopFree`). `refused`
remembers that a dimension check has failed in this process: the code keeps such
a model in `_model`, and later calls use it.

### Chunker

The words of a document are numbered; the buffer is always the interval
`first..words`, so a chunk is an interval and, when the end of the document was
folded into it, the beginning of that tail. Which lines are headings is an
input; a section path is the number of headings read. `ReadLine` is one
iteration of the loop (`TextFits`, `TextFlushes`, `HeadingJoins`,
`HeadingFlushes`), the rest of the function is `EndEmpty`, `EndFlushes` and
`EndFolds`. `pageOf` and `headAt` are history for the properties.

### Evaluation

A run of the harness is a process. Nothing in `run_eval.py` keeps two of them
apart, so runs start, finish and die in any order. They meet in nothing but the
API, which they only read, and the directory of the reports; so the items of one
run, `Watched`, are followed one by one between two awaits, and of the others only
that `gather` returns at some moment. A corpus is a number, and `Found` says which
documents the API ranks for an item in it.

| Code | Model |
|---|---|
| `run_eval`, `_bound`: the semaphore, the stamp | `Begin`, `Acquire`, `Release` |
| `GET /search` with `max(top_k, max(RECALL_KS))`; `POST /ask` | `SearchReturns` at `SearchDepth`; `AskReturns` |
| the `except httpx.HTTPError` of `_evaluate_one` | `CallFails` |
| `judge_answer`: scores, zeros for an output it cannot parse, an exception | `JudgeReturns` |
| `gather`, `_aggregate` | `Gather`, `Aggregate`: the items each mean ranges over |
| `write_text` of the report and of the sidecar | `WriteReport`; `OpenSidecar` (the file is empty), `WritePart`, `WriteSidecar` |
| `loadLatestEvalRun` of the about page | `Latest`, `Shown` |
| the process dies; the API ingests; a second passes | `Crash`; `Ingest`; `Tick` |

The scores themselves are left out; `scores` says whether there are any. The
stamp has a resolution of a second, so two runs may share their file names, and
`write_text` of one may empty or overwrite what the other is writing: `writers`
keeps who had the file open together, and such a file may be whole or not. The
page takes the newest name. Hence `PageShowsNewestRun` speaks of the run that
started last, not of the one that finished last: a `--limit` run started during a
full one and done before it stays on the page when the full one finishes.

### CorpusFiles

`Py...` is `download_corpus.py`, `Br...` is `download_via_browser.mjs`; both may
run at once, over any entries, and be interrupted anywhere. What is under a final
name is a complete PDF of 60 KB, a page of that size that is none (`bigpage`), a
smaller body, or the first part of a PDF, above (`cut`) or below (`smallcut`)
60 KB.

| Code | Model |
|---|---|
| `out_path.exists()`, `--validate` | `PySkip`, `PyBegin`; `PyHead` |
| `_resolve_pdf_url` and the request | `PyFail`, or `PyReceive` into the `.tmp` file |
| `tmp.replace` | `PyReplace` (a file the browser has open loses its name: `linked`) |
| `fileSize(outPath) >= MIN_PDF_BYTES` | `BrSkip`, `BrBegin` |
| link, response or print, the checks of the body | `BrFail`, or `BrFetch`, which is where `writeFile` empties the file |
| the rest of `writeFile` | `BrFill`, `BrWrite`, `BrWriteFails` |
| exit status, interruption | `PyEnd`, `BrEnd`; `PyAbort`, `BrAbort` |

In `Ingestion` all this is `Download`, `ReplacePdf` and the version `bad`.

### Fusion, Extraction, Documents, Metrics

Pure functions, each translated as an operator beside what is expected of it.
`PureFunctions` calls each of them with any input of a set that is a constant,
and assumes of the inputs only what the callers see to (`InputsAssumption`); what
is proved of it holds for inputs of any number and length. TLC gets small sets.

- `Fusion`: scores are multiples of `1/Unit`, so that `1/(k + rank)` is a whole
  number. Two different sums that are equal as fractions may differ as floats;
  nothing is said about the order of such passages but that the code's sort is
  stable where they are equal.
- `Extraction`: a line is its words and whether it ends in a hyphen, with or
  without blanks behind it; a word is the pieces that joined breaks made it of.
  Ligatures, blanks and empty lines are layout and left out. An extractor yields
  pages or raises; what `load_pdf` makes of two of them goes through the cleaner,
  and `ReadableNotEmpty` says when a document that one of them can read still
  ends without text.
- `Documents`: a text is a sequence of characters, periods and single blanks, as
  `" ".join(text.split())` leaves it.
- `Metrics`: means stay sums, in multiples of `1/Whole`.

## 3. What the runs check

| Run | Question | Answer | Distinct states |
|---|---|---|---|
| `ingestion_accounts` | two runs over two documents, a fault, a crash, a replaced PDF: has a document without chunks a cause, do status and counters describe what was committed? | holds | 1 591 041 |
| `ingestion_store` | three writers of one document: are the rows whole, do they implement `CorpusStore`, does each end? | holds | 423 188 |
| `ingestion_clean` | does a failure leave the document clean (`store.py:3-4`)? | violated | |
| `retrieval` | two requests build and install while ingestion commits and invalidates: one index per epoch, staleness explained, searches answered? | holds | 145 034 |
| `retrieval_stale` | as the code is: does the index catch up with the table? | violated | |
| `answering` | any passages, scores, failures and model outputs, warnings of its own among them: citations, costs, refusals, the contract, an end? | holds | 147 752 |
| `answering_output` | does any model output end in an answer (`prompts.py:96-98`)? | violated | |
| `lifecycle` | two workers and the loop, failing loads, outages, restarts: one load, a wrong model refused before it is used, calls return, outages end? | holds | 2 444 |
| `chunker_sizes` | every document of up to 7 words on 3 pages, 54 sizes: nothing lost, exact overlaps, sizes, labels that fit | holds | 1 978 047 |
| `corpus_files` | both downloaders on two documents: is junk explained, do complete files stay, is success presence, does the repair end? | holds | 502 280 |
| `evaluation` | three items under two permits, failures, an ingestion, a second run that overlaps or not, deaths: permits, citations, aggregates, the page, an end? | holds | 1 652 723 |
| `functions` | fusion, extraction, cleaning, previews and figures on every small input | holds | 213 458 |

The type invariants of the modules are proved (section 4) and not checked again
here.

### Bounds

- **Ingestion**: a lock conflict needs rows, a writer that replaces them and
  another that meets it, hence three runs on one document; a run's accounts need
  a document that succeeds beside one that does not, hence two documents and two
  runs. `v1` has one chunk and the others two, so replacements shrink and grow;
  `scan` has none; `bad` cannot be opened. One fault and one crash suffice for
  each place where they can strike, as the two never have to meet to break what
  one of them leaves behind.
- **Retrieval**: the race needs a request that builds, another that installs and
  an invalidation between; a second commit distinguishes the index that was
  read before it from the one read after it.
- **Answering**: three passages with a `top_k` of two make a cut possible with
  and without ties, and below the threshold.
  A model may add the service's own two words for a refusal and an outage, and
  one that the service never says.
- **Lifecycle** has no counter that needs a bound.
- **Chunker**: targets 1 to 4, overlaps 0 to 2 and minima 0 to 5 put the minimum
  on both sides of overlap and target; seven words in lines of one to three make
  up to seven chunks, with the fold of a tail onto a chunk that has a
  predecessor. The sizes are those of the configuration (500, 50, 80) only in
  their order; that sizes are measured in words is the code's own choice
  (`_tokenise`).
- **CorpusFiles**: two documents, since each loop holds one at a time and a race
  on one must not hide what happens to the other; any number of runs and answers,
  one interruption of the browser (those of the other program are not bounded).
- **Evaluation**: three items under two permits make one wait; one item that has
  a gold document, one that finds something only after the ingestion and one to
  refuse; two corpora; two runs in two seconds overlap or not, share a name or
  not, and finish in the order they started or the other. `/ask`
  may cite a passage deeper than recall looks, so the depth of `/search` matters.
- **functions**: fusion of every two lists of up to three of four passages
  (`K = 2`: a passage on both last places still beats one on a first, as with 60
  and 50); two extractors that raise or read three or four pages, each blank, a
  page number, a header or text, with which loading and cleaning can empty a
  document in each of the ways there are; three to five pages of nine shapes
  around two headers, where a half, two fifths and the floor of two differ; pages of up to four lines of ten kinds;
  texts of up to nine characters against a limit of six and a minimum of two; up
  to four chunks; up to three gold documents and four passages; up to 200 items.

### Fairness

- `RunStep` (weak): the event loop and the database go on serving a run that can
  take a step. A crashed process is not required to do anything: a run that dies
  has ended.
- `RequestStep`, `BeginSearch` (weak): the event loop schedules ready coroutines,
  and clients go on searching. `Invalidate` (weak): who was told to call it does,
  in runs with `CallersInvalidate`.
- `Serve` (weak): every awaited call of `/ask` and `/search` returns or raises;
  the clients, the pool and Cohere all have timeouts.
- `Enter` (strong), `ThreadStep` (weak): a thread waiting for a lock that is
  released again and again gets it. `Ready` (strong): the probe is polled, and
  answered when the loop is free. `Start`, `InitPool` (weak): the container is
  restarted, and `init_pool` returns or raises within `db_timeout_seconds`.
- `Write`, `ItemStep` of the evaluation (weak): its event loop serves what is
  ready, and its calls return or raise, with timeouts of 120 and 180 seconds.
- The browser downloader: `BrStart(Docs)` (strong), as an operator runs it for the
  whole manifest until it is done, as `README.md:243-250` says; its steps (weak);
  `BrFetch` and `BrWrite` (strong): a site that is asked again and again serves
  the document at last. `EndsComplete` is a claim about this repair; nothing is
  assumed of `download_corpus.py`, which may undo or race with it.

No fairness is assumed of faults, crashes, interruptions, outages, commits,
ingestions or downloads. Deadlock is checked everywhere but in `evaluation` and
`functions`, which end when their bounded work is done.

## 4. What is proved

All theorems are proved by TLAPS for every value of the constants that satisfies
the named assumptions of the modules (`ConstantsAssumption`; `NoneAssumption` in
`Answering`; `SizesAssumption` and `BoundsAssumption` in `Chunker`;
`FusionAssumption`, `PiecesAssumption`, `PreviewAssumption` and `MetricsAssumption`
of the functions, `InputsAssumption` of their calls); TLC evaluates these in every
run. Those about a state machine have the form
`Spec => []P` or `Spec => [][A]_v`, from an inductive invariant.

| Theorems | Inductive invariant, and why it is needed |
|---|---|
| `IngestionProofs`: `TypeCorrect`, `ChunksAlwaysWhole`, `RunsImplementStore`, `EmptyDocumentsHaveCause`, `SuccessAlwaysAccounts`, `ChunkCountAlwaysExact` | Rows are whole because a DELETE saw all of the rows that are committed now or none of them (`DeletesWhole`), a transaction past the UNIQUE key replaces all (`CommitReplacesAll`), and no two are past it (`OneInserter`). `LocalsOK` ties a run's locals to its position, `WrittenWhole` the rows to a run that has finished with the document. For the cause of an empty document, what every step does (`Explains`): it keeps every cause but of a document it leaves with chunks, and a row it writes has its writer as a cause; a run that leaves the place between its two commits without chunks written has the document in `torn`. For the report, the account of a run without errors (`AccountOf`): the documents it has counted are those it wrote and a set N of documents without text, and whatever else it has passed has a row. For `chunks_written`, a ledger (`LedgerOf`): what a run has written is no longer in its `todo`, so the rows of a commit are new, and its total is the number of rows it committed, or less once an error is recorded. |
| `RetrievalProofs`: `TypeCorrect`, `OneIndex`, `StaleIndexExplained` | Searches of an epoch agree because all used the index installed now (`UsedIsInstalled`); staleness is explained because no index outlives an invalidation (`KeptInEpoch`). |
| `AnsweringProofs`: `TypeCorrect`, `CitationsWereShown`, `RefusalsAreFree`, `AskImplementsContract` | What is known at each stage (`StageOK`), that shown passages are the best (`ShownBest`), that answers cite them (`AnswersCiteShown`); and of the end of a request, that whatever the model adds to the warnings the parts of the response agree (`FinalAnswerLegal`). |
| `LifecycleProofs`: `TypeCorrect`, `ModelLoadedOnce`, `WrongModelRefused` | Whoever loads holds the lock (`LoaderHoldsLock`), and loads only while there is no model (`LoadsOfModel`); a model that has not been checked is behind the lock (`UncheckedIsLocked`). |
| `ChunkerProofs`: `TypeCorrect`, `EveryWordKept`, `OverlapAlwaysExact`; `SizesAlwaysBounded`, `NoChunkIsTiny`, `EveryChunkIsNew`; `LabelsAlwaysFit` | The buffer begins with the overlap of the last chunk (`BufferCarries`), never behind the next word (`BufferJoins`), so a word before it is in a chunk (`Kept`); no chunk has a tail until the end (`NoTailYet`). On top of that, the sizes (`SInv`): the waiting buffer is bounded (`BufferBounded`), so what is flushed is, and a buffer that has reached the minimum is longer than the overlap; and the labels (`LInv`): words the buffer has and no chunk has are on pages from `page_start` to the current one, which is `page_end`, and `page_start` never lies before that of the last chunk (`BufferPages`). |
| `EvaluationProofs`: `EvaluationTypes`, `PermitsKept`, `MissedCitationsAreNew`, `ReportAccounts`, `NewestRunIsShown` | What an item has retrieved is what its corpus ranks (`Provenance`), and what it was asked comes later; a run that has not started has touched nothing (`Fresh`); an item that is done has an outcome that fits its scores (`Settled`); a file is of runs with its stamp, and names all who had it open together (`FilesBelong`); a whole one is of the last run of its second to finish (`WholeIsFinished`); and there is a newest (`HasLatest`). |
| `CorpusFilesProofs`: `CorpusFilesTypes`, `OnlyTheBrowserLeavesJunk`, `SuccessIsPresence`, `OnlyRacesDamage` | What the browser is writing now (`Writing`); two programs on one document have found it missing at a time (`Races`); what a run has finished with is present (`Progress`). |
| `FunctionProofs`: `FusionAlwaysInOrder`, `ReadableNeverEmpty`, `TextAlwaysKept`, `MajorityHeaderAlwaysGone`, `NumbersAlwaysKept`, `PreviewAlwaysReadable`, `FiguresAlwaysConsistent` | That a function is called with what the sets of inputs hold (`CallsRight`), and these with what `InputsAssumption` says, whose members have any length. The substance is in the theorems on the functions, which are below. |

`RunsImplementStore` and `AskImplementsContract` are refinements: initial states
map to initial states, and every step to a step of the abstract module or to a
stutter.

### The functions, for inputs of any length

| Theorem | What it says | Argument |
|---|---|---|
| `HybridIsAlwaysBest` | the fused list has no passage twice, each with the score of the formula, and nothing better is behind it or cut off | the entries after each hit of the loop (`Tallied`); a place of `SortedByScore` is the number of entries that come first in a strict total order, so that all places are different |
| `BothAlwaysAhead`, from `BothScoreMore` | what both searches found is ahead of what one found, if `MaxRank < K + 2` | arithmetic of the reciprocal ranks: two last places beat one first |
| `DominatedAlwaysBehind`, from `DominatedScoresLess` | what neither list has ahead of another passage is behind it | a better rank has a larger share |
| `ReadableAlwaysSurvives` | a document that one extractor can read comes out of loading and cleaning without text only if pdfplumber reads nothing but page numbers, or if all its text is a running header | a page with text has a line that is not blank (`TextIsWritten`), so an extractor that reads text is kept unless the other finds some line; and `TextAlwaysSurvives` |
| `DroppedLineIsCommon`, `MajorityHeaderAlwaysDropped` | a page loses at most one line, which heads two fifths of the pages; and one it must lose if it heads most, once | `ThresholdBounds`; the other lines that are counted head too few pages |
| `TextAlwaysSurvives` | apart from that line, the words of every page stay, in order | words stay in each turn of the loops over lines (`JoinStep`), as a footer has none and `Glue` joins the words of two lines |
| `NumbersAlwaysExplained` | which page numbers stay, and which other numbers go | each line of the result is a span of lines of the page (`Spans`, `Covers`), and a footer that was joined was two lone numbers |
| `PreviewAlwaysFits`, `PreviewAlwaysShown` | the bounds and the cut of a preview; which documents have one, of which chunk | the last of a set of places (`LastOf`); the first three long chunks by their row numbers |
| `RecallAlwaysBoundsMrr` | reciprocal rank lies between recall at 1 and recall | each gold document adds a whole at rank 1, something less below it and nothing if it was not retrieved; and only one can be at rank 1 |
| `PercentilesAlwaysOrdered` | p95 is below the median for two items only | arithmetic of the two indices |

`FusionAlwaysInOrder` assumes `MaxRank < K + 2`; the configuration has 50 and 60
(`config.py:66-68`). `NumbersAlwaysExplained` assumes a page as it is extracted:
a word is one piece, no break has joined any yet (`SinglePieces`), and pieces are
told apart by where they stand, so that none is on two lines (`NothingTwice`).
The others assume the types of their inputs, and gold documents that differ.

Induction over data is induction on a number here. The step is stated for a set of
numbers that are as claimed (`UpTo`, `LeastExists`), never for a predicate. What
a recursive function or a fold of the community modules computes is brought in
the same way: a function that meets the equation exists (`RecursionExists`,
`FoldExists`), and the results of all turns of a loop are the values of one function
(`KeepRun` of `Keep`, `FlatRun` of `FlattenSeq`, `TextRun` of `TextOf`, `JoinRun`
of `JoinHyphens`).

### Only model-checked

Liveness, which depends on fairness and is out of the prover's reach:
`EveryRunEnds`, `SearchAnswered`, `EveryRequestAnswered`, `EmbedReturns`,
`RecoversFromOutage`, `EndsComplete`, `RunEnds`, and the violated
`IndexCatchesUp`. Every safety property of a passing run is proved.

## 5. Where the code and its documentation disagree

Shown by a run with a counterexample:

1. **A failure leaves a document without chunks, for good** (`ingestion_clean`).
   `upsert_document` commits on its own before `write_chunks` begins
   (`app/ingestion/pipeline.py:86-87`), so a failure in between leaves a row that
   `document_exists` makes every later run skip; `store.py:3-4` promises one
   transaction per document.
2. **The keyword index is never refreshed** (`retrieval_stale`). Nothing calls
   `invalidate()`, though `bm25.py:151` says the ingest endpoint does.
3. **Some model outputs are a 500** (`answering_output`). JSON that is an array,
   or an object with a null list, raises outside the `try` (`ask.py:188-189`).

Met while modelling, without a run of their own:

- A model of the wrong dimension raises, but `_model` is assigned before the "sanity
  check" (`embedder.py:39-46`), so the next call uses it.
  `RefusedBeforeUse` states what holds: a check has failed before.
- `chunker.py:19-20` calls page ranges precise for citations; the overlap is given
  the page of its last word (`chunker.py:197`). `LabelsFit` states what holds: the
  words a chunk adds are in its range.
- `README.md:246` says the downloader refuses to save challenge pages; it looks for
  one only on a page it searches for a link, and streams the body of a direct
  `.pdf` URL as it is (`download_corpus.py:125-136`), where it counts as present
  for ever. The browser downloader replaces it if it is below 60 KB, keeps it if
  it is not, and never accepts a PDF that is really smaller.
- `download_via_browser.mjs` writes in place (line 144): an interruption above
  60 KB leaves a file both programs take for complete (`JunkExplained`,
  `EndsComplete` allow for `cut`). An unknown `--doc` is dropped and the run succeeds.
- `loader.py:6-7` describes a fallback per page; it is taken for the file, and only
  if pdfplumber read nothing on any page (`loader.py:76-84`).
- `cleaner.py:53` says a header is on more than half of the pages; two of five are
  enough (line 77), and a line that equals it is dropped wherever it stands on a
  page (line 89).
- The clean-up is called safe (`cleaner.py:10`), but a line `2012-` above a line
  `13` becomes `201213`, a page number to be dropped; a page number below a broken
  word is glued to it (`NumbersKept`).
- A chunk that both searches found has the text of the keyword index, which may be
  the older one (`hybrid.py:49-54`).
- `eval`: citations count as in the retrieval when the model was down, as there are
  none; `--concurrency 0` waits for ever; p95 is below p50 for two items
  (`run_eval.py:266`); an item with two gold documents never has a reciprocal rank
  of one; a score of NaN is taken for 1.0 (`judge.py:69`); a sidecar that was cut
  off hides the older ones from the page (`PageShowsNewestRun`). Of runs that
  overlap, the page shows the one that started last, though another may have
  finished after it (`corpus-stats.ts:84-121`), and of two of one second the files
  of one overwrite those of the other.
- An answer of a model without citations is downgraded with a warning only if the
  model was confident (`ask.py:196-200`); with low confidence it has none, so that
  a client cannot tell from the warnings why nothing is cited.
- The warnings of a model share the list with the service's (`ask.py:192-200`): it
  may say `no_relevant_context` of an answer that is no refusal.
- A build that began before `invalidate()` and ends after it installs the old
  index again (`bm25.py:104-109`): the second cause in `StaleOnlyByRace`.
- `init_pool` is not tried again after a failed start (`main.py:45-46`), which is
  why `RecoversFromOutage` speaks of processes that had their database.
- `/ready` reports the embedder but never loads it (`routes.py:48`), and
  ingestion on the event loop holds up `/health` as well (`routes.py:42`).
- `chunker.py:11-13` calls headings hard boundaries; after a short buffer they are
  not (`chunker.py:211`). A folded tail repeats the overlap
  (`chunker.py:230-240`).
- `store.py:5` names `ON CONFLICT DO UPDATE` for chunk ids; the code is a DELETE
  and a plain INSERT (`store.py:86-91`). With concurrent writers one of them is
  rejected (`InsertFails`).

## 6. What is not modelled, and what is left to do

Not modelled:

- the web client but for the reader of the evaluation's files: its forms are
  disabled while a request is pending, requests are not retried, and pages share
  nothing but a list of documents that is cached for five minutes and from which
  nothing is derived;
- the screenshots tools and static data, which are no part of the system;
- logging, the parsing of the configuration and the bearer token, which keep no
  state that an order of events could break; the schemas are there as far as
  `AnswerContract` speaks of them;
- numbers and texts: embeddings, tokenisation, distances, BM25, rerank and judge
  scores are there only as far as an order or a threshold tells them apart; the
  SQL of the searches is what it reads; prompts are left out; of the cleaner what
  is layout;
- `delete_document`, `maybe_warm` and `is_warm`, which nothing calls;
- two instances of one downloader at once: they are run by hand, one of each;
- a restart of the API during an evaluation, whose new index differs from the old
  one: to the harness it is one more change of what `/search` and `/ask` retrieve
  from, which is what `Ingest` of `Evaluation` stands for;
- the pool of eight connections: no coroutine holds one while it waits for another,
  and a wait that times out is a failing statement of the models;
- that the event loop serves nothing during the synchronous part of an ingestion:
  the models have the loop held (`LoopFree`), and more is not to be said of it.

Left to do:

- the composition of `Ingestion` and `Retrieval`: the number of a corpus in
  `Retrieval` refined to the rows of `chunks`, which `Commit` abstracts now.

## 7. How to run it

    tlc -config IngestionAccounts.cfg MCIngestion
    tlc -config Functions.cfg MCFunctions
    tlapm EvaluationProofs.tla

The module of each cfg is in `PROJECT.json`; the passing runs take from a second
to two and a half minutes with two workers. A run that is meant to find a
counterexample stops at it.
