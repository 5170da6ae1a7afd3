---------------------------- MODULE Evaluation -----------------------------
(* The evaluation harness, src/eval/run_eval.py with judge.py, and the      *)
(* reader of its reports, src/web/lib/corpus-stats.ts.                      *)
(*                                                                          *)
(* A run evaluates its items under a semaphore: GET /search, POST /ask, the *)
(* judge, one after the other for an item and interleaved between items.    *)
(* Then it aggregates the results and writes a report and a JSON sidecar.   *)
(* The API goes on ingesting meanwhile.                                     *)
(*                                                                          *)
(* Runs are processes, nothing keeps them apart: they may overlap, start    *)
(* within the same second and die at any point.  They share the API and the *)
(* directory of the reports, and nothing else, so the items are followed in *)
(* one of them, and for the others gather returns at some moment.           *)
EXTENDS Integers, Sequences, FiniteSets

CONSTANTS Runs,         \* runs of the harness, a process each
          Watched,      \* the run whose items are followed
          None,         \* no run
          NumItems,     \* items of eval_set.json
          Limit,        \* --limit: 0 is none, a negative one cuts at the end
          Concurrency,  \* --concurrency
          TopK,         \* --top-k
          RecallDepth,  \* the largest of RECALL_KS
          UseJudge,     \* no --no-judge
          Answerable,   \* the items whose expected is "answer"
          Gold,         \* Gold[i]: the gold_doc_ids of item i
          Docs,         \* documents
          Found,        \* Found[c][i]: the documents of the passages that the
                        \* API ranks for item i when its corpus is c
          MaxCorpus,    \* bound: the corpora are 1 .. MaxCorpus
          MaxClock      \* bound: seconds that are told apart

Items   == 1 .. NumItems
Corpora == 1 .. MaxCorpus
Stamps  == 1 .. MaxClock

ASSUME ConstantsAssumption ==
    /\ NumItems \in Nat /\ Limit \in Int /\ Concurrency \in Nat
    /\ TopK \in Nat \ {0} /\ RecallDepth \in Nat \ {0}
    /\ UseJudge \in BOOLEAN
    /\ Answerable \subseteq Items
    /\ Gold \in [Items -> SUBSET Docs]
    /\ Watched \in Runs /\ None \notin Runs
    /\ MaxCorpus \in Nat \ {0} /\ MaxClock \in Nat \ {0}
    /\ Found \in [Corpora -> [Items -> Seq(Docs)]]

VARIABLES
    corpus,     \* what the API retrieves from; an ingestion moves it on
    clock,      \* the second it is
    stage,      \* stage[r]: where run r is
    started,    \* started[r]: its stamp
    permits,    \* the value of the semaphore
    pc,         \* pc[i]: where _evaluate_one is with item i
    retrieved,  \* retrieved[i]: the documents of the passages of /search
    seen,       \* history: the corpus item i was searched in
    cited,      \* cited[i]: the documents of the citations of /ask
    asked,      \* history: the corpus item i was asked in
    outcome,    \* outcome[i]: "none", "ok", or "error" with its text
    scores,     \* scores[i]: the judge's three scores, or None for each
    summary,    \* the items each aggregate ranges over
    reports,    \* the stamps s of which there is a run_<s>.md
    sidecar,    \* sidecar[s]: whose text run_<s>.json has, whether it is whole,
                \* and the runs that may have written to it
    finished    \* history: the runs that came to their end, in that order

itemVars == <<pc, retrieved, seen, cited, asked, outcome, scores>>
fileVars == <<reports, sidecar, finished>>
runVars  == <<stage, started>>
vars == <<corpus, clock, runVars, permits, itemVars, summary, fileVars>>

\* items[:limit], if there is a limit.
Selected == IF Limit > 0 THEN {i \in Items : i <= Limit}
            ELSE {i \in Items : i <= NumItems + Limit}

\* The positions at which an item holds a permit.
Holding == {"search", "ask", "judge"}
InFlight == {i \in Items : pc[i] \in Holding}

NoSummary == [errors |-> {}, recall |-> {}, citation |-> {}, judged |-> {}]
NoSidecar == [by |-> None, whole |-> "no", writers |-> {}]

\* The stages of a run: not started, under way, ended, and dead, with a sidecar
\* that it had opened or without.
UnderWay == {"items", "gathered", "md", "json"}
Over     == {"done", "dead", "cut"}
Opened   == {r \in Runs : stage[r] \in {"json", "done", "cut"}}

ItemTypeOK ==
    /\ pc \in [Items -> {"unused", "waiting", "done"} \cup Holding]
    /\ retrieved \in [Items -> Seq(Docs)]
    /\ seen \in [Items -> Nat] /\ asked \in [Items -> Nat]
    /\ cited \in [Items -> SUBSET Docs]
    /\ outcome \in [Items -> {"none", "ok", "error"}]
    /\ scores \in [Items -> {"none", "given"}]

TypeOK ==
    /\ corpus \in Corpora /\ clock \in Stamps /\ permits \in Nat
    /\ stage \in [Runs -> {"new"} \cup UnderWay \cup Over]
    /\ started \in [Runs -> Stamps]
    /\ ItemTypeOK
    /\ summary \in [errors : SUBSET Items, recall : SUBSET Items,
                    citation : SUBSET Items, judged : SUBSET Items]
    /\ reports \subseteq Stamps
    /\ sidecar \in [Stamps -> [by : Runs \cup {None}, whole : {"yes", "no"},
                              writers : SUBSET Runs]]
    /\ finished \in Seq(Runs)

Init ==
    /\ corpus = 1 /\ clock = 1
    /\ stage = [r \in Runs |-> "new"] /\ started = [r \in Runs |-> 1]
    /\ permits = Concurrency
    /\ pc = [i \in Items |-> "unused"]
    /\ retrieved = [i \in Items |-> <<>>] /\ cited = [i \in Items |-> {}]
    /\ seen = [i \in Items |-> 0] /\ asked = [i \in Items |-> 0]
    /\ outcome = [i \in Items |-> "none"] /\ scores = [i \in Items |-> "none"]
    /\ summary = NoSummary
    /\ reports = {}
    /\ sidecar = [s \in Stamps |-> NoSidecar]
    /\ finished = <<>>

-----------------------------------------------------------------------------
(* The surroundings.                                                        *)

\* What the API retrieves from changes: an ingestion, or a restart after one,
\* which builds its keyword index anew.
Ingest ==
    /\ corpus < MaxCorpus
    /\ corpus' = corpus + 1
    /\ UNCHANGED <<clock, runVars, permits, itemVars, summary, fileVars>>

Tick ==
    /\ clock < MaxClock
    /\ clock' = clock + 1
    /\ UNCHANGED <<corpus, runVars, permits, itemVars, summary, fileVars>>

-----------------------------------------------------------------------------
(* run_eval and _bound.                                                     *)

\* A run starts, whatever the others are doing.
Begin(r) ==
    /\ stage[r] = "new"
    /\ stage' = [stage EXCEPT ![r] = "items"]
    /\ started' = [started EXCEPT ![r] = clock]
    /\ IF r = Watched
       THEN pc' = [i \in Items |-> IF i \in Selected THEN "waiting" ELSE "unused"]
       ELSE UNCHANGED pc
    /\ UNCHANGED <<corpus, clock, permits, retrieved, seen, cited, asked, outcome,
                   scores, summary, fileVars>>

\* "async with sem": the items are served in the order gather created them.
Acquire(i) ==
    /\ stage[Watched] = "items" /\ pc[i] = "waiting"
    /\ \A j \in Items : pc[j] = "waiting" => i <= j
    /\ permits > 0
    /\ permits' = permits - 1
    /\ pc' = [pc EXCEPT ![i] = "search"]
    /\ UNCHANGED <<corpus, clock, runVars, retrieved, seen, cited, asked, outcome,
                   scores, summary, fileVars>>

\* The end of "async with sem", by whatever path.
Release(i) ==
    /\ pc' = [pc EXCEPT ![i] = "done"]
    /\ permits' = permits + 1

-----------------------------------------------------------------------------
(* _evaluate_one.                                                           *)

\* The passages that a request with this top_k gets.
Ranked(i, top) ==
    SubSeq(Found[corpus][i], 1, IF top < Len(Found[corpus][i]) THEN top
                                ELSE Len(Found[corpus][i]))

\* Mutant: only as deep as recall needs.
MutSearchDepth == RecallDepth

\* top_k=max(top_k, max(RECALL_KS)).
SearchDepth == IF TopK < RecallDepth THEN RecallDepth ELSE TopK

SearchReturns(i) ==
    /\ pc[i] = "search"
    /\ retrieved' = [retrieved EXCEPT ![i] = Ranked(i, SearchDepth)]
    /\ seen' = [seen EXCEPT ![i] = corpus]
    /\ pc' = [pc EXCEPT ![i] = "ask"]
    /\ UNCHANGED <<corpus, clock, runVars, permits, cited, asked, outcome, scores,
                   summary, fileVars>>

\* The documents of a sequence of passages.
DocsOf(passages) == {passages[k] : k \in DOMAIN passages}

\* /ask cites passages it has shown (CitedWasShown of Answering), or nothing:
\* a refusal, and also llm_unavailable, which is an answer and not an error.
AskReturns(i) ==
    /\ pc[i] = "ask"
    /\ \E S \in SUBSET DocsOf(Ranked(i, TopK)) : cited' = [cited EXCEPT ![i] = S]
    /\ asked' = [asked EXCEPT ![i] = corpus]
    /\ outcome' = [outcome EXCEPT ![i] = "ok"]
    /\ \/ UseJudge /\ pc' = [pc EXCEPT ![i] = "judge"] /\ UNCHANGED permits
       \/ ~UseJudge /\ Release(i)
    /\ UNCHANGED <<corpus, clock, runVars, retrieved, seen, scores, summary, fileVars>>

\* Mutant: the handler releases the permit that "async with" releases again.
MutCallFails(i) ==
    /\ pc[i] \in {"search", "ask"}
    /\ outcome' = [outcome EXCEPT ![i] = "error"]
    /\ retrieved' = [retrieved EXCEPT ![i] = <<>>]
    /\ pc' = [pc EXCEPT ![i] = "done"]
    /\ permits' = permits + 2
    /\ UNCHANGED <<corpus, clock, runVars, seen, cited, asked, scores, summary, fileVars>>

\* Mutant: an item that fails is queued again.
MutCallRetries(i) ==
    /\ pc[i] \in {"search", "ask"}
    /\ outcome' = [outcome EXCEPT ![i] = "error"]
    /\ retrieved' = [retrieved EXCEPT ![i] = <<>>]
    /\ pc' = [pc EXCEPT ![i] = "waiting"]
    /\ permits' = permits + 1
    /\ UNCHANGED <<corpus, clock, runVars, seen, cited, asked, scores, summary, fileVars>>

\* A status that is no success, or a timeout of either call.
CallFails(i) ==
    /\ pc[i] \in {"search", "ask"}
    /\ outcome' = [outcome EXCEPT ![i] = "error"]
    /\ retrieved' = [retrieved EXCEPT ![i] = <<>>]
    /\ Release(i)
    /\ UNCHANGED <<corpus, clock, runVars, seen, cited, asked, scores, summary, fileVars>>

\* judge_answer gives scores, 0 for an output it cannot parse, or raises: the
\* model fails, or its output is JSON that is no object.
JudgeReturns(i) ==
    /\ pc[i] = "judge"
    /\ \E v \in {"given", "none"} : scores' = [scores EXCEPT ![i] = v]
    /\ Release(i)
    /\ UNCHANGED <<corpus, clock, runVars, retrieved, seen, cited, asked, outcome,
                   summary, fileVars>>

ItemStep(i) ==
    Acquire(i) \/ SearchReturns(i) \/ AskReturns(i) \/ CallFails(i) \/ JudgeReturns(i)

-----------------------------------------------------------------------------
(* The results.                                                             *)

Errors == {i \in Selected : outcome[i] = "error"}

\* Mutant: the zeros of a failed item count as zeros.
MutAggregate ==
    [errors   |-> Errors,
     recall   |-> {i \in Selected \cap Answerable : Gold[i] # {}},
     citation |-> Selected \ Errors,
     judged   |-> {i \in Selected : scores[i] # "none"}]

\* _aggregate: what each mean is taken over.
Aggregate ==
    [errors   |-> Errors,
     recall   |-> {i \in (Selected \cap Answerable) \ Errors : Gold[i] # {}},
     citation |-> Selected \ Errors,
     judged   |-> {i \in Selected : scores[i] # "none"}]

\* asyncio.gather has them all.
Gather(r) ==
    /\ stage[r] = "items"
    /\ stage' = [stage EXCEPT ![r] = "gathered"]
    /\ IF r = Watched
       THEN (\A i \in Selected : pc[i] = "done") /\ summary' = Aggregate
       ELSE UNCHANGED summary
    /\ UNCHANGED <<corpus, clock, started, permits, itemVars, fileVars>>

WriteReport(r) ==
    /\ stage[r] = "gathered"
    /\ reports' = reports \cup {started[r]}
    /\ stage' = [stage EXCEPT ![r] = "md"]
    /\ UNCHANGED <<corpus, clock, started, permits, itemVars, summary, sidecar,
                   finished>>

\* Those that have the sidecar of stamp s open.
Writers(s) == {q \in Runs : stage[q] = "json" /\ started[q] = s}

\* write_text empties a file of that name, and then fills it.
OpenSidecar(r) ==
    /\ stage[r] = "md"
    /\ sidecar' = [sidecar EXCEPT ![started[r]] =
           [by |-> r, whole |-> "no", writers |-> Writers(started[r]) \cup {r}]]
    /\ stage' = [stage EXCEPT ![r] = "json"]
    /\ UNCHANGED <<corpus, clock, started, permits, itemVars, summary, reports,
                   finished>>

\* A part of the text reaches the file, perhaps over the text of another run
\* that has the same second in its name.
WritePart(r) ==
    /\ stage[r] = "json"
    /\ sidecar' = [sidecar EXCEPT ![started[r]] =
           [by |-> @.by, whole |-> "no", writers |-> @.writers]]
    /\ UNCHANGED <<corpus, clock, runVars, permits, itemVars, summary, reports,
                   finished>>

\* The last of the text is written.  It is the whole of the file, unless
\* another run has written to it as well: then some of that may remain.
WriteSidecar(r) ==
    /\ stage[r] = "json"
    /\ \E whole \in {"yes", "no"} :
           /\ whole = "no" => sidecar[started[r]].writers # {r}
           /\ sidecar' = [sidecar EXCEPT ![started[r]] =
                  [by |-> r, whole |-> whole, writers |-> @.writers]]
    /\ finished' = Append(finished, r)
    /\ stage' = [stage EXCEPT ![r] = "done"]
    /\ UNCHANGED <<corpus, clock, started, permits, itemVars, summary, reports>>

\* The process dies: what it has in memory is lost, the files stay.
Crash(r) ==
    /\ stage[r] \in UnderWay
    /\ stage' = [stage EXCEPT ![r] = IF @ = "json" THEN "cut" ELSE "dead"]
    /\ pc' = IF r = Watched THEN [i \in Items |-> "unused"] ELSE pc
    /\ UNCHANGED <<corpus, clock, started, permits, retrieved, seen, cited, asked,
                   outcome, scores, summary, fileVars>>

Write(r) == Gather(r) \/ WriteReport(r) \/ OpenSidecar(r) \/ WriteSidecar(r)

Next ==
    \/ Ingest \/ Tick
    \/ \E r \in Runs : Begin(r) \/ Crash(r) \/ Write(r) \/ WritePart(r)
    \/ \E i \in Items : ItemStep(i)

Spec == Init /\ [][Next]_vars

\* The event loop takes up what is ready, and the calls return or raise: they
\* have timeouts of 120 and 180 seconds, and the judge those of its client.
FairSpec ==
    /\ Spec
    /\ \A r \in Runs : WF_vars(Write(r))
    /\ \A i \in Items : WF_vars(ItemStep(i))

-----------------------------------------------------------------------------
(* loadLatestEvalRun of the about page.                                     *)

Written == {s \in Stamps : sidecar[s].by # None}

\* Mutant: the sort is not reversed.
MutLatest == CHOOSE s \in Written : \A t \in Written : s <= t

\* The run_*.json that is last in the order of names.
Latest == CHOOSE s \in Written : \A t \in Written : t <= s

\* The run on the page, or none: a file that does not parse is not skipped.
Shown == IF Written = {} \/ sidecar[Latest].whole = "no" THEN None ELSE sidecar[Latest].by

-----------------------------------------------------------------------------
(* Properties.                                                              *)

\* However the items end, each gives back the permit it took, and one: no more
\* than Concurrency questions are under way, and none is lost to the ones that
\* wait (run_eval.py:359-369).
PermitsAddUp == stage[Watched] = "items" => Cardinality(InFlight) + permits = Concurrency

\* A citation that is missing from the result of /search is no invention: what
\* the API retrieves from has changed between the item's two calls
\* (run_eval.py:162-164, 189).
MissedCitationExplained ==
    \A i \in Items :
        outcome[i] = "ok" /\ ~(cited[i] \subseteq DocsOf(retrieved[i])) => seen[i] < asked[i]

\* In a written report every item is an error or is averaged, an error in no
\* mean, and a score of the judge is one of an answer (run_eval.py:234-267).
AggregatesAccount ==
    stage[Watched] \in {"gathered", "md", "json", "done"} =>
        /\ Cardinality(summary.errors) + Cardinality(summary.citation)
             = Cardinality(Selected)
        /\ \A i \in summary.recall \cup summary.judged :
               outcome[i] = "ok" /\ seen[i] # 0 /\ asked[i] # 0
        /\ \A i \in summary.citation \ summary.judged : scores[i] = "none"

\* Whenever the page is built it shows, of the runs that have finished, the one
\* that started last, and of two of one second the one that finished last.  A
\* run that finishes after the one shown was under way before that started.
\* The page shows none only because a run as late as any of them died, or is,
\* in the middle of its sidecar, or wrote to it together with another run.
\* Beside a sidecar there is always a report (corpus-stats.ts:84-121,
\* run_eval.py:404-412).
PageShowsNewestRun ==
    /\ Shown # None =>
           \E n \in DOMAIN finished :
               /\ Shown = finished[n]
               /\ \A m \in DOMAIN finished :
                      \/ started[finished[m]] < started[Shown]
                      \/ started[finished[m]] = started[Shown] /\ m <= n
    /\ Shown = None /\ finished # <<>> =>
           \E r \in Opened :
               /\ \A m \in DOMAIN finished : started[finished[m]] <= started[r]
               /\ \/ stage[r] # "done"
                  \/ \E q \in Opened \ {r} : started[q] = started[r]
    /\ Written \subseteq reports

\* A run with a permit to give ends: its reports are written, or it has died.
RunEnds == stage[Watched] = "items" ~> stage[Watched] \in Over
=============================================================================
