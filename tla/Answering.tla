----------------------------- MODULE Answering -----------------------------
(* POST /ask and GET /search: retrieve, rerank, refuse or call the language *)
(* model, and turn what it says into a response (src/app/services/ask.py,   *)
(* search.py, src/app/retrieval/rerank.py, src/app/llm/).                   *)
(*                                                                          *)
(* One request is served at a time: requests share nothing but the cached   *)
(* client and settings, which never change.  Passages are chunk ids, scores *)
(* are what the threshold and the order tell apart.  Which passages are     *)
(* found and what the model says is up to the environment.                  *)
EXTENDS Naturals, FiniteSets

CONSTANTS Passages,   \* chunk ids that can be retrieved
          Unknown,    \* a chunk id that is never retrieved
          Remarks,    \* warnings the model may add itself, the service's own words too
          None,       \* no response, nothing said
          TopK,       \* the request's top_k
          Providers   \* rerankers a deployment may choose: "local", "cohere"

ASSUME ConstantsAssumption ==
    /\ Unknown \notin Passages
    /\ TopK \in Nat \ {0}
    /\ IsFiniteSet(Passages)

VARIABLES
    provider,    \* settings.reranker_provider
    configured,  \* can get_llm_client build the client? (its API key is set)
    kind,        \* "ask", "search" or "search_raw" (rerank=false)
    stage,       \* where the request stands
    fused,       \* what hybrid_search returned
    scores,      \* the reranker's scores of the fused passages
    shown,       \* ranked: the passages in the prompt
    tries,       \* attempts of the running external call that have failed
    calls,       \* history: calls of the language model
    said,        \* history: what it said
    resp         \* the response

settings == <<provider, configured>>
vars == <<settings, kind, stage, fused, scores, shown, tries, calls, said, resp>>

Contract == INSTANCE AnswerContract WITH busy <- stage \in {"retrieve", "rerank", "llm"}

MaxAttempts == 3   \* stop_after_attempt(3), in rerank.py and each LLM client

\* A score below the threshold, one at it, and a better one.
Score     == 0 .. 2
Threshold == 1

\* The parsed "confidence" may be any value; "other" is one that is not known.
Objects == [form : {"object"}, cites : SUBSET (Passages \cup {Unknown}),
            confidence : {"high", "low", "other"}, warns : SUBSET Remarks]

\* No JSON at all, JSON that is no object, an object one of whose lists is not
\* iterable (null, a number), or an object as asked for.
Sayings == [form : {"prose", "array", "null_list"}] \cup Objects

\* No response and nothing said can be told from a response and a saying.
ASSUME NoneAssumption == None \notin Contract!Responses /\ None \notin Sayings

TypeOK ==
    /\ provider \in Providers /\ configured \in BOOLEAN
    /\ kind \in {"ask", "search", "search_raw"}
    /\ stage \in {"idle", "retrieve", "rerank", "llm", "done"}
    /\ fused \subseteq Passages
    /\ scores \in [fused -> Score]
    /\ shown \subseteq fused
    /\ tries \in 0 .. MaxAttempts - 1
    /\ calls \in Nat
    /\ said \in Sayings \cup {None}
    /\ resp \in Contract!Responses \cup {None}

Init ==
    /\ provider \in Providers /\ configured \in BOOLEAN
    /\ kind = "ask" /\ stage = "idle"
    /\ fused = {} /\ scores = [p \in {} |-> 0] /\ shown = {}
    /\ tries = 0 /\ calls = 0
    /\ said = None /\ resp = None

-----------------------------------------------------------------------------
(* Responses.                                                               *)

Answer(model, cs, conf, warn) ==
    [kind |-> "answer", model |-> model, citations |-> cs, confidence |-> conf,
     warnings |-> warn]

Error(code) == [kind |-> "error", code |-> code]
Listing(ps) == [kind |-> "passages", passages |-> ps]

Respond(r) == stage' = "done" /\ resp' = r

\* _empty_context_response.
Refusal == Answer("none", {}, "low", {"no_relevant_context"})

\* An exception that leaves the handler: only /ask turns a RuntimeError into a
\* 503, everything else is a 500.
Raise(exception) ==
    Respond(Error(IF kind = "ask" /\ exception = "RuntimeError" THEN 503 ELSE 500))

CoerceConfidence(value) == IF value \in {"high", "medium", "low"} THEN value ELSE "low"

\* Mutant: citations are looked up among all retrieved passages.
MutResolve(cites) == cites \cap fused

\* _resolve_citations: the cited passages that were in the prompt.
Resolve(cites) == cites \cap shown

UnknownWarning(cites) == IF cites \subseteq shown THEN {} ELSE {"unknown_chunk_id"}

\* Mutant: the downgrade looks at what the model cited, not at what resolved.
MutFinalAnswer(o) ==
    LET conf == CoerceConfidence(o.confidence)
        down == o.cites = {} /\ conf # "low"
    IN  Answer("model", Resolve(o.cites), IF down THEN "low" ELSE conf,
               UnknownWarning(o.cites) \cup o.warns
                   \cup IF down THEN {"downgraded_confidence_no_citations"} ELSE {})

\* The model's own warnings follow the service's in one list.  The disclaimer,
\* which every answer has, is left out.
FinalAnswer(o) ==
    LET cited == Resolve(o.cites)
        conf  == CoerceConfidence(o.confidence)
        down  == cited = {} /\ conf # "low"
    IN  Answer("model", cited, IF down THEN "low" ELSE conf,
               UnknownWarning(o.cites) \cup o.warns
                   \cup IF down THEN {"downgraded_confidence_no_citations"} ELSE {})

-----------------------------------------------------------------------------
(* The request.                                                             *)

Begin ==
    /\ stage = "idle"
    /\ kind' \in {"ask", "search", "search_raw"}
    /\ stage' = "retrieve"
    /\ UNCHANGED <<settings, fused, scores, shown, tries, calls, said, resp>>

\* The best TopK of a set under an order: ties are broken by the fused order,
\* which the model leaves open.
BestOf(candidates, order) ==
    {best \in SUBSET candidates :
        /\ Cardinality(best) <= TopK
        /\ best # candidates => Cardinality(best) = TopK
        /\ \A p \in best, p2 \in candidates \ best : order[p] >= order[p2]}

\* hybrid_search returns nothing: /ask refuses, /search lists nothing.
FindNothing ==
    /\ stage = "retrieve"
    /\ Respond(IF kind = "ask" THEN Refusal ELSE Listing({}))
    /\ UNCHANGED <<settings, kind, fused, scores, shown, tries, calls, said>>

FindPassages ==
    /\ stage = "retrieve"
    /\ fused' \in SUBSET Passages \ {{}}
    /\ scores' = [p \in fused' |-> 0]
    /\ \/ /\ kind = "search_raw"
          /\ \E best \in BestOf(fused', [p \in fused' |-> 0]) :
                 shown' = best /\ Respond(Listing(best))
       \/ /\ kind # "search_raw"
          /\ stage' = "rerank"
          /\ UNCHANGED <<shown, resp>>
    /\ UNCHANGED <<settings, kind, tries, calls, said>>

RetrievalFails ==
    /\ stage = "retrieve"
    /\ \E exception \in {"RuntimeError", "other"} : Raise(exception)
    /\ UNCHANGED <<settings, kind, fused, scores, shown, tries, calls, said>>

\* "c.score >= threshold".
Kept(sc) == {p \in fused : sc[p] >= Threshold}

\* Mutant: the client is fetched and called before the ranking is looked at.
MutAfterRerank ==
    \/ kind = "search" /\ Respond(Listing(shown'))
    \/ kind = "ask" /\ ~configured /\ Raise("RuntimeError")
    \/ kind = "ask" /\ configured /\ stage' = "llm" /\ UNCHANGED resp

\* /search lists the ranking; /ask refuses an empty one, and needs a client.
AfterRerank ==
    \/ kind = "search" /\ Respond(Listing(shown'))
    \/ kind = "ask" /\ shown' = {} /\ Respond(Refusal)
    \/ kind = "ask" /\ shown' # {} /\ ~configured /\ Raise("RuntimeError")
    \/ kind = "ask" /\ shown' # {} /\ configured /\ stage' = "llm" /\ UNCHANGED resp

Rerank ==
    /\ stage = "rerank"
    /\ scores' \in [fused -> Score]
    /\ shown' \in BestOf(Kept(scores'), scores')
    /\ AfterRerank
    /\ tries' = 0
    /\ UNCHANGED <<settings, kind, fused, calls, said>>

\* An exception that is not retried: the local model, a missing Cohere key, a
\* body that is not what was expected.
RerankFails ==
    /\ stage = "rerank"
    /\ \E exception \in {"RuntimeError", "other"} : Raise(exception)
    /\ tries' = 0
    /\ UNCHANGED <<settings, kind, fused, scores, shown, calls, said>>

\* A transport or HTTP status error of Cohere.
CohereErrs ==
    /\ stage = "rerank" /\ provider = "cohere"
    /\ \/ tries + 1 < MaxAttempts /\ tries' = tries + 1 /\ UNCHANGED <<stage, resp>>
       \/ tries + 1 = MaxAttempts /\ tries' = 0 /\ Raise("other")
    /\ UNCHANGED <<settings, kind, fused, scores, shown, calls, said>>

Unavailable == Answer("unavailable", {}, "low", {"llm_unavailable"})

\* Mutant: tenacity without a stop condition.
MutLlmErrs ==
    /\ stage = "llm"
    /\ tries' = (tries + 1) % MaxAttempts
    /\ UNCHANGED <<settings, kind, stage, fused, scores, shown, calls, said, resp>>

\* A connection error, timeout, rate limit or server error is retried; the last
\* one is re-raised and becomes an answer.
LlmErrs ==
    /\ stage = "llm"
    /\ calls' = calls + 1
    /\ \/ tries + 1 < MaxAttempts /\ tries' = tries + 1 /\ UNCHANGED <<stage, resp>>
       \/ tries + 1 = MaxAttempts /\ tries' = 0 /\ Respond(Unavailable)
    /\ UNCHANGED <<settings, kind, fused, scores, shown, said>>

\* Any other exception of the client is not retried.
LlmRefuses ==
    /\ stage = "llm"
    /\ calls' = calls + 1 /\ tries' = 0
    /\ Respond(Unavailable)
    /\ UNCHANGED <<settings, kind, fused, scores, shown, said>>

\* The model answers: the text is parsed and becomes the response with no
\* await in between.
LlmAnswers ==
    /\ stage = "llm"
    /\ calls' = calls + 1 /\ tries' = 0
    /\ said' \in Sayings
    /\ \/ /\ said'.form = "prose"
          /\ Respond(Answer("model", {}, "low", {"model_output_unparseable"}))
       \/ said'.form \in {"array", "null_list"} /\ Raise("other")
       \/ said'.form = "object" /\ Respond(FinalAnswer(said'))
    /\ UNCHANGED <<settings, kind, fused, scores, shown>>

\* The next request.
End ==
    /\ stage = "done"
    /\ stage' = "idle" /\ kind' = "ask"
    /\ fused' = {} /\ scores' = [p \in {} |-> 0] /\ shown' = {}
    /\ tries' = 0 /\ calls' = 0
    /\ said' = None /\ resp' = None
    /\ UNCHANGED settings

Serve ==
    \/ FindNothing \/ FindPassages \/ RetrievalFails
    \/ Rerank \/ RerankFails \/ CohereErrs
    \/ LlmErrs \/ LlmRefuses \/ LlmAnswers

Next == Begin \/ Serve \/ End

Spec == Init /\ [][Next]_vars

\* Every awaited call returns or raises: they all have timeouts.
FairSpec == Spec /\ WF_vars(Serve)

-----------------------------------------------------------------------------
(* Properties.                                                              *)

\* A citation of the response is a passage that the model was shown, that the
\* reranker did not drop, and than which no dropped passage scored higher
\* (ask.py:66-99, rerank.py:111-121).
CitedWasShown ==
    resp # None /\ resp.kind = "answer" =>
        \A p \in resp.citations :
            /\ p \in shown /\ scores[p] >= Threshold
            /\ \A p2 \in fused \ shown : scores[p] >= scores[p2]

\* The model is called only when there is a passage to show it, at most three
\* times however it fails, and an answer says that no model was called exactly
\* when none was (ask.py:12-13, 123-133, stop_after_attempt in src/app/llm/).
RefusalIsFree ==
    /\ calls > 0 => shown # {}
    /\ calls <= MaxAttempts
    /\ resp # None /\ resp.kind = "answer" => (calls = 0 <=> resp.model = "none")

\* To a client, /ask and /search are AnswerContract: one response per request,
\* confidence above low backed by a citation, and an answer that no model gave
\* recognisable as a refusal or an outage, whatever words a model adds to its
\* own answers.
ImplementsContract == Contract!ContractSpec

\* Every request is answered, also when the model or the reranker fails on
\* every attempt (the retries stop).
EveryRequestAnswered == stage = "retrieve" ~> stage = "done"

\* parse_model_json returns a dict or "raises ValueError if no valid JSON
\* found" (prompts.py:96-98), so whatever the model says ends in an answer.
AnyOutputIsAnswered == resp # None /\ said # None => resp.kind = "answer"
=============================================================================
