--------------------------- MODULE AnswerContract ---------------------------
(* What a client of POST /ask and GET /search may rely on, without the way  *)
(* the response comes about: a request gets one response, and the response  *)
(* is one that AnswerResponse and the error handlers of main.py allow and    *)
(* whose parts agree with one another.                                       *)
CONSTANTS Passages,  \* chunk ids
          Remarks,   \* warnings that the language model may add itself
          None       \* no response yet

VARIABLES busy,      \* is a request being served?
          resp       \* its response

Confidence == {"high", "medium", "low"}

\* The service's own warnings, and the model's, which land in the same list.
Warnings ==
    {"no_relevant_context", "llm_unavailable", "model_output_unparseable",
     "unknown_chunk_id", "downgraded_confidence_no_citations"} \cup Remarks

Errors == [kind : {"error"}, code : {500, 503}]

Listings == [kind : {"passages"}, passages : SUBSET Passages]

\* model_used: none before the call, unavailable when it failed, or a model.
Answers == [kind : {"answer"}, model : {"none", "unavailable", "model"},
            citations : SUBSET Passages, confidence : Confidence,
            warnings : SUBSET Warnings]

\* Confidence above low is backed by a citation; an answer that no model gave
\* cites nothing and says why.  Why an answer of a model has no citations is
\* not promised: the model may cite nothing, with low confidence, silently.
Consistent(a) ==
    /\ a.confidence # "low" => a.citations # {}
    /\ a.model = "none" => a.citations = {} /\ a.warnings = {"no_relevant_context"}
    /\ a.model = "unavailable" => a.citations = {} /\ a.warnings = {"llm_unavailable"}

Responses == Errors \cup Listings \cup {a \in Answers : Consistent(a)}

ContractInit == busy = FALSE /\ resp = None

Ask == ~busy /\ resp = None /\ busy' = TRUE /\ UNCHANGED resp

Respond == busy /\ busy' = FALSE /\ resp' \in Responses

Forget == ~busy /\ resp # None /\ resp' = None /\ UNCHANGED busy

ContractSpec ==
    ContractInit /\ [][Ask \/ Respond \/ Forget]_<<busy, resp>>
=============================================================================
