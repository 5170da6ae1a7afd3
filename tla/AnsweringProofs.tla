-------------------------- MODULE AnsweringProofs --------------------------
(* Proofs about Answering, for any set of passages and any top_k: types,    *)
(* what an answer cites and admits, what a refusal costs, and that /ask and *)
(* /search implement AnswerContract.                                        *)
EXTENDS Answering, TLAPS

\* What is known at each stage: there is a response exactly at the end, and
\* the model is asked only about passages that were shown to it.
StageOK ==
    /\ stage = "done" <=> resp # None
    /\ stage \in {"idle", "retrieve", "rerank"} => calls = 0 /\ said = None /\ shown = {}
    /\ stage = "llm" => shown # {} /\ said = None /\ calls = tries /\ kind = "ask"
    /\ stage \in {"idle", "retrieve"} => tries = 0

\* The shown passages are the best of those at or above the threshold.
ShownBest ==
    kind # "search_raw" =>
        \A p \in shown : /\ scores[p] >= Threshold
                         /\ \A p2 \in fused \ shown : scores[p] >= scores[p2]

\* Only /ask has answers, and they cite what was shown.
AnswersCiteShown ==
    resp # None /\ resp.kind = "answer" => kind = "ask" /\ resp.citations \subseteq shown

IInv ==
    /\ TypeOK /\ StageOK /\ ShownBest /\ AnswersCiteShown
    /\ RefusalIsFree

-----------------------------------------------------------------------------
(* The responses are those of the contract.                                 *)

\* Errors, listings, refusals and the answers without a model are legal.
LEMMA PlainResponses ==
  /\ \A code \in {500, 503} : Error(code) \in Contract!Responses
  /\ \A ps \in SUBSET Passages : Listing(ps) \in Contract!Responses
  /\ Refusal \in Contract!Responses
  /\ Unavailable \in Contract!Responses
  /\ Answer("model", {}, "low", {"model_output_unparseable"}) \in Contract!Responses
<1> USE DEF Contract!Responses
<1>1. \A code \in {500, 503} : Error(code) \in Contract!Responses
  BY DEF Error, Contract!Errors
<1>2. \A ps \in SUBSET Passages : Listing(ps) \in Contract!Responses
  BY DEF Listing, Contract!Listings
<1>3. ASSUME NEW m \in {"none", "unavailable", "model"}, NEW w \in Contract!Warnings
      PROVE  Answer(m, {}, "low", {w}) \in Contract!Answers
  BY DEF Answer, Contract!Answers, Contract!Confidence
<1>4. Refusal \in Contract!Responses
  BY <1>3 DEF Refusal, Answer, Contract!Consistent, Contract!Warnings
<1>5. Unavailable \in Contract!Responses
  BY <1>3 DEF Unavailable, Answer, Contract!Consistent, Contract!Warnings
<1>6. Answer("model", {}, "low", {"model_output_unparseable"}) \in Contract!Responses
  BY <1>3 DEF Answer, Contract!Consistent, Contract!Warnings
<1>7. QED
  BY <1>1, <1>2, <1>4, <1>5, <1>6

\* What becomes of a parsed object: it cites what was shown and
\* does not claim confidence without a citation, whatever warnings it brings.
LEMMA FinalAnswerLegal ==
  ASSUME TypeOK, NEW o \in Objects
  PROVE  /\ FinalAnswer(o) \in Contract!Responses
         /\ FinalAnswer(o).kind = "answer"
         /\ FinalAnswer(o).citations \subseteq shown
         /\ FinalAnswer(o).model = "model"
<1> DEFINE cited == Resolve(o.cites)
           conf  == CoerceConfidence(o.confidence)
           down  == cited = {} /\ conf # "low"
           c     == IF down THEN "low" ELSE conf
           w     == UnknownWarning(o.cites) \cup o.warns
                        \cup IF down THEN {"downgraded_confidence_no_citations"} ELSE {}
<1>1. FinalAnswer(o) = Answer("model", cited, c, w)
  BY DEF FinalAnswer
<1>2. cited \subseteq shown /\ cited \subseteq Passages
  BY DEF Resolve, TypeOK
<1>3. c \in Contract!Confidence
  BY DEF CoerceConfidence, Contract!Confidence
<1>4. c # "low" => cited # {}
  OBVIOUS
<1>5. w \subseteq Contract!Warnings
  <2>1. o.warns \subseteq Remarks
    BY DEF Objects
  <2>2. QED
    BY <2>1 DEF UnknownWarning, Contract!Warnings
<1> HIDE DEF cited, conf, down, c, w
<1>6. Answer("model", cited, c, w) \in Contract!Answers
  BY <1>2, <1>3, <1>5 DEF Answer, Contract!Answers
<1>7. Contract!Consistent(Answer("model", cited, c, w))
  BY <1>4 DEF Answer, Contract!Consistent
<1>8. QED
  BY <1>1, <1>2, <1>6, <1>7 DEF Answer, Contract!Responses

-----------------------------------------------------------------------------
(* Every step keeps the invariant.                                          *)

\* The request is at the start: nothing is known of it.
LEMMA InitIInv == Init => IInv
  BY ConstantsAssumption, NoneAssumption
     DEF Init, IInv, TypeOK, StageOK, ShownBest, AnswersCiteShown, RefusalIsFree, MaxAttempts, Score

\* A response that is no answer, or that excuses itself for a model that was
\* called, with nothing said: the properties of answers hold of it.
LEMMA PlainEnd ==
  ASSUME IInv, NEW r, Respond(r), r \in Contract!Responses,
         stage \in {"retrieve", "rerank", "llm"},
         UNCHANGED <<settings, kind, fused>>,
         TypeOK', ShownBest',
         calls' > 0 => shown' # {}, calls' <= MaxAttempts,
         \/ r.kind # "answer"
         \/ /\ r.kind = "answer" /\ r.citations = {} /\ kind = "ask"
            /\ calls' = 0 <=> r.model = "none"
  PROVE  IInv'
<1>1. resp' = r /\ stage' = "done" /\ r # None
  BY NoneAssumption DEF Respond
<1>2. StageOK'
  BY <1>1 DEF StageOK
<1>3. AnswersCiteShown'
  BY <1>1 DEF AnswersCiteShown
<1>4. RefusalIsFree'
  BY <1>1 DEF RefusalIsFree
<1>5. QED
  BY <1>2, <1>3, <1>4 DEF IInv

\* Raise responds with an error.
LEMMA RaiseIsError ==
  ASSUME NEW e, Raise(e)
  PROVE  \E r \in Contract!Responses : Respond(r) /\ r.kind = "error"
<1> DEFINE code == IF kind = "ask" /\ e = "RuntimeError" THEN 503 ELSE 500
<1>1. Error(code) \in Contract!Responses
  BY PlainResponses
<1>2. Error(code).kind = "error"
  BY DEF Error
<1>3. QED
  BY <1>1, <1>2 DEF Raise

\* Retrieval: nothing found, an exception, or passages to rerank or to list.
LEMMA RetrievalKeeps ==
  ASSUME IInv, FindNothing \/ FindPassages \/ RetrievalFails
  PROVE  IInv'
<1>0. stage = "retrieve" /\ TypeOK /\ said = None /\ calls = 0 /\ shown = {} /\ tries = 0
      /\ resp = None /\ 0 <= MaxAttempts
  BY DEF FindNothing, FindPassages, RetrievalFails, IInv, StageOK, MaxAttempts
<1>1. CASE FindNothing
  <2> DEFINE r == IF kind = "ask" THEN Refusal ELSE Listing({})
  <2>1. r \in Contract!Responses /\ Respond(r)
    BY <1>1, PlainResponses DEF FindNothing
  <2>2. kind = "ask" => r.kind = "answer" /\ r.citations = {}
                         /\ r.model = "none"
    BY DEF Refusal, Answer
  <2>3. kind # "ask" => r.kind # "answer"
    BY DEF Listing
  <2>4. UNCHANGED <<settings, kind, fused, scores, shown, tries, calls, said>>
    BY <1>1 DEF FindNothing
  <2>5. TypeOK' /\ ShownBest'
    BY <1>0, <2>1, <2>4 DEF TypeOK, ShownBest, Respond, settings
  <2> HIDE DEF r
  <2>6. QED
    BY <1>0, <2>1, <2>2, <2>3, <2>4, <2>5, PlainEnd
<1>2. CASE RetrievalFails
  <2>1. PICK r \in Contract!Responses : Respond(r) /\ r.kind = "error"
    BY <1>2, RaiseIsError DEF RetrievalFails
  <2>2. UNCHANGED <<settings, kind, fused, scores, shown, tries, calls, said>>
    BY <1>2 DEF RetrievalFails
  <2>3. TypeOK' /\ ShownBest'
    BY <1>0, <2>1, <2>2 DEF TypeOK, ShownBest, Respond, settings
  <2>4. QED
    BY <1>0, <2>1, <2>2, <2>3, PlainEnd
<1>3. CASE FindPassages
  <2>1. /\ fused' \subseteq Passages /\ scores' \in [fused' -> Score]
        /\ UNCHANGED <<settings, kind, tries, calls, said>>
    BY <1>3 DEF FindPassages, Score
  <2>2. CASE kind = "search_raw"
    <3>1. PICK best \in SUBSET fused' : shown' = best /\ Respond(Listing(best))
      BY <1>3, <2>2 DEF FindPassages, BestOf
    <3>2. Listing(best) \in Contract!Responses /\ Listing(best).kind = "passages"
      BY <2>1, PlainResponses DEF Listing
    <3>3. resp' = Listing(best) /\ stage' = "done" /\ resp' # None
      BY <3>1, <3>2, NoneAssumption DEF Respond
    <3>4. TypeOK'
      BY <1>0, <2>1, <3>1, <3>2, <3>3 DEF TypeOK, settings
    <3>5. StageOK' /\ ShownBest'
      BY <1>0, <2>1, <2>2, <3>3 DEF StageOK, ShownBest
    <3>6. AnswersCiteShown' /\ RefusalIsFree'
      BY <1>0, <2>1, <3>2, <3>3
         DEF AnswersCiteShown, RefusalIsFree
    <3>7. QED
      BY <3>4, <3>5, <3>6 DEF IInv
  <2>3. CASE kind # "search_raw"
    <3>1. stage' = "rerank" /\ shown' = {} /\ resp' = None
      BY <1>0, <1>3, <2>3 DEF FindPassages
    <3>2. TypeOK'
      BY <1>0, <2>1, <3>1 DEF TypeOK, settings
    <3>3. StageOK' /\ ShownBest' /\ AnswersCiteShown'
          /\ RefusalIsFree'
      BY <1>0, <2>1, <3>1
         DEF StageOK, ShownBest, AnswersCiteShown, RefusalIsFree
    <3>4. QED
      BY <3>2, <3>3 DEF IInv
  <2>4. QED
    BY <2>2, <2>3
<1>4. QED
  BY <1>1, <1>2, <1>3

\* The reranker: a ranking, an exception, or another attempt.
LEMMA RerankKeeps ==
  ASSUME IInv, Rerank \/ RerankFails \/ CohereErrs
  PROVE  IInv'
<1>0. /\ stage = "rerank" /\ TypeOK /\ said = None /\ calls = 0 /\ shown = {}
      /\ resp = None /\ ShownBest /\ 0 <= MaxAttempts
  BY DEF Rerank, RerankFails, CohereErrs, IInv, StageOK, MaxAttempts
<1>1. ASSUME NEW e, Raise(e), tries' = 0,
             UNCHANGED <<settings, kind, fused, scores, shown, calls, said>>
      PROVE  IInv'
  <2>1. PICK r \in Contract!Responses : Respond(r) /\ r.kind = "error"
    BY <1>1, RaiseIsError
  <2>2. TypeOK' /\ ShownBest'
    BY <1>0, <1>1, <2>1 DEF TypeOK, ShownBest, Respond, settings, MaxAttempts
  <2>3. QED
    BY <1>0, <1>1, <2>1, <2>2, PlainEnd
<1>2. CASE RerankFails
  BY <1>1, <1>2 DEF RerankFails
<1>3. CASE CohereErrs
  <2>1. CASE tries + 1 = MaxAttempts /\ tries' = 0 /\ Raise("other")
    BY <1>1, <1>3, <2>1 DEF CohereErrs
  <2>2. CASE tries + 1 < MaxAttempts /\ tries' = tries + 1 /\ UNCHANGED <<stage, resp>>
    <3>1. UNCHANGED <<settings, kind, stage, fused, scores, shown, calls, said, resp>>
      BY <1>3, <2>2 DEF CohereErrs
    <3>2. TypeOK' /\ StageOK'
      BY <1>0, <2>2, <3>1 DEF TypeOK, StageOK, settings, MaxAttempts
    <3>3. ShownBest' /\ AnswersCiteShown' /\ RefusalIsFree'
      BY <1>0, <3>1 DEF ShownBest, AnswersCiteShown, RefusalIsFree
    <3>4. QED
      BY <3>2, <3>3 DEF IInv
  <2>3. QED
    BY <1>3, <2>1, <2>2 DEF CohereErrs
<1>4. CASE Rerank
  <2>1. /\ scores' \in [fused -> Score] /\ tries' = 0
        /\ shown' \in BestOf(Kept(scores'), scores')
        /\ UNCHANGED <<settings, kind, fused, calls, said>>
    BY <1>4 DEF Rerank
  <2>2. shown' \subseteq fused /\ \A p \in shown' : scores'[p] >= Threshold
    BY <2>1 DEF BestOf, Kept
  <2>3. ASSUME NEW p \in shown', NEW p2 \in fused \ shown'
        PROVE  scores'[p] >= scores'[p2]
    <3>1. CASE p2 \in Kept(scores')
      BY <2>1, <3>1 DEF BestOf
    <3>2. CASE p2 \notin Kept(scores')
      <4>1. scores'[p2] < Threshold /\ scores'[p] \in Nat /\ scores'[p2] \in Nat
        BY <2>1, <2>2, <3>2 DEF Kept, Score, Threshold
      <4>2. QED
        BY <2>2, <4>1 DEF Threshold
    <3>3. QED
      BY <3>1, <3>2
  <2>4. ShownBest'
    BY <2>1, <2>2, <2>3 DEF ShownBest
  <2>5. ASSUME NEW r \in Contract!Responses, Respond(r),
               \/ r.kind # "answer"
               \/ /\ kind = "ask" /\ r.kind = "answer" /\ r.citations = {}
                  /\ r.model = "none"
        PROVE  IInv'
    <3>1. TypeOK'
      BY <1>0, <2>1, <2>2, <2>5 DEF TypeOK, Respond, settings, MaxAttempts
    <3>2. QED
      BY <1>0, <2>1, <2>4, <2>5, <3>1, PlainEnd
  <2>6. CASE kind = "search" /\ Respond(Listing(shown'))
    <3>1. Listing(shown') \in Contract!Responses /\ Listing(shown').kind # "answer"
      BY <1>0, <2>2, PlainResponses DEF Listing, TypeOK
    <3>2. QED
      BY <2>5, <2>6, <3>1
  <2>7. CASE kind = "ask" /\ shown' = {} /\ Respond(Refusal)
    <3>1. /\ Refusal \in Contract!Responses /\ Refusal.kind = "answer"
          /\ Refusal.citations = {} /\ Refusal.model = "none"
      BY PlainResponses DEF Refusal, Answer
    <3>2. QED
      BY <2>5, <2>7, <3>1
  <2>8. CASE Raise("RuntimeError")
    <3>1. PICK r \in Contract!Responses : Respond(r) /\ r.kind = "error"
      BY <2>8, RaiseIsError
    <3>2. QED
      BY <2>5, <3>1
  <2>9. CASE kind = "ask" /\ shown' # {} /\ stage' = "llm" /\ UNCHANGED resp
    <3>1. TypeOK' /\ StageOK'
      BY <1>0, <2>1, <2>2, <2>9 DEF TypeOK, StageOK, settings, MaxAttempts
    <3>2. AnswersCiteShown' /\ RefusalIsFree'
      BY <1>0, <2>1, <2>9 DEF AnswersCiteShown, RefusalIsFree
    <3>3. QED
      BY <2>4, <3>1, <3>2 DEF IInv
  <2>10. QED
    BY <1>4, <2>6, <2>7, <2>8, <2>9 DEF Rerank, AfterRerank
<1>5. QED
  BY <1>2, <1>3, <1>4

\* The language model: an error, with a further attempt or an answer that says
\* so, or a text that becomes the response.
LEMMA LlmKeeps ==
  ASSUME IInv, LlmErrs \/ LlmRefuses \/ LlmAnswers
  PROVE  IInv'
<1>0. /\ stage = "llm" /\ kind = "ask" /\ TypeOK /\ said = None /\ calls = tries
      /\ shown # {} /\ resp = None /\ ShownBest
      /\ calls + 1 \in 1 .. MaxAttempts
  BY DEF LlmErrs, LlmRefuses, LlmAnswers, IInv, StageOK, TypeOK, MaxAttempts
<1>1. ASSUME calls' = calls + 1, tries' = 0, Respond(Unavailable),
             UNCHANGED <<settings, kind, fused, scores, shown, said>>
      PROVE  IInv'
  <2>1. /\ Unavailable \in Contract!Responses /\ Unavailable.kind = "answer"
        /\ Unavailable.citations = {} /\ Unavailable.model = "unavailable"
    BY PlainResponses DEF Unavailable, Answer
  <2>2. TypeOK' /\ ShownBest'
    BY <1>0, <1>1, <2>1 DEF TypeOK, ShownBest, Respond, settings, MaxAttempts
  <2>3. calls' > 0 /\ calls' <= MaxAttempts
    BY <1>0, <1>1
  <2>4. QED
    BY <1>0, <1>1, <2>1, <2>2, <2>3, PlainEnd
<1>2. CASE LlmRefuses
  BY <1>1, <1>2 DEF LlmRefuses
<1>3. CASE LlmErrs
  <2>1. CASE tries + 1 = MaxAttempts /\ tries' = 0 /\ Respond(Unavailable)
    BY <1>1, <1>3, <2>1 DEF LlmErrs
  <2>2. CASE tries + 1 < MaxAttempts /\ tries' = tries + 1 /\ UNCHANGED <<stage, resp>>
    <3>1. calls' = calls + 1 /\ UNCHANGED <<settings, kind, fused, scores, shown, said>>
      BY <1>3 DEF LlmErrs
    <3>2. TypeOK' /\ StageOK'
      BY <1>0, <2>2, <3>1 DEF TypeOK, StageOK, settings, MaxAttempts
    <3>3. ShownBest' /\ AnswersCiteShown' /\ RefusalIsFree'
      BY <1>0, <2>2, <3>1
         DEF ShownBest, AnswersCiteShown, RefusalIsFree
    <3>4. QED
      BY <3>2, <3>3 DEF IInv
  <2>3. QED
    BY <1>3, <2>1, <2>2 DEF LlmErrs
<1>4. CASE LlmAnswers
  <2>1. /\ calls' = calls + 1 /\ tries' = 0 /\ said' \in Sayings
        /\ UNCHANGED <<settings, kind, fused, scores, shown>>
    BY <1>4 DEF LlmAnswers
  <2>2. calls' > 0 /\ calls' \in Nat /\ calls' <= MaxAttempts
    BY <1>0, <2>1 DEF MaxAttempts
  <2>3. ASSUME NEW r \in Contract!Responses, Respond(r) PROVE TypeOK' /\ ShownBest'
    BY <1>0, <2>1, <2>2, <2>3 DEF TypeOK, ShownBest, Respond, settings, MaxAttempts
  <2>4. CASE said'.form = "prose" /\ Respond(Answer("model", {}, "low", {"model_output_unparseable"}))
    <3> DEFINE r == Answer("model", {}, "low", {"model_output_unparseable"})
    <3>1. /\ r \in Contract!Responses /\ r.kind = "answer"
          /\ r.citations = {} /\ r.model = "model"
      BY PlainResponses DEF Answer
    <3>2. Respond(r)
      BY <2>4
    <3> HIDE DEF r
    <3>3. QED
      BY <1>0, <2>1, <2>2, <2>3, <2>4, <3>1, <3>2, PlainEnd
  <2>5. CASE said'.form \in {"array", "null_list"} /\ Raise("other")
    <3>1. PICK r \in Contract!Responses : Respond(r) /\ r.kind = "error"
      BY <2>5, RaiseIsError
    <3>2. QED
      BY <1>0, <2>1, <2>2, <2>3, <2>5, <3>1, PlainEnd
  <2>6. CASE said'.form = "object" /\ Respond(FinalAnswer(said'))
    <3>1. said' \in Objects
      BY <2>1, <2>6 DEF Sayings
    <3>2. PICK o \in Objects : o = said'
      BY <3>1
    <3>3. resp' = FinalAnswer(o) /\ stage' = "done"
      BY <2>6, <3>2 DEF Respond, FinalAnswer, Resolve, UnknownWarning
    <3>4. /\ FinalAnswer(o) \in Contract!Responses
          /\ FinalAnswer(o).kind = "answer"
          /\ FinalAnswer(o).citations \subseteq shown
          /\ FinalAnswer(o).model = "model"
      BY <1>0, FinalAnswerLegal
    <3>5. resp' # None /\ TypeOK' /\ ShownBest'
      BY <2>3, <3>3, <3>4, NoneAssumption DEF Respond
    <3>6. StageOK'
      BY <3>3, <3>5 DEF StageOK
    <3>7. AnswersCiteShown' /\ RefusalIsFree'
      BY <1>0, <2>1, <2>2, <3>2, <3>3, <3>4
         DEF AnswersCiteShown, RefusalIsFree
    <3>8. QED
      BY <3>5, <3>6, <3>7 DEF IInv
  <2>7. QED
    BY <1>4, <2>4, <2>5, <2>6 DEF LlmAnswers
<1>5. QED
  BY <1>2, <1>3, <1>4

\* A request begins, or is forgotten once answered.
LEMMA BeginEndKeep ==
  ASSUME IInv, Begin \/ End
  PROVE  IInv'
<1> USE DEF IInv, StageOK, ShownBest, AnswersCiteShown, RefusalIsFree
<1>1. CASE Begin
  BY <1>1 DEF Begin, TypeOK, settings, MaxAttempts
<1>2. CASE End
  BY <1>2 DEF End, TypeOK, settings, MaxAttempts, Score
<1>3. QED
  BY <1>1, <1>2

-----------------------------------------------------------------------------
(* Theorems.                                                                *)

\* The inductive invariant holds in every reachable state.
THEOREM Invariant == Spec => []IInv
<1>1. IInv /\ [Next]_vars => IInv'
  <2> SUFFICES ASSUME IInv, [Next]_vars PROVE IInv'
    OBVIOUS
  <2>1. CASE Next
    BY <2>1, RetrievalKeeps, RerankKeeps, LlmKeeps, BeginEndKeep DEF Next, Serve
  <2>2. CASE UNCHANGED vars
    BY <2>2 DEF vars, settings, IInv, TypeOK, StageOK, ShownBest, AnswersCiteShown,
                RefusalIsFree
  <2>3. QED
    BY <2>1, <2>2
<1>2. QED
  BY <1>1, InitIInv, PTL DEF Spec

\* The request, what is retrieved and said, and the response keep to their
\* types; the responses are those of AnswerContract.
THEOREM TypeCorrect == Spec => []TypeOK
<1>1. IInv => TypeOK
  BY DEF IInv
<1>2. QED
  BY <1>1, Invariant, PTL

\* Whatever the model cites, an answer cites only passages that the reranker
\* kept as the best ones and that were in the prompt (ask.py:66-99).
THEOREM CitationsWereShown == Spec => []CitedWasShown
<1>1. IInv => CitedWasShown
  BY DEF IInv, AnswersCiteShown, ShownBest, CitedWasShown
<1>2. QED
  BY <1>1, Invariant, PTL

\* A refusal for want of passages costs no call of the model and only it does
\* not; an answer costs at most three, whatever fails (ask.py:123-133).
THEOREM RefusalsAreFree == Spec => []RefusalIsFree
<1>1. IInv => RefusalIsFree
  BY DEF IInv
<1>2. QED
  BY <1>1, Invariant, PTL

\* The stages of a request in which it is being served.
Busy == stage \in {"retrieve", "rerank", "llm"}

\* A step of the server leaves the request where it is for its client, or
\* responds.
LEMMA ServeMoves ==
  ASSUME Serve
  PROVE  Busy /\ (stage' = "done" \/ (Busy' /\ UNCHANGED resp))
  BY DEF Serve, FindNothing, FindPassages, RetrievalFails, Rerank, RerankFails, CohereErrs,
         LlmErrs, LlmRefuses, LlmAnswers, AfterRerank, Raise, Respond, Busy

\* Every step is one of the contract or is not seen by the client.
LEMMA StepIsContract ==
  ASSUME IInv, IInv', [Next]_vars
  PROVE  [Contract!Ask \/ Contract!Respond \/ Contract!Forget]_<<Busy, resp>>
<1>1. CASE Begin
  BY <1>1 DEF Begin, Contract!Ask, Busy, IInv, StageOK
<1>2. CASE Serve
  <2>1. CASE stage' = "done"
    <3>1. resp' \in Contract!Responses
      BY <2>1 DEF IInv, TypeOK, StageOK
    <3>2. QED
      BY <1>2, <2>1, <3>1, ServeMoves DEF Contract!Respond, Busy
  <2>2. CASE Busy' /\ UNCHANGED resp
    BY <1>2, <2>2, ServeMoves DEF Busy
  <2>3. QED
    BY <1>2, <2>1, <2>2, ServeMoves
<1>3. CASE End
  BY <1>3 DEF End, Contract!Forget, Busy, IInv, StageOK
<1>4. CASE UNCHANGED vars
  BY <1>4 DEF vars, Busy
<1>5. QED
  BY <1>1, <1>2, <1>3, <1>4 DEF Next

\* /ask and /search keep what AnswerContract promises their clients: a response
\* for every request, confidence backed by a citation, and refusals and outages
\* that say what they are.
THEOREM AskImplementsContract == Spec => ImplementsContract
<1>1. Init => Contract!ContractInit
  BY DEF Init, Contract!ContractInit
<1>2. IInv /\ IInv' /\ [Next]_vars
        => [Contract!Ask \/ Contract!Respond \/ Contract!Forget]_<<Busy, resp>>
  BY StepIsContract
<1>3. QED
  BY <1>1, <1>2, Invariant, PTL DEF Spec, ImplementsContract, Contract!ContractSpec, Busy
=============================================================================
