-------------------------- MODULE EvaluationProofs --------------------------
(* Proofs about Evaluation, for any number of items, documents, corpora,    *)
(* runs and seconds, any limit and any number of permits.                   *)
EXTENDS Evaluation, FiniteSetTheorems, TLAPS

\* The passages of item i with this top_k when the corpus is c.
RankedIn(c, i, top) ==
    SubSeq(Found[c][i], 1, IF top < Len(Found[c][i]) THEN top ELSE Len(Found[c][i]))

\* Run r did not finish the sidecar of stamp s, or another run wrote to it too.
Answers(r, s) ==
    /\ started[r] = s
    /\ stage[r] # "done" \/ \E q \in Opened \ {r} : started[q] = s

\* What is retrieved, and cited, for an item comes from one corpus each, and
\* the second is not the older one.
Provenance ==
    \A i \in Items :
        /\ pc[i] \in {"waiting", "search", "ask"} => outcome[i] = "none"
        /\ pc[i] = "judge" => outcome[i] = "ok"
        /\ pc[i] = "done" => outcome[i] \in {"ok", "error"}
        /\ pc[i] \in {"waiting", "search", "ask"} => scores[i] = "none"
        /\ pc[i] = "ask" \/ outcome[i] = "ok" =>
              /\ seen[i] \in 1 .. corpus
              /\ retrieved[i] = RankedIn(seen[i], i, SearchDepth)
        /\ outcome[i] = "ok" =>
              /\ asked[i] \in seen[i] .. corpus
              /\ cited[i] \subseteq DocsOf(RankedIn(asked[i], i, TopK))
        /\ scores[i] # "none" => outcome[i] = "ok"
        /\ i \notin Selected => pc[i] = "unused"

\* Before the watched run starts nothing has happened to its items.
Fresh ==
    stage[Watched] = "new" =>
        /\ permits = Concurrency
        /\ \A i \in Items : pc[i] = "unused" /\ outcome[i] = "none" /\ scores[i] = "none"

\* Once the items are gathered none of them moves, and the summary is theirs.
Settled ==
    stage[Watched] \in {"gathered", "md", "json", "done"} =>
        /\ \A i \in Items : pc[i] \in {"unused", "done"}
        /\ \A i \in Selected : pc[i] = "done"
        /\ summary = Aggregate

\* A sidecar is that of a run which opened it, with a report beside it, and a
\* run that opened one has it.
FilesBelong ==
    /\ \A s \in Written : sidecar[s].by \in Opened /\ started[sidecar[s].by] = s
    /\ \A r \in Opened : started[r] \in Written
    /\ \A r \in Runs : stage[r] \in {"md", "json", "done", "cut"} => started[r] \in reports
    /\ \A s \in Stamps : sidecar[s].writers \subseteq {q \in Opened : started[q] = s}
    /\ \A r \in Runs : stage[r] = "json" => r \in sidecar[started[r]].writers

\* A whole sidecar is that of the run of its second that finished last, and
\* there is a run to answer for one that is not whole.
WholeIsFinished ==
    /\ \A n \in DOMAIN finished : stage[finished[n]] = "done"
    /\ \A s \in Written : sidecar[s].whole = "yes" =>
          \E n \in DOMAIN finished :
              /\ finished[n] = sidecar[s].by
              /\ \A m \in DOMAIN finished : started[finished[m]] = s => m <= n
    /\ \A s \in Written : sidecar[s].whole = "no" => \E r \in Opened : Answers(r, s)

\* The names of the sidecars have a last one.
HasLatest == Written # {} => \E t \in Written : \A s \in Written : s <= t

Files == FilesBelong /\ WholeIsFinished /\ HasLatest

EInv == TypeOK /\ Provenance /\ Fresh /\ Settled /\ Files /\ PermitsAddUp

-----------------------------------------------------------------------------
(* Types.                                                                   *)

\* The selection is of items.
LEMMA SelectedItems == Selected \subseteq Items
BY DEF Selected

\* The search is at least as deep as the question.
LEMMA DepthOrder == SearchDepth \in Nat /\ TopK <= SearchDepth /\ SearchDepth > 0
BY ConstantsAssumption DEF SearchDepth

\* A prefix of a ranking is a sequence of documents.
LEMMA RankedType ==
    ASSUME NEW c \in Corpora, NEW i \in Items, NEW top \in Nat
    PROVE  RankedIn(c, i, top) \in Seq(Docs)
<1>1. Found[c][i] \in Seq(Docs)
  BY ConstantsAssumption
<1> QED BY <1>1 DEF RankedIn

\* What a shallower search returns is in what a deeper one returns.
LEMMA DeeperHasMore ==
    ASSUME NEW c \in Corpora, NEW i \in Items
    PROVE  DocsOf(RankedIn(c, i, TopK)) \subseteq DocsOf(RankedIn(c, i, SearchDepth))
<1> DEFINE s == Found[c][i]
<1>1. s \in Seq(Docs) /\ TopK \in Nat /\ SearchDepth \in Nat /\ TopK <= SearchDepth
  BY ConstantsAssumption, DepthOrder
<1>2. Len(s) \in Nat
  BY <1>1
<1> DEFINE p == IF TopK < Len(s) THEN TopK ELSE Len(s)
           q == IF SearchDepth < Len(s) THEN SearchDepth ELSE Len(s)
<1>3. p \in Nat /\ q \in Nat /\ p <= q /\ q <= Len(s)
  BY <1>1, <1>2
<1>4. \A k \in DOMAIN SubSeq(s, 1, p) :
         k \in DOMAIN SubSeq(s, 1, q) /\ SubSeq(s, 1, p)[k] = SubSeq(s, 1, q)[k]
  <2> HIDE DEF s, p, q
  <2> QED BY <1>1, <1>3
<1> QED BY <1>4 DEF RankedIn, DocsOf

\* The ranking the API gives now is that of its corpus.
LEMMA RankedNow == \A i, top : Ranked(i, top) = RankedIn(corpus, i, top)
BY DEF Ranked, RankedIn

LEMMA AggregateType ==
    Aggregate \in [errors : SUBSET Items, recall : SUBSET Items,
                   citation : SUBSET Items, judged : SUBSET Items]
BY SelectedItems DEF Aggregate, Errors

LEMMA TypeInit == Init => TypeOK
BY ConstantsAssumption DEF Init, TypeOK, ItemTypeOK, NoSummary, NoSidecar, Corpora, Stamps

LEMMA TypeStep == TypeOK /\ [Next]_vars => TypeOK'
<1> SUFFICES ASSUME TypeOK, [Next]_vars PROVE TypeOK'
  OBVIOUS
<1> USE ConstantsAssumption DEF TypeOK, ItemTypeOK
<1>1. CASE Ingest
  BY <1>1 DEF Ingest, Corpora, itemVars, runVars, fileVars
<1>2. CASE Tick
  BY <1>2 DEF Tick, Stamps, itemVars, runVars, fileVars
<1>3. ASSUME NEW r \in Runs, Begin(r) PROVE TypeOK'
  BY <1>3 DEF Begin, Stamps, fileVars, Holding, UnderWay
<1>4. ASSUME NEW r \in Runs, Crash(r) PROVE TypeOK'
  BY <1>4 DEF Crash, Stamps, fileVars, UnderWay, Over
<1>5. ASSUME NEW r \in Runs, Gather(r) PROVE TypeOK'
  BY <1>5, AggregateType DEF Gather, itemVars, fileVars, UnderWay
<1>6. ASSUME NEW r \in Runs, WriteReport(r) PROVE TypeOK'
  BY <1>6 DEF WriteReport, itemVars, Stamps, UnderWay
<1>7. ASSUME NEW r \in Runs, OpenSidecar(r) PROVE TypeOK'
  BY <1>7 DEF OpenSidecar, itemVars, Stamps, UnderWay, Writers
<1>8. ASSUME NEW r \in Runs, WriteSidecar(r) PROVE TypeOK'
  <2>1. PICK whole \in {"yes", "no"} : sidecar' = [sidecar EXCEPT ![started[r]] =
            [by |-> r, whole |-> whole, writers |-> @.writers]]
    BY <1>8 DEF WriteSidecar
  <2>2. finished' \in Seq(Runs)
    BY <1>8 DEF WriteSidecar
  <2> QED BY <1>8, <2>1, <2>2 DEF WriteSidecar, itemVars, Stamps, UnderWay, Over
<1>15. ASSUME NEW r \in Runs, WritePart(r) PROVE TypeOK'
  BY <1>15 DEF WritePart, itemVars, runVars, Stamps
<1>9. ASSUME NEW i \in Items, Acquire(i) PROVE TypeOK'
  BY <1>9 DEF Acquire, Holding, runVars, fileVars
<1>10. ASSUME NEW i \in Items, SearchReturns(i) PROVE TypeOK'
  <2>1. Ranked(i, SearchDepth) \in Seq(Docs)
    BY RankedNow, RankedType, DepthOrder
  <2> QED BY <1>10, <2>1 DEF SearchReturns, Holding, runVars, fileVars, Corpora
<1>11. ASSUME NEW i \in Items, AskReturns(i) PROVE TypeOK'
  <2>1. Ranked(i, TopK) \in Seq(Docs)
    BY RankedNow, RankedType
  <2>2. DocsOf(Ranked(i, TopK)) \subseteq Docs
    BY <2>1 DEF DocsOf
  <2>3. PICK S \in SUBSET DocsOf(Ranked(i, TopK)) : cited' = [cited EXCEPT ![i] = S]
    BY <1>11 DEF AskReturns
  <2>4. cited' \in [Items -> SUBSET Docs]
    BY <2>2, <2>3
  <2>5. pc' \in [Items -> {"unused", "waiting", "done"} \cup Holding] /\ permits' \in Nat
    <3>1. \/ pc' = [pc EXCEPT ![i] = "judge"] /\ permits' = permits
          \/ pc' = [pc EXCEPT ![i] = "done"] /\ permits' = permits + 1
      BY <1>11, Zenon DEF AskReturns, Release
    <3>2. pc \in [Items -> {"unused", "waiting", "done"} \cup Holding] /\ permits \in Nat
      BY Zenon DEF TypeOK, ItemTypeOK
    <3>3. permits' \in Nat
      <4> HIDE ConstantsAssumption DEF TypeOK, ItemTypeOK
      <4> QED BY <3>1, <3>2
    <3>4. pc' \in [Items -> {"unused", "waiting", "done"} \cup Holding]
      <4> HIDE ConstantsAssumption DEF TypeOK, ItemTypeOK
      <4> QED BY <3>1, <3>2 DEF Holding
    <3> QED BY <3>3, <3>4
  <2> QED BY <1>11, <2>4, <2>5 DEF AskReturns, runVars, fileVars, Corpora
<1>12. ASSUME NEW i \in Items, CallFails(i) PROVE TypeOK'
  BY <1>12 DEF CallFails, Release, Holding, runVars, fileVars
<1>13. ASSUME NEW i \in Items, JudgeReturns(i) PROVE TypeOK'
  BY <1>13 DEF JudgeReturns, Release, Holding, runVars, fileVars
<1>14. CASE UNCHANGED vars
  BY <1>14 DEF vars, itemVars, runVars, fileVars
<1> QED
  BY <1>1, <1>2, <1>3, <1>4, <1>5, <1>6, <1>7, <1>8, <1>9, <1>10, <1>11, <1>12,
     <1>13, <1>14, <1>15 DEF Next, Write, ItemStep

\* Every variable of the harness has its type (run_eval.py:38-82).
THEOREM EvaluationTypes == Spec => []TypeOK
BY TypeInit, TypeStep, PTL DEF Spec
-----------------------------------------------------------------------------
(* Where citations come from.                                               *)

LEMMA ProvenanceInit == Init => Provenance
BY ConstantsAssumption DEF Init, Provenance

LEMMA ProvenanceStep == TypeOK /\ Provenance /\ Fresh /\ [Next]_vars => Provenance'
<1> SUFFICES ASSUME TypeOK, Provenance, Fresh, [Next]_vars PROVE Provenance'
  OBVIOUS
<1>t. /\ pc \in [Items -> {"unused", "waiting", "done", "search", "ask", "judge"}]
      /\ retrieved \in [Items -> Seq(Docs)]
      /\ seen \in [Items -> Nat] /\ asked \in [Items -> Nat]
      /\ cited \in [Items -> SUBSET Docs]
      /\ outcome \in [Items -> {"none", "ok", "error"}]
      /\ scores \in [Items -> {"none", "given"}]
      /\ corpus \in 1 .. MaxCorpus /\ MaxCorpus \in Nat
  BY ConstantsAssumption DEF TypeOK, ItemTypeOK, Holding, Corpora
<1>s. Selected' = Selected /\ SearchDepth' = SearchDepth
  BY DEF Selected, SearchDepth
<1>1. CASE Ingest
  <2>1. corpus' = corpus + 1 /\ UNCHANGED itemVars
    BY <1>1 DEF Ingest
  <2> QED BY <1>t, <1>s, <2>1 DEF Provenance, itemVars
<1>2. ASSUME NEW r \in Runs, Begin(r) PROVE Provenance'
  <2>0. UNCHANGED <<corpus, retrieved, seen, cited, asked, outcome, scores>>
    BY <1>2 DEF Begin
  <2>1. CASE r = Watched
    <3>1. /\ pc' = [i \in Items |-> IF i \in Selected THEN "waiting" ELSE "unused"]
          /\ \A i \in Items : outcome[i] = "none" /\ scores[i] = "none"
      BY <1>2, <2>1 DEF Begin, Fresh
    <3> QED BY <1>t, <1>s, <2>0, <3>1 DEF Provenance
  <2>2. CASE r # Watched
    BY <1>2, <1>s, <2>0, <2>2 DEF Begin, Provenance
  <2> QED BY <2>1, <2>2
<1>3. ASSUME NEW r \in Runs, Crash(r) PROVE Provenance'
  <2>0. UNCHANGED <<corpus, retrieved, seen, cited, asked, outcome, scores>>
    BY <1>3 DEF Crash
  <2>1. pc' = pc \/ pc' = [i \in Items |-> "unused"]
    BY <1>3 DEF Crash
  <2> QED BY <1>t, <1>s, <2>0, <2>1 DEF Provenance
<1>4. ASSUME NEW j \in Items, Acquire(j) PROVE Provenance'
  BY <1>t, <1>4 DEF Acquire, Provenance
<1>5. ASSUME NEW j \in Items, SearchReturns(j) PROVE Provenance'
  <2>1. /\ pc[j] = "search" /\ pc' = [pc EXCEPT ![j] = "ask"]
        /\ retrieved' = [retrieved EXCEPT ![j] = RankedIn(corpus, j, SearchDepth)]
        /\ seen' = [seen EXCEPT ![j] = corpus]
        /\ UNCHANGED <<corpus, cited, asked, outcome, scores>>
    BY <1>5, RankedNow DEF SearchReturns
  <2> QED BY <1>t, <2>1 DEF Provenance
<1>6. ASSUME NEW j \in Items, AskReturns(j) PROVE Provenance'
  <2>1. PICK S \in SUBSET DocsOf(RankedIn(corpus, j, TopK)) :
                cited' = [cited EXCEPT ![j] = S]
    BY <1>6, RankedNow DEF AskReturns
  <2>2. PICK next \in {"judge", "done"} : pc' = [pc EXCEPT ![j] = next]
    BY <1>6, Zenon DEF AskReturns, Release
  <2>3. /\ pc[j] = "ask"
        /\ asked' = [asked EXCEPT ![j] = corpus]
        /\ outcome' = [outcome EXCEPT ![j] = "ok"]
        /\ UNCHANGED <<corpus, retrieved, seen, scores>>
    BY <1>6 DEF AskReturns
  <2> QED BY <1>t, <2>1, <2>2, <2>3 DEF Provenance
<1>7. ASSUME NEW j \in Items, CallFails(j) PROVE Provenance'
  BY <1>t, <1>7 DEF CallFails, Release, Provenance
<1>8. ASSUME NEW j \in Items, JudgeReturns(j) PROVE Provenance'
  BY <1>t, <1>8 DEF JudgeReturns, Release, Provenance
<1>9. CASE Tick \/ (\E r \in Runs : Write(r) \/ WritePart(r)) \/ UNCHANGED vars
  <2>1. UNCHANGED <<corpus, itemVars>>
    BY <1>9 DEF Tick, Write, Gather, WriteReport, OpenSidecar, WriteSidecar, WritePart, vars
  <2> QED BY <2>1, <1>s DEF Provenance, itemVars
<1> QED
  BY <1>1, <1>2, <1>3, <1>4, <1>5, <1>6, <1>7, <1>8, <1>9 DEF Next, ItemStep

\* With the search in the same corpus as the question, all citations are found.
LEMMA ProvenanceExplains == TypeOK /\ Provenance => MissedCitationExplained
<1> SUFFICES ASSUME TypeOK, Provenance, NEW i \in Items, outcome[i] = "ok",
                    ~(cited[i] \subseteq DocsOf(retrieved[i]))
             PROVE  seen[i] < asked[i]
  BY DEF MissedCitationExplained
<1>1. /\ corpus \in Corpora /\ seen[i] \in 1 .. corpus /\ asked[i] \in seen[i] .. corpus
      /\ seen[i] \in Nat /\ asked[i] \in Nat
      /\ retrieved[i] = RankedIn(seen[i], i, SearchDepth)
      /\ cited[i] \subseteq DocsOf(RankedIn(asked[i], i, TopK))
  BY DEF TypeOK, ItemTypeOK, Provenance
<1>2. seen[i] \in Corpora
  BY <1>1, ConstantsAssumption DEF Corpora
<1>3. seen[i] # asked[i]
  BY <1>1, <1>2, DeeperHasMore
<1> QED BY <1>1, <1>3

-----------------------------------------------------------------------------
(* The report is that of its items.                                         *)

\* A step of an item is one of a run that has begun and has not gathered them.
LEMMA ItemStepStage ==
    ASSUME TypeOK, Fresh, Settled, NEW i \in Items, ItemStep(i)
    PROVE  /\ UNCHANGED <<stage, started, clock, summary, fileVars>>
           /\ stage[Watched] \notin {"new", "gathered", "md", "json", "done"}
<1>1. pc[i] \notin {"unused", "done"}
  BY DEF ItemStep, Acquire, SearchReturns, AskReturns, CallFails, JudgeReturns
<1>2. UNCHANGED <<stage, started, clock, summary, fileVars>>
  BY DEF ItemStep, Acquire, SearchReturns, AskReturns, CallFails, JudgeReturns, runVars
<1> QED BY <1>1, <1>2 DEF Fresh, Settled

LEMMA FreshInit == Init => Fresh
BY DEF Init, Fresh

LEMMA FreshStep == TypeOK /\ Fresh /\ Settled /\ [Next]_vars => Fresh'
<1> SUFFICES ASSUME TypeOK, Fresh, Settled, [Next]_vars PROVE Fresh'
  OBVIOUS
<1>t. Watched \in Runs /\ stage \in [Runs -> {"new"} \cup UnderWay \cup Over]
  BY ConstantsAssumption DEF TypeOK
<1>1. ASSUME NEW r \in Runs, Begin(r) \/ Crash(r) \/ Write(r) \/ WritePart(r) PROVE Fresh'
  <2>1. stage'[Watched] = "new" => stage[Watched] = "new" /\ (r # Watched \/ pc' = pc)
    BY <1>t, <1>1 DEF Begin, Crash, Write, Gather, WriteReport, OpenSidecar,
       WriteSidecar, WritePart, UnderWay, Over, runVars, itemVars
  <2>2. UNCHANGED <<permits, outcome, scores>> /\ (r # Watched => pc' = pc)
    BY <1>1 DEF Begin, Crash, Write, Gather, WriteReport, OpenSidecar,
       WriteSidecar, WritePart, runVars, itemVars
  <2> QED BY <2>1, <2>2 DEF Fresh
<1>2. ASSUME NEW i \in Items, ItemStep(i) PROVE Fresh'
  BY <1>2, ItemStepStage DEF Fresh
<1>3. CASE Ingest \/ Tick \/ UNCHANGED vars
  BY <1>3 DEF Ingest, Tick, vars, runVars, itemVars, Fresh
<1> QED BY <1>1, <1>2, <1>3 DEF Next

LEMMA SettledInit == Init => Settled
BY ConstantsAssumption DEF Init, Settled

LEMMA SettledStep == TypeOK /\ Provenance /\ Fresh /\ Settled /\ [Next]_vars => Settled'
<1> SUFFICES ASSUME TypeOK, Provenance, Fresh, Settled, [Next]_vars PROVE Settled'
  OBVIOUS
<1>s. Selected' = Selected
  BY DEF Selected
<1>t. Watched \in Runs /\ stage \in [Runs -> {"new"} \cup UnderWay \cup Over]
  BY ConstantsAssumption DEF TypeOK
<1>1. ASSUME UNCHANGED <<itemVars, summary>>,
             stage'[Watched] \in {"gathered", "md", "json", "done"} =>
                 stage[Watched] \in {"gathered", "md", "json", "done"}
      PROVE  Settled'
  <2>1. Aggregate' = Aggregate
    BY <1>s, <1>1 DEF Aggregate, Errors, itemVars
  <2> QED BY <1>s, <1>1, <2>1 DEF Settled, itemVars
<1>2. CASE Ingest \/ Tick \/ UNCHANGED vars
  BY <1>1, <1>2 DEF Ingest, Tick, vars, runVars
<1>3. ASSUME NEW r \in Runs, WriteReport(r) \/ OpenSidecar(r) \/ WriteSidecar(r) \/ WritePart(r)
      PROVE  Settled'
  <2>1. UNCHANGED <<itemVars, summary>>
    BY <1>3 DEF WriteReport, OpenSidecar, WriteSidecar, WritePart, itemVars, runVars
  <2>2. stage'[Watched] \in {"gathered", "md", "json", "done"} =>
            stage[Watched] \in {"gathered", "md", "json", "done"}
    BY <1>t, <1>3 DEF WriteReport, OpenSidecar, WriteSidecar, WritePart, runVars
  <2> QED BY <1>1, <2>1, <2>2
<1>4. ASSUME NEW r \in Runs, Begin(r) \/ Crash(r) PROVE Settled'
  <2>1. CASE r = Watched
    BY <1>t, <1>4, <2>1 DEF Begin, Crash, Settled
  <2>2. CASE r # Watched
    <3>1. UNCHANGED <<itemVars, summary>> /\ stage'[Watched] = stage[Watched]
      BY <1>t, <1>4, <2>2 DEF Begin, Crash, itemVars
    <3> QED BY <1>1, <3>1
  <2> QED BY <2>1, <2>2
<1>5. ASSUME NEW r \in Runs, Gather(r) PROVE Settled'
  <2>1. CASE r = Watched
    <3>1. Aggregate' = Aggregate
      BY <1>s, <1>5 DEF Gather, Aggregate, Errors, itemVars
    <3>2. \A i \in Items : i \notin Selected => pc[i] = "unused"
      BY DEF Provenance
    <3>3. UNCHANGED itemVars /\ summary' = Aggregate /\ \A i \in Selected : pc[i] = "done"
      BY <1>5, <2>1 DEF Gather
    <3> QED BY <1>s, <3>1, <3>2, <3>3 DEF Settled, itemVars
  <2>2. CASE r # Watched
    <3>1. UNCHANGED <<itemVars, summary>> /\ stage'[Watched] = stage[Watched]
      BY <1>t, <1>5, <2>2 DEF Gather, itemVars
    <3> QED BY <1>1, <3>1
  <2> QED BY <2>1, <2>2
<1>6. ASSUME NEW i \in Items, ItemStep(i) PROVE Settled'
  BY <1>6, ItemStepStage DEF Settled
<1> QED BY <1>2, <1>3, <1>4, <1>5, <1>6 DEF Next, Write

LEMMA SettledAccounts == TypeOK /\ Provenance /\ Settled => AggregatesAccount
<1> SUFFICES ASSUME TypeOK, Provenance, Settled,
                    stage[Watched] \in {"gathered", "md", "json", "done"}
             PROVE  /\ Cardinality(summary.errors) + Cardinality(summary.citation)
                          = Cardinality(Selected)
                    /\ \A i \in summary.recall \cup summary.judged :
                          outcome[i] = "ok" /\ seen[i] # 0 /\ asked[i] # 0
                    /\ \A i \in summary.citation \ summary.judged : scores[i] = "none"
  BY DEF AggregatesAccount
<1>1. /\ \A i \in Selected : pc[i] = "done" /\ outcome[i] \in {"ok", "error"}
      /\ summary = Aggregate
  BY SelectedItems DEF Settled, Provenance
<1>2. Cardinality(Errors) + Cardinality(Selected \ Errors) = Cardinality(Selected)
  <2>1. IsFiniteSet(Items)
    BY ConstantsAssumption, FS_Interval DEF Items
  <2>2. IsFiniteSet(Selected)
    BY <2>1, SelectedItems, FS_Subset
  <2>3. /\ IsFiniteSet(Errors) /\ IsFiniteSet(Selected \ Errors)
        /\ Errors \cap (Selected \ Errors) = {} /\ Errors \cup (Selected \ Errors) = Selected
    BY <2>2, FS_Subset DEF Errors
  <2>4. /\ Cardinality(Errors) \in Nat /\ Cardinality(Selected \ Errors) \in Nat
        /\ Cardinality({}) = 0
    BY <2>3, FS_CardinalityType, FS_EmptySet
  <2>5. Cardinality(Errors \cup (Selected \ Errors))
           = Cardinality(Errors) + Cardinality(Selected \ Errors)
               - Cardinality(Errors \cap (Selected \ Errors))
    BY <2>3, FS_Union
  <2>6. Cardinality(Errors \cup (Selected \ Errors)) = Cardinality(Selected)
    BY <2>3, Zenon
  <2>7. Cardinality(Errors \cap (Selected \ Errors)) = 0
    BY <2>3, <2>4, Zenon
  <2> QED BY <2>4, <2>5, <2>6, <2>7
<1>3. \A i \in summary.recall \cup summary.judged :
         outcome[i] = "ok" /\ seen[i] # 0 /\ asked[i] # 0
  <2> SUFFICES ASSUME NEW i \in summary.recall \cup summary.judged
               PROVE  outcome[i] = "ok" /\ seen[i] # 0 /\ asked[i] # 0
    OBVIOUS
  <2>1. i \in Selected /\ i \in Items /\ (i \notin Errors \/ scores[i] # "none")
    BY <1>1, SelectedItems DEF Aggregate
  <2>2. outcome[i] = "ok"
    BY <1>1, <2>1 DEF Errors, Provenance
  <2>3. seen[i] \in 1 .. corpus /\ asked[i] \in seen[i] .. corpus
    BY <2>1, <2>2 DEF Provenance
  <2> QED BY <2>2, <2>3
<1>4. \A i \in summary.citation \ summary.judged : scores[i] = "none"
  BY <1>1 DEF Aggregate
<1> QED BY <1>1, <1>2, <1>3, <1>4 DEF Aggregate

-----------------------------------------------------------------------------
(* The permits.                                                             *)

LEMMA InFlightFinite ==
    /\ IsFiniteSet(InFlight) /\ Cardinality(InFlight) \in Nat
    /\ IsFiniteSet(InFlight') /\ Cardinality(InFlight') \in Nat
<1>1. IsFiniteSet(Items)
  BY ConstantsAssumption, FS_Interval DEF Items
<1>2. InFlight \subseteq Items /\ InFlight' \subseteq Items
  BY DEF InFlight
<1> QED BY <1>1, <1>2, FS_Subset, FS_CardinalityType

LEMMA PermitsInit == Init => PermitsAddUp
<1> SUFFICES ASSUME Init PROVE stage[Watched] # "items"
  BY DEF PermitsAddUp
<1> QED BY ConstantsAssumption DEF Init

LEMMA PermitsStep ==
    TypeOK /\ Fresh /\ Settled /\ PermitsAddUp /\ [Next]_vars => PermitsAddUp'
<1> SUFFICES ASSUME TypeOK, Fresh, Settled, PermitsAddUp, [Next]_vars,
                    stage'[Watched] = "items"
             PROVE  Cardinality(InFlight') + permits' = Concurrency
  BY DEF PermitsAddUp
<1>t. permits \in Nat /\ Concurrency \in Nat /\ pc \in [Items -> {"unused", "waiting",
        "done", "search", "ask", "judge"}]
  BY ConstantsAssumption, Zenon DEF TypeOK, ItemTypeOK, Holding
<1>w. Watched \in Runs /\ stage \in [Runs -> {"new"} \cup UnderWay \cup Over]
  BY ConstantsAssumption DEF TypeOK
<1>1. ASSUME UNCHANGED <<pc, permits>>, stage'[Watched] = stage[Watched]
      PROVE  Cardinality(InFlight') + permits' = Concurrency
  <2>1. InFlight' = InFlight
    BY <1>1 DEF InFlight
  <2> QED BY <1>1, <2>1 DEF PermitsAddUp
<1>2. ASSUME NEW r \in Runs, Begin(r) \/ Crash(r) \/ Write(r) \/ WritePart(r)
      PROVE  Cardinality(InFlight') + permits' = Concurrency
  <2>1. CASE r = Watched
    <3>1. Begin(r) \/ WritePart(r)
      BY <1>w, <1>2, <2>1 DEF Crash, Write, Gather, WriteReport, OpenSidecar, WriteSidecar
    <3>2. ~WritePart(r)
      BY <1>w, <2>1 DEF WritePart, runVars
    <3>3. Begin(r)
      BY <3>1, <3>2
    <3>4. InFlight' = {} /\ permits' = Concurrency
      BY <1>w, <2>1, <3>3 DEF Begin, InFlight, Holding, Fresh
    <3> QED BY <1>t, <3>4, FS_EmptySet
  <2>2. CASE r # Watched
    <3>1. UNCHANGED <<pc, permits>> /\ stage'[Watched] = stage[Watched]
      BY <1>w, <1>2, <2>2 DEF Begin, Crash, Write, Gather, WriteReport, OpenSidecar,
         WriteSidecar, WritePart, runVars, itemVars
    <3> QED BY <1>1, <3>1
  <2> QED BY <2>1, <2>2
<1>3. CASE Ingest \/ Tick \/ UNCHANGED vars
  <2>1. UNCHANGED <<pc, permits>> /\ stage'[Watched] = stage[Watched]
    BY <1>3 DEF Ingest, Tick, vars, itemVars, runVars
  <2> QED BY <1>1, <2>1
<1>4. ASSUME NEW i \in Items, Acquire(i) PROVE Cardinality(InFlight') + permits' = Concurrency
  <2>1. /\ InFlight' = InFlight \cup {i} /\ i \notin InFlight
        /\ permits' = permits - 1 /\ stage[Watched] = "items"
    BY <1>t, <1>4 DEF Acquire, InFlight, Holding
  <2>2. Cardinality(InFlight \cup {i}) = Cardinality(InFlight) + 1
    BY <2>1, InFlightFinite, FS_AddElement
  <2> QED BY <1>t, <2>1, <2>2, InFlightFinite DEF PermitsAddUp
<1>5. ASSUME NEW i \in Items, pc[i] \in Holding, Release(i), stage[Watched] = "items"
      PROVE  Cardinality(InFlight') + permits' = Concurrency
  <2>1. /\ InFlight' = InFlight \ {i} /\ i \in InFlight /\ permits' = permits + 1
    BY <1>t, <1>5 DEF Release, InFlight, Holding
  <2>2. Cardinality(InFlight \ {i}) = Cardinality(InFlight) - 1
    BY <2>1, InFlightFinite, FS_RemoveElement
  <2> QED BY <1>t, <1>5, <2>1, <2>2, InFlightFinite DEF PermitsAddUp
<1>6. ASSUME NEW i \in Items, pc[i] \in Holding, NEW next \in Holding,
             pc' = [pc EXCEPT ![i] = next], permits' = permits, stage[Watched] = "items"
      PROVE  Cardinality(InFlight') + permits' = Concurrency
  <2>1. InFlight' = InFlight
    BY <1>t, <1>6 DEF InFlight, Holding
  <2> QED BY <1>6, <2>1 DEF PermitsAddUp
<1>7. ASSUME NEW i \in Items, ItemStep(i)
      PROVE  Cardinality(InFlight') + permits' = Concurrency
  <2>1. stage[Watched] = "items"
    BY <1>7, ItemStepStage
  <2>2. CASE Acquire(i)
    BY <1>4, <2>2
  <2>3. CASE SearchReturns(i)
    BY <1>6, <2>1, <2>3 DEF SearchReturns, Holding
  <2>4. CASE AskReturns(i)
    <3>1. /\ pc[i] = "ask"
          /\ \/ pc' = [pc EXCEPT ![i] = "judge"] /\ permits' = permits
             \/ Release(i)
      BY <2>4, Zenon DEF AskReturns
    <3> QED BY <1>5, <1>6, <2>1, <3>1 DEF Holding
  <2>5. CASE CallFails(i)
    BY <1>5, <2>1, <2>5 DEF CallFails, Holding
  <2>6. CASE JudgeReturns(i)
    BY <1>5, <2>1, <2>6 DEF JudgeReturns, Holding
  <2> QED BY <1>7, <2>2, <2>3, <2>4, <2>5, <2>6 DEF ItemStep
<1> QED BY <1>1, <1>2, <1>3, <1>7 DEF Next

-----------------------------------------------------------------------------
(* The files.                                                               *)

LEMMA FilesInit == Init => Files
<1> SUFFICES ASSUME Init PROVE Files
  OBVIOUS
<1>1. Written = {} /\ Opened = {} /\ DOMAIN finished = {}
  BY DEF Init, Written, Opened, NoSidecar
<1> QED BY <1>1 DEF Init, Files, FilesBelong, WholeIsFinished, HasLatest, NoSidecar

\* A step that leaves the files alone, opens no sidecar and ends no run that is
\* writing one, but for its death, keeps what is said of them.
LEMMA FilesOnly ==
    ASSUME TypeOK, Files, UNCHANGED fileVars, Opened' = Opened,
           \A r \in Opened : started'[r] = started[r],
           \A r \in Runs : /\ stage'[r] = "done" <=> stage[r] = "done"
                           /\ stage'[r] = "json" => stage[r] = "json"
                           /\ stage'[r] \in {"md", "json", "done", "cut"} =>
                                  /\ stage[r] \in {"md", "json", "done", "cut"}
                                  /\ started'[r] = started[r]
    PROVE  Files'
<1>1. Written' = Written
  BY DEF Written, fileVars
<1>t. /\ sidecar \in [Stamps -> [by : Runs \cup {None}, whole : {"yes", "no"},
                               writers : SUBSET Runs]]
      /\ finished \in Seq(Runs) /\ Opened \subseteq Runs
      /\ UNCHANGED <<sidecar, finished, reports>>
  BY DEF TypeOK, Opened, fileVars
<1>2. FilesBelong'
  <2>1. \A s \in Written' : sidecar'[s].by \in Opened' /\ started'[sidecar'[s].by] = s
    BY <1>1, <1>t DEF Files, FilesBelong
  <2>2. \A r \in Opened' : started'[r] \in Written'
    BY <1>1, <1>t DEF Files, FilesBelong
  <2>3. \A r \in Runs : stage'[r] \in {"md", "json", "done", "cut"} => started'[r] \in reports'
    BY <1>t DEF Files, FilesBelong
  <2>4. \A s \in Stamps : sidecar'[s].writers \subseteq {q \in Opened' : started'[q] = s}
    BY <1>t DEF Files, FilesBelong
  <2>5. \A r \in Runs : stage'[r] = "json" => r \in sidecar'[started'[r]].writers
    BY <1>t DEF Files, FilesBelong
  <2> QED BY <2>1, <2>2, <2>3, <2>4, <2>5 DEF FilesBelong
<1>3. \A n \in DOMAIN finished : finished[n] \in Opened
  BY <1>t DEF Files, WholeIsFinished, Opened
<1>4. WholeIsFinished'
  <2>1. \A n \in DOMAIN finished' : stage'[finished'[n]] = "done"
    BY <1>t DEF Files, WholeIsFinished
  <2>2. \A s \in Written' : sidecar'[s].whole = "yes" =>
          \E n \in DOMAIN finished' :
              /\ finished'[n] = sidecar'[s].by
              /\ \A m \in DOMAIN finished' : started'[finished'[m]] = s => m <= n
    <3> SUFFICES ASSUME NEW s \in Written, sidecar[s].whole = "yes"
                 PROVE  \E n \in DOMAIN finished :
                            /\ finished[n] = sidecar[s].by
                            /\ \A m \in DOMAIN finished : started'[finished[m]] = s => m <= n
      BY <1>1, <1>t
    <3>1. PICK n \in DOMAIN finished :
              /\ finished[n] = sidecar[s].by
              /\ \A m \in DOMAIN finished : started[finished[m]] = s => m <= n
      BY DEF Files, WholeIsFinished
    <3> QED BY <1>3, <3>1
  <2>3. \A s \in Written' : sidecar'[s].whole = "no" => \E r \in Opened' : Answers(r, s)'
    <3> SUFFICES ASSUME NEW s \in Written, sidecar[s].whole = "no"
                 PROVE  \E r \in Opened : Answers(r, s)'
      BY <1>1, <1>t
    <3>1. PICK r \in Opened : Answers(r, s)
      BY DEF Files, WholeIsFinished
    <3> QED BY <1>t, <3>1 DEF Answers
  <2> QED BY <2>1, <2>2, <2>3 DEF WholeIsFinished
<1>5. HasLatest'
  BY <1>1 DEF Files, HasLatest
<1> QED BY <1>2, <1>4, <1>5 DEF Files

LEMMA FilesReport ==
    ASSUME TypeOK, Files, NEW r \in Runs, WriteReport(r)
    PROVE  Files'
<1>t. /\ sidecar \in [Stamps -> [by : Runs \cup {None}, whole : {"yes", "no"},
                               writers : SUBSET Runs]]
      /\ stage \in [Runs -> {"new"} \cup UnderWay \cup Over]
      /\ finished \in Seq(Runs)
  BY DEF TypeOK
<1>1. /\ stage[r] = "gathered" /\ stage' = [stage EXCEPT ![r] = "md"]
      /\ reports' = reports \cup {started[r]}
      /\ UNCHANGED <<started, sidecar, finished>>
  BY DEF WriteReport
<1>2. Written' = Written /\ Opened' = Opened
  BY <1>t, <1>1 DEF Written, Opened, UnderWay, Over
<1>3. FilesBelong'
  BY <1>t, <1>1, <1>2 DEF Files, FilesBelong
<1>4. WholeIsFinished'
  <2>1. \A n \in DOMAIN finished : finished[n] # r /\ finished[n] \in Runs
    BY <1>t, <1>1 DEF Files, WholeIsFinished
  <2>2. \A q \in Runs, s \in Stamps : Answers(q, s) => Answers(q, s)'
    BY <1>t, <1>1, <1>2 DEF Answers
  <2>3. Opened \subseteq Runs /\ Written \subseteq Stamps
    BY DEF Opened, Written
  <2> QED BY <1>t, <1>1, <1>2, <2>1, <2>2, <2>3 DEF Files, WholeIsFinished
<1>5. HasLatest'
  BY <1>2 DEF Files, HasLatest
<1> QED BY <1>3, <1>4, <1>5 DEF Files

LEMMA FilesOpen ==
    ASSUME TypeOK, Files, NEW r \in Runs, OpenSidecar(r)
    PROVE  Files'
<1>t. /\ sidecar \in [Stamps -> [by : Runs \cup {None}, whole : {"yes", "no"},
                               writers : SUBSET Runs]]
      /\ stage \in [Runs -> {"new"} \cup UnderWay \cup Over]
      /\ finished \in Seq(Runs) /\ started \in [Runs -> Stamps] /\ None \notin Runs
      /\ Opened \subseteq Runs /\ Written \subseteq Stamps /\ Stamps \subseteq Nat
  BY ConstantsAssumption DEF TypeOK, Opened, Written, Stamps
<1> DEFINE u == started[r]
<1>1. /\ stage[r] = "md" /\ stage' = [stage EXCEPT ![r] = "json"]
      /\ sidecar' = [sidecar EXCEPT ![u] =
             [by |-> r, whole |-> "no", writers |-> Writers(u) \cup {r}]]
      /\ UNCHANGED <<started, reports, finished>>
  BY DEF OpenSidecar
<1>u. u \in Stamps
  BY <1>t
<1>2. Opened' = Opened \cup {r} /\ r \notin Opened /\ Opened' \subseteq Runs
  BY <1>t, <1>1 DEF Opened
<1>3. /\ sidecar'[u].by = r /\ sidecar'[u].whole = "no"
      /\ sidecar'[u].writers = Writers(u) \cup {r}
      /\ \A s \in Stamps : s # u => sidecar'[s] = sidecar[s]
  BY <1>t, <1>1, <1>u
<1>4. Written' = Written \cup {u}
  BY <1>t, <1>u, <1>3 DEF Written
<1>5. FilesBelong'
  <2>1. \A s \in Written' : sidecar'[s].by \in Opened' /\ started'[sidecar'[s].by] = s
    BY <1>t, <1>1, <1>2, <1>3, <1>4 DEF Files, FilesBelong
  <2>2. \A q \in Opened' : started'[q] \in Written'
    BY <1>1, <1>2, <1>4 DEF Files, FilesBelong
  <2>3. \A q \in Runs : stage'[q] \in {"md", "json", "done", "cut"} => started'[q] \in reports'
    BY <1>t, <1>1 DEF Files, FilesBelong
  <2>4. Writers(u) \subseteq {q \in Opened : started[q] = u}
    BY DEF Writers, Opened
  <2>5. \A s \in Stamps : sidecar'[s].writers \subseteq {q \in Opened' : started'[q] = s}
    BY <1>1, <1>2, <1>3, <2>4 DEF Files, FilesBelong
  <2>6. \A q \in Runs : stage'[q] = "json" => q \in sidecar'[started'[q]].writers
    <3> SUFFICES ASSUME NEW q \in Runs, stage'[q] = "json", q # r
                 PROVE  q \in sidecar'[started[q]].writers
      BY <1>1, <1>3
    <3>1. stage[q] = "json" /\ started[q] \in Stamps
      BY <1>t, <1>1
    <3>2. CASE started[q] = u
      BY <1>3, <3>1, <3>2 DEF Writers
    <3>3. CASE started[q] # u
      BY <1>3, <3>1, <3>3 DEF Files, FilesBelong
    <3> QED BY <3>2, <3>3
  <2> HIDE DEF u
  <2> QED BY <2>1, <2>2, <2>3, <2>5, <2>6 DEF FilesBelong
<1>6. WholeIsFinished'
  <2>1. \A n \in DOMAIN finished' : stage'[finished'[n]] = "done"
    BY <1>t, <1>1 DEF Files, WholeIsFinished
  <2>2. \A s \in Written' : sidecar'[s].whole = "yes" =>
          \E n \in DOMAIN finished' :
              /\ finished'[n] = sidecar'[s].by
              /\ \A m \in DOMAIN finished' : started'[finished'[m]] = s => m <= n
    <3> SUFFICES ASSUME NEW s \in Written', sidecar'[s].whole = "yes"
                 PROVE  \E n \in DOMAIN finished :
                            /\ finished[n] = sidecar'[s].by
                            /\ \A m \in DOMAIN finished : started[finished[m]] = s => m <= n
      BY <1>1
    <3>1. s \in Written /\ sidecar'[s] = sidecar[s]
      BY <1>t, <1>3, <1>4
    <3> QED BY <3>1 DEF Files, WholeIsFinished
  <2>3. \A s \in Written' : sidecar'[s].whole = "no" => \E q \in Opened' : Answers(q, s)'
    <3> SUFFICES ASSUME NEW s \in Written', sidecar'[s].whole = "no"
                 PROVE  \E q \in Opened' : Answers(q, s)'
      OBVIOUS
    <3>1. CASE s = u
      BY <1>t, <1>1, <1>2, <3>1 DEF Answers
    <3>2. CASE s # u
      <4>1. s \in Written /\ sidecar[s].whole = "no"
        BY <1>t, <1>3, <1>4, <3>2
      <4>2. PICK q \in Opened : Answers(q, s)
        BY <4>1 DEF Files, WholeIsFinished
      <4>3. Answers(q, s)'
        BY <1>t, <1>1, <1>2, <4>2 DEF Answers
      <4> QED BY <1>2, <4>3
    <3> QED BY <3>1, <3>2
  <2> QED BY <2>1, <2>2, <2>3 DEF WholeIsFinished
<1>7. HasLatest'
  <2>1. CASE Written = {}
    <3>1. Written' = {u} /\ u \in Nat
      BY <1>t, <1>u, <1>4, <2>1
    <3> HIDE DEF u
    <3> QED BY <3>1 DEF HasLatest
  <2>2. CASE Written # {}
    <3>1. PICK t \in Written : \A s \in Written : s <= t
      BY <2>2 DEF Files, HasLatest
    <3>2. t \in Nat /\ u \in Nat /\ \A s \in Written : s \in Nat
      BY <1>t, <1>u
    <3>3. CASE t <= u
      BY <1>4, <3>1, <3>2, <3>3 DEF HasLatest
    <3>4. CASE u <= t
      BY <1>4, <3>1, <3>2, <3>4 DEF HasLatest
    <3> QED BY <3>2, <3>3, <3>4
  <2> QED BY <2>1, <2>2
<1> QED BY <1>5, <1>6, <1>7 DEF Files

\* What a run that is writing its sidecar can rely on.
LEMMA SidecarOfWriter ==
    ASSUME TypeOK, Files, NEW r \in Runs, stage[r] = "json"
    PROVE  /\ r \in Opened /\ started[r] \in Written /\ started[r] \in Stamps
           /\ r \in sidecar[started[r]].writers
           /\ sidecar[started[r]].by \in Opened
           /\ started[sidecar[started[r]].by] = started[r]
           /\ \A q \in sidecar[started[r]].writers : q \in Opened /\ started[q] = started[r]
<1>1. r \in Opened /\ started[r] \in Stamps
  BY DEF TypeOK, Opened
<1> QED BY <1>1 DEF Files, FilesBelong

LEMMA FilesPart ==
    ASSUME TypeOK, Files, NEW r \in Runs, WritePart(r)
    PROVE  Files'
<1>t. /\ sidecar \in [Stamps -> [by : Runs \cup {None}, whole : {"yes", "no"},
                               writers : SUBSET Runs]]
      /\ Opened \subseteq Runs /\ Written \subseteq Stamps
  BY DEF TypeOK, Opened, Written
<1> DEFINE u == started[r]
<1>1. /\ stage[r] = "json" /\ UNCHANGED <<stage, started, reports, finished>>
      /\ sidecar' = [sidecar EXCEPT ![u] =
             [by |-> sidecar[u].by, whole |-> "no", writers |-> sidecar[u].writers]]
  BY DEF WritePart, runVars
<1>2. u \in Stamps /\ u \in Written /\ r \in Opened
  BY <1>1, SidecarOfWriter
<1>3. /\ \A s \in Stamps : /\ sidecar'[s].by = sidecar[s].by
                           /\ sidecar'[s].writers = sidecar[s].writers
                           /\ s # u => sidecar'[s].whole = sidecar[s].whole
      /\ sidecar'[u].whole = "no"
  <2> HIDE DEF u
  <2> QED BY <1>t, <1>1, <1>2
<1>4. Written' = Written /\ Opened' = Opened
  BY <1>1, <1>3 DEF Written, Opened
<1>5. FilesBelong'
  <2>1. \A s \in Stamps : sidecar'[s].writers \subseteq {q \in Opened' : started'[q] = s}
    BY <1>1, <1>3, <1>4 DEF Files, FilesBelong
  <2>2. \A q \in Runs : stage'[q] = "json" => q \in sidecar'[started'[q]].writers
    <3>1. \A q \in Runs : started[q] \in Stamps
      BY DEF TypeOK
    <3> QED BY <1>1, <1>3, <3>1 DEF Files, FilesBelong
  <2> QED BY <1>t, <1>1, <1>3, <1>4, <2>1, <2>2 DEF Files, FilesBelong
<1>6. WholeIsFinished'
  <2>1. \A n \in DOMAIN finished' : stage'[finished'[n]] = "done"
    BY <1>1 DEF Files, WholeIsFinished
  <2>2. \A q, s : Answers(q, s)' <=> Answers(q, s)
    BY <1>1, <1>4 DEF Answers
  <2>3. Answers(r, u)
    BY <1>1 DEF Answers
  <2>4. \A s \in Written : sidecar'[s].whole = "yes" => s # u /\ sidecar[s].whole = "yes"
    BY <1>t, <1>3
  <2>5. \A s \in Written' : sidecar'[s].whole = "yes" =>
          \E n \in DOMAIN finished' :
              /\ finished'[n] = sidecar'[s].by
              /\ \A m \in DOMAIN finished' : started'[finished'[m]] = s => m <= n
    BY <1>t, <1>1, <1>3, <1>4, <2>4 DEF Files, WholeIsFinished
  <2>6. \A s \in Written' : sidecar'[s].whole = "no" => \E q \in Opened' : Answers(q, s)'
    <3> SUFFICES ASSUME NEW s \in Written, sidecar'[s].whole = "no"
                 PROVE  \E q \in Opened : Answers(q, s)
      BY <1>4, <2>2
    <3>1. CASE s = u
      BY <1>2, <2>3, <3>1
    <3>2. CASE s # u
      BY <1>t, <1>3, <3>2 DEF Files, WholeIsFinished
    <3> QED BY <3>1, <3>2
  <2> QED BY <2>1, <2>5, <2>6 DEF WholeIsFinished
<1>7. HasLatest'
  BY <1>4 DEF Files, HasLatest
<1> QED BY <1>5, <1>6, <1>7 DEF Files

LEMMA FilesClose ==
    ASSUME TypeOK, Files, NEW r \in Runs, WriteSidecar(r)
    PROVE  Files'
<1>t. /\ sidecar \in [Stamps -> [by : Runs \cup {None}, whole : {"yes", "no"},
                               writers : SUBSET Runs]]
      /\ stage \in [Runs -> {"new"} \cup UnderWay \cup Over]
      /\ finished \in Seq(Runs) /\ started \in [Runs -> Stamps] /\ None \notin Runs
      /\ Opened \subseteq Runs /\ Written \subseteq Stamps
  BY ConstantsAssumption DEF TypeOK, Opened, Written
<1> DEFINE u == started[r]
<1>0. PICK whole \in {"yes", "no"} :
          /\ whole = "no" => sidecar[u].writers # {r}
          /\ sidecar' = [sidecar EXCEPT ![u] =
                 [by |-> r, whole |-> whole, writers |-> sidecar[u].writers]]
  BY DEF WriteSidecar
<1>1. /\ stage[r] = "json" /\ stage' = [stage EXCEPT ![r] = "done"]
      /\ finished' = Append(finished, r)
      /\ UNCHANGED <<started, reports>>
  BY DEF WriteSidecar
<1>2. /\ u \in Stamps /\ u \in Written /\ r \in Opened /\ r \in sidecar[u].writers
      /\ \A q \in sidecar[u].writers : q \in Opened /\ started[q] = u
  BY <1>1, SidecarOfWriter
<1>3. /\ \A s \in Stamps : /\ sidecar'[s].writers = sidecar[s].writers
                           /\ s # u => sidecar'[s] = sidecar[s]
      /\ sidecar'[u].whole = whole /\ sidecar'[u].by = r
  <2> HIDE DEF u
  <2> QED BY <1>t, <1>0, <1>2
<1>4. Written' = Written
  <2>1. \A s \in Stamps : sidecar'[s].by # None <=> sidecar[s].by # None
    BY <1>t, <1>2, <1>3 DEF Written
  <2> QED BY <2>1 DEF Written
<1>5. Opened' = Opened
  BY <1>t, <1>1 DEF Opened
<1>6. FilesBelong'
  <2>1. \A s \in Stamps : sidecar'[s].writers \subseteq {q \in Opened' : started'[q] = s}
    BY <1>1, <1>3, <1>5 DEF Files, FilesBelong
  <2>2. \A q \in Runs : stage'[q] = "json" => q \in sidecar'[started'[q]].writers
    BY <1>t, <1>1, <1>3 DEF Files, FilesBelong
  <2>3. \A s \in Written' : sidecar'[s].by \in Opened' /\ started'[sidecar'[s].by] = s
    BY <1>t, <1>1, <1>2, <1>3, <1>4, <1>5 DEF Files, FilesBelong
  <2>4. \A q \in Runs : stage'[q] \in {"md", "json", "done", "cut"} => started'[q] \in reports'
    BY <1>t, <1>1 DEF Files, FilesBelong
  <2>5. \A q \in Opened' : started'[q] \in Written'
    BY <1>1, <1>4, <1>5 DEF Files, FilesBelong
  <2> HIDE DEF u
  <2> QED BY <2>1, <2>2, <2>3, <2>4, <2>5 DEF FilesBelong
<1>7. WholeIsFinished'
  <2> DEFINE k == Len(finished)
  <2>0. /\ k \in Nat /\ DOMAIN finished = 1 .. k /\ DOMAIN finished' = 1 .. k + 1
        /\ finished'[k + 1] = r
        /\ \A n \in 1 .. k : finished'[n] = finished[n] /\ finished[n] \in Runs
    BY <1>t, <1>1
  <2> HIDE DEF k
  <2>1. \A n \in DOMAIN finished' : stage'[finished'[n]] = "done"
    <3> SUFFICES ASSUME NEW n \in 1 .. k + 1 PROVE stage'[finished'[n]] = "done"
      BY <2>0
    <3>1. CASE n = k + 1
      BY <1>t, <1>1, <2>0, <3>1
    <3>2. CASE n \in 1 .. k
      <4>1. stage[finished[n]] = "done"
        BY <2>0, <3>2 DEF Files, WholeIsFinished
      <4> QED BY <1>t, <1>1, <2>0, <3>2, <4>1
    <3> QED BY <2>0, <3>1, <3>2
  <2>2. \A s \in Written' : sidecar'[s].whole = "yes" =>
          \E n \in DOMAIN finished' :
              /\ finished'[n] = sidecar'[s].by
              /\ \A m \in DOMAIN finished' : started'[finished'[m]] = s => m <= n
    <3> SUFFICES ASSUME NEW s \in Written, sidecar'[s].whole = "yes"
                 PROVE  \E n \in 1 .. k + 1 :
                            /\ finished'[n] = sidecar'[s].by
                            /\ \A m \in 1 .. k + 1 : started[finished'[m]] = s => m <= n
      BY <1>1, <1>4, <2>0
    <3>1. CASE s = u
      <4>1. k + 1 \in 1 .. k + 1 /\ \A m \in 1 .. k + 1 : m <= k + 1
        BY <2>0
      <4>2. finished'[k + 1] = sidecar'[s].by
        BY <1>3, <2>0, <3>1
      <4> QED BY <4>1, <4>2
    <3>2. CASE s # u
      <4>1. sidecar[s].whole = "yes" /\ sidecar'[s].by = sidecar[s].by
        BY <1>t, <1>3, <3>2
      <4>2. PICK n \in 1 .. k : /\ finished[n] = sidecar[s].by
                                /\ \A m \in 1 .. k : started[finished[m]] = s => m <= n
        BY <2>0, <4>1 DEF Files, WholeIsFinished
      <4>3. n \in 1 .. k + 1 /\ finished'[n] = sidecar'[s].by
        BY <2>0, <4>1, <4>2
      <4>4. \A m \in 1 .. k + 1 : started[finished'[m]] = s => m <= n
        <5> SUFFICES ASSUME NEW m \in 1 .. k + 1, started[finished'[m]] = s PROVE m <= n
          OBVIOUS
        <5>1. m # k + 1
          BY <2>0, <3>2
        <5>2. m \in 1 .. k
          BY <2>0, <5>1
        <5> QED BY <2>0, <4>2, <5>2
      <4> QED BY <4>3, <4>4
    <3> QED BY <3>1, <3>2
  <2>3. \A s \in Written' : sidecar'[s].whole = "no" => \E q \in Opened' : Answers(q, s)'
    <3> SUFFICES ASSUME NEW s \in Written, sidecar'[s].whole = "no"
                 PROVE  \E q \in Opened : Answers(q, s)'
      BY <1>4, <1>5
    <3>1. CASE s = u
      <4>1. PICK q \in sidecar[u].writers : q # r
        BY <1>0, <1>2, <1>3, <3>1
      <4>2. q \in Opened \ {r} /\ started'[q] = u /\ started'[r] = u
        BY <1>1, <1>2, <4>1
      <4>3. Answers(r, s)'
        BY <1>5, <3>1, <4>2 DEF Answers
      <4> QED BY <1>2, <4>3
    <3>2. CASE s # u
      <4>1. sidecar[s].whole = "no"
        BY <1>t, <1>3, <3>2
      <4>2. PICK q \in Opened : Answers(q, s)
        BY <4>1 DEF Files, WholeIsFinished
      <4>3. q # r
        BY <3>2, <4>2 DEF Answers
      <4>4. Answers(q, s)'
        BY <1>t, <1>1, <1>5, <4>2, <4>3 DEF Answers
      <4> QED BY <4>4
    <3> QED BY <3>1, <3>2
  <2> QED BY <2>1, <2>2, <2>3 DEF WholeIsFinished
<1>8. HasLatest'
  BY <1>4 DEF Files, HasLatest
<1> QED BY <1>6, <1>7, <1>8 DEF Files

LEMMA FilesStep == TypeOK /\ Fresh /\ Settled /\ Files /\ [Next]_vars => Files'
<1> SUFFICES ASSUME TypeOK, Fresh, Settled, Files, [Next]_vars PROVE Files'
  OBVIOUS
<1>t. stage \in [Runs -> {"new"} \cup UnderWay \cup Over] /\ started \in [Runs -> Stamps]
  BY DEF TypeOK
<1>1. ASSUME NEW r \in Runs, Begin(r) \/ Gather(r) \/ Crash(r) PROVE Files'
  <2>1. /\ UNCHANGED fileVars
        /\ stage[r] \in {"new"} \cup UnderWay
        /\ stage' = [stage EXCEPT ![r] = "items"] \/ stage' = [stage EXCEPT ![r] = "gathered"]
             \/ stage' = [stage EXCEPT ![r] = IF stage[r] = "json" THEN "cut" ELSE "dead"]
        /\ stage'[r] = "cut" => stage[r] = "json"
        /\ stage[r] # "json" => stage'[r] \in {"items", "gathered", "dead"}
        /\ stage[r] = "json" => stage'[r] = "cut"
        /\ \A q \in Runs : q # r \/ stage[r] # "new" => started'[q] = started[q]
    BY <1>t, <1>1 DEF Begin, Gather, Crash, UnderWay
  <2>2. \A q \in Runs : q # r => stage'[q] = stage[q]
    BY <1>t, <2>1
  <2>3. Opened' = Opened /\ \A q \in Opened : started'[q] = started[q]
    BY <1>t, <2>1, <2>2 DEF Opened, UnderWay
  <2>4. \A q \in Runs :
            /\ stage'[q] = "done" <=> stage[q] = "done"
            /\ stage'[q] = "json" => stage[q] = "json"
            /\ stage'[q] \in {"md", "json", "done", "cut"} =>
                   /\ stage[q] \in {"md", "json", "done", "cut"}
                   /\ started'[q] = started[q]
    BY <2>1, <2>2 DEF UnderWay
  <2> QED BY <2>1, <2>3, <2>4, FilesOnly
<1>2. ASSUME NEW r \in Runs, WriteReport(r) \/ OpenSidecar(r) \/ WriteSidecar(r) \/ WritePart(r)
      PROVE  Files'
  BY <1>2, FilesReport, FilesOpen, FilesClose, FilesPart
<1>3. CASE Ingest \/ Tick \/ UNCHANGED vars \/ \E i \in Items : ItemStep(i)
  <2>1. UNCHANGED <<stage, started, fileVars>>
    BY <1>3, ItemStepStage DEF Ingest, Tick, vars, runVars
  <2>2. Opened' = Opened
    BY <2>1 DEF Opened
  <2> QED BY <2>1, <2>2, FilesOnly
<1> QED BY <1>1, <1>2, <1>3 DEF Next, Write

LEMMA FilesShow == TypeOK /\ Files => PageShowsNewestRun
<1> SUFFICES ASSUME TypeOK, Files PROVE PageShowsNewestRun
  OBVIOUS
<1>t. /\ finished \in Seq(Runs) /\ None \notin Runs
      /\ sidecar \in [Stamps -> [by : Runs \cup {None}, whole : {"yes", "no"},
                               writers : SUBSET Runs]]
      /\ started \in [Runs -> Stamps] /\ Stamps \subseteq Nat
      /\ Written \subseteq Stamps /\ Opened \subseteq Runs
  BY ConstantsAssumption DEF TypeOK, Stamps, Written, Opened
<1>1. \A m \in DOMAIN finished : finished[m] \in Opened /\ started[finished[m]] \in Written
  BY <1>t DEF Files, WholeIsFinished, FilesBelong, Opened
<1>2. Written \subseteq reports
  <2> SUFFICES ASSUME NEW s \in Written PROVE s \in reports
    OBVIOUS
  <2>1. sidecar[s].by \in Opened /\ started[sidecar[s].by] = s
    BY DEF Files, FilesBelong
  <2> QED BY <1>t, <2>1 DEF Files, FilesBelong, Opened
<1>3. CASE Written = {}
  <2>1. Shown = None /\ finished = <<>>
    <3>1. DOMAIN finished = {}
      BY <1>1, <1>3
    <3> QED BY <1>t, <1>3, <3>1 DEF Shown
  <2> QED BY <1>2, <2>1 DEF PageShowsNewestRun
<1>4. CASE Written # {}
  <2>1. Latest \in Written /\ \A s \in Written : s <= Latest
    BY <1>4 DEF Files, HasLatest, Latest
  <2> DEFINE t == Latest
  <2> HIDE DEF t
  <2>2. t \in Written /\ \A s \in Written : s <= t
    BY <2>1 DEF t
  <2>3. t \in Stamps /\ t \in Nat /\ sidecar[t].whole \in {"yes", "no"}
    BY <1>t, <2>2
  <2>4. \A m \in DOMAIN finished : started[finished[m]] \in Nat /\ started[finished[m]] <= t
    BY <1>t, <1>1, <2>2
  <2>5. CASE sidecar[t].whole = "yes"
    <3>1. Shown = sidecar[t].by /\ Shown # None /\ started[Shown] = t
      <4>1. Shown = sidecar[t].by
        BY <1>4, <2>5 DEF Shown, t
      <4> QED BY <2>2, <4>1 DEF Written, Files, FilesBelong
    <3>2. PICK n \in DOMAIN finished :
              /\ finished[n] = sidecar[t].by
              /\ \A m \in DOMAIN finished : started[finished[m]] = t => m <= n
      BY <2>2, <2>5 DEF Files, WholeIsFinished
    <3>3. \A m \in DOMAIN finished :
              \/ started[finished[m]] < started[Shown]
              \/ started[finished[m]] = started[Shown] /\ m <= n
      <4> SUFFICES ASSUME NEW m \in DOMAIN finished
                   PROVE  \/ started[finished[m]] < t
                          \/ started[finished[m]] = t /\ m <= n
        BY <3>1
      <4>1. CASE started[finished[m]] = t
        BY <3>2, <4>1
      <4>2. CASE started[finished[m]] # t
        BY <2>3, <2>4, <4>2
      <4> QED BY <4>1, <4>2
    <3> QED BY <1>2, <3>1, <3>2, <3>3 DEF PageShowsNewestRun
  <2>6. CASE sidecar[t].whole = "no"
    <3>1. Shown = None
      BY <1>4, <2>6 DEF Shown, t
    <3>2. PICK r \in Opened : Answers(r, t)
      BY <2>2, <2>6 DEF Files, WholeIsFinished
    <3> QED BY <1>2, <2>4, <3>1, <3>2 DEF PageShowsNewestRun, Answers
  <2> QED BY <2>3, <2>5, <2>6
<1> QED BY <1>3, <1>4

-----------------------------------------------------------------------------
(* The theorems.                                                            *)

LEMMA EInvInit == Init => EInv
BY TypeInit, ProvenanceInit, FreshInit, SettledInit, PermitsInit, FilesInit DEF EInv

LEMMA EInvStep == EInv /\ [Next]_vars => EInv'
BY TypeStep, ProvenanceStep, FreshStep, SettledStep, PermitsStep, FilesStep DEF EInv

LEMMA EInvAlways == Spec => []EInv
BY EInvInit, EInvStep, PTL DEF Spec

\* However items end, the permits add up (run_eval.py:359-369).
THEOREM PermitsKept == Spec => []PermitsAddUp
<1>1. EInv => PermitsAddUp
  BY DEF EInv
<1> QED BY EInvAlways, <1>1, PTL

\* A citation that /search did not return is explained by an ingestion between
\* the two calls (run_eval.py:162-164, 189).
THEOREM MissedCitationsAreNew == Spec => []MissedCitationExplained
<1>1. EInv => MissedCitationExplained
  BY ProvenanceExplains DEF EInv
<1> QED BY EInvAlways, <1>1, PTL

\* The means of a report account for all of its items (run_eval.py:234-267).
THEOREM ReportAccounts == Spec => []AggregatesAccount
<1>1. EInv => AggregatesAccount
  BY SettledAccounts DEF EInv
<1> QED BY EInvAlways, <1>1, PTL

\* Whatever runs overlap, share a second or die, the page shows the finished run
\* that started last, or none for a reason (corpus-stats.ts:84-121).
THEOREM NewestRunIsShown == Spec => []PageShowsNewestRun
<1>1. EInv => PageShowsNewestRun
  BY FilesShow DEF EInv
<1> QED BY EInvAlways, <1>1, PTL
=============================================================================
