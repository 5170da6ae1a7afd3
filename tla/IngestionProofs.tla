-------------------------- MODULE IngestionProofs --------------------------
(* Proofs about Ingestion, for any set of runs, manifest, file versions and *)
(* bounds: the types, the wholeness of a document's chunk rows, that the    *)
(* runs implement CorpusStore, the cause of a document without chunks, the  *)
(* account of a run that reports success, and the number of chunk rows.     *)
EXTENDS Ingestion, FiniteSetTheorems, TLAPS

-----------------------------------------------------------------------------
(* The inductive invariant.                                                 *)

\* What a run knows about the entry it is working on.
LocalsOK ==
    \A r \in Runs :
        /\ pc[r] \in Active \ {"next"} => entry[r] \in todo[r]
        /\ pc[r] \in {"hash", "upsert"} \cup Writing =>
               read[r] \in Versions /\ NumChunks[read[r]] > 0
        /\ pc[r] = "hash" => file[entry[r]] # None
        /\ pc[r] \in {"upsert"} \cup Writing => sha[r] \in Versions

\* A run whose rows can be seen has finished with the document.
HasWritten(q, d) == pc[q] # "idle" /\ d \notin todo[q]

\* ChunksWhole, and who wrote the rows.
WrittenWhole ==
    \A d \in Docs :
        chunks[d] # {} => \E v \in Versions, q \in Runs :
            NumChunks[v] > 0 /\ HasWritten(q, d) /\ chunks[d] = RowsOf(v, q)

\* A DELETE saw all of the rows that are committed now, or none of them: the
\* rows it saw were written as a whole and are replaced as a whole.
DeletesWhole ==
    \A r \in Runs : pc[r] \in {"deleting"} \cup Locking =>
        /\ \/ del[r] \cap chunks[entry[r]] = {}
           \/ chunks[entry[r]] \subseteq del[r]
        /\ \A row \in del[r] : HasWritten(row.by, entry[r])

\* A transaction that has passed the UNIQUE constraint replaces everything,
\* and is the only one to have passed it.
CommitReplacesAll ==
    \A r \in Runs : pc[r] = "commit" => chunks[entry[r]] \subseteq del[r]

OneInserter ==
    \A r, q \in Runs :
        pc[r] = "commit" /\ pc[q] = "commit" /\ entry[r] = entry[q] => r = q

IInv == /\ TypeOK
        /\ LocalsOK
        /\ WrittenWhole
        /\ DeletesWhole
        /\ CommitReplacesAll
        /\ OneInserter
-----------------------------------------------------------------------------
(* Types.                                                                   *)

USE DEF Docs, Active, Writing, Locking, Ended, NewRow, HasText

\* A write_chunks call inserts well-formed rows of its own run; a version
\* with text has a row at index 0.
LEMMA RowsOfFacts ==
    ASSUME ConstantsAssumption, NEW v \in Versions, NEW r \in Runs
    PROVE  /\ RowsOf(v, r) \subseteq Row
           /\ \A row \in RowsOf(v, r) : row.by = r /\ row.ix < NumChunks[v]
           /\ NumChunks[v] > 0 => [ix |-> 0, ver |-> v, by |-> r] \in RowsOf(v, r)
  BY DEF RowsOf, Row, ConstantsAssumption

LEMMA InitInvariant == ConstantsAssumption /\ Init => IInv
  BY DEF ConstantsAssumption, Init, IInv, TypeOK, DbTypeOK, LoopTypeOK, TallyTypeOK,
         EnvTypeOK, LocalsOK, WrittenWhole, DeletesWhole, CommitReplacesAll, OneInserter

\* The entry in hand is one of the manifest, and the version read has text.
LEMMA EntryInHand ==
    ASSUME TypeOK, LocalsOK, NEW r \in Runs, pc[r] \in Active \ {"next"}
    PROVE  /\ entry[r] \in Docs /\ entry[r] \in todo[r]
           /\ pc[r] \in Writing \cup {"upsert"} =>
                read[r] \in Versions /\ NumChunks[read[r]] > 0 /\ sha[r] \in Versions
  BY DEF TypeOK, LoopTypeOK, LocalsOK

LEMMA AdvanceTypes ==
    ASSUME LoopTypeOK, NEW r \in Runs, NEW d \in Docs, Advance(r, d)
    PROVE  LoopTypeOK'
  BY DEF LoopTypeOK, Advance

LEMMA CountDocumentTypes ==
    ASSUME LoopTypeOK, TallyTypeOK, NEW r \in Runs, NEW d \in Docs, NEW n \in Nat,
           CountDocument(r, d, n)
    PROVE  /\ LoopTypeOK'
           /\ tally' \in [Runs -> [docs : Nat, chunks : Nat, errors : SUBSET Docs]]
           /\ result' = result
  <1>1. Advance(r, d) BY DEF CountDocument
  <1>2. LoopTypeOK' BY <1>1, AdvanceTypes
  <1> QED BY <1>1, <1>2 DEF TallyTypeOK, CountDocument, Advance

LEMMA RecordErrorTypes ==
    ASSUME LoopTypeOK, TallyTypeOK, NEW r \in Runs, NEW d \in Docs, RecordError(r, d)
    PROVE  /\ LoopTypeOK'
           /\ tally' \in [Runs -> [docs : Nat, chunks : Nat, errors : SUBSET Docs]]
           /\ result' = result
  <1>1. Advance(r, d) BY DEF RecordError
  <1>2. LoopTypeOK' BY <1>1, AdvanceTypes
  <1> QED BY <1>1, <1>2 DEF TallyTypeOK, RecordError, Advance

LEMMA CommitRowsTypes ==
    ASSUME ConstantsAssumption, DbTypeOK, TallyTypeOK, NEW r \in Runs,
           entry[r] \in Docs, read[r] \in Versions, CommitRows(r)
    PROVE  /\ chunks' \in [Docs -> SUBSET Row]
           /\ wrote' \in [Runs -> SUBSET (Docs \X Versions)]
  <1>1. RowsOf(read[r], r) \subseteq Row BY RowsOfFacts
  <1> QED BY <1>1 DEF DbTypeOK, TallyTypeOK, CommitRows

LEMMA TornTypes ==
    ASSUME torn \in [Runs -> SUBSET Docs], NEW r \in Runs,
           \/ torn' = torn
           \/ entry[r] \in Docs /\ torn' = [torn EXCEPT ![r] = @ \cup {entry[r]}]
    PROVE  torn' \in [Runs -> SUBSET Docs]
  OBVIOUS

LEMMA TypeStep == ConstantsAssumption /\ TypeOK /\ LocalsOK /\ [Next]_vars => TypeOK'
  <1> SUFFICES ASSUME ConstantsAssumption, TypeOK, LocalsOK, [Next]_vars PROVE TypeOK'
    OBVIOUS
  <1> USE DEF TypeOK, DbTypeOK, LoopTypeOK, TallyTypeOK, EnvTypeOK, ConstantsAssumption,
              diskVars, dbVars, runVars
  <1>1. ASSUME NEW r \in Runs, NEW S \in SUBSET Docs, NEW f \in BOOLEAN, StartRun(r, S, f)
        PROVE  TypeOK'
    BY <1>1 DEF StartRun
  <1>2. ASSUME NEW r \in Runs, SkipExisting(r) PROVE TypeOK'
    <2>1. PICK d \in Docs : IsNext(r, d) /\ Advance(r, d) BY <1>2 DEF SkipExisting
    <2>2. LoopTypeOK' /\ result' = result BY <2>1, AdvanceTypes DEF Advance
    <2> QED BY <1>2, <2>2 DEF SkipExisting
  <1>3. ASSUME NEW r \in Runs, BeginDocument(r) PROVE TypeOK'
    BY <1>3 DEF BeginDocument
  <1>4. ASSUME NEW r \in Runs, FinishRun(r) PROVE TypeOK'
    BY <1>4 DEF FinishRun, FinishedRow, Outcome
  <1>5. ASSUME NEW r \in Runs, LoadAndChunk(r) PROVE TypeOK'
    BY <1>5, EntryInHand DEF LoadAndChunk
  <1>6. ASSUME NEW r \in Runs, LoadNoText(r) PROVE TypeOK'
    <2>1. entry[r] \in Docs /\ CountDocument(r, entry[r], 0)
      BY <1>6, EntryInHand DEF LoadNoText
    <2>2. LoopTypeOK' /\ TallyTypeOK' BY <1>6, <2>1, CountDocumentTypes DEF LoadNoText
    <2> QED BY <1>6, <2>2 DEF LoadNoText
  <1>7. ASSUME NEW r \in Runs, HashFile(r) PROVE TypeOK'
    BY <1>7, EntryInHand DEF HashFile
  <1>8. ASSUME NEW r \in Runs, BadFile(r) PROVE TypeOK'
    <2>1. entry[r] \in Docs /\ RecordError(r, entry[r]) BY <1>8, EntryInHand DEF BadFile
    <2>2. LoopTypeOK' /\ TallyTypeOK' BY <1>8, <2>1, RecordErrorTypes DEF BadFile
    <2> QED BY <1>8, <2>2 DEF BadFile
  <1>9. ASSUME NEW r \in Runs, UpsertDocument(r) PROVE TypeOK'
    BY <1>9, EntryInHand DEF UpsertDocument
  <1>10. ASSUME NEW r \in Runs, BeginDelete(r) PROVE TypeOK'
    BY <1>10, EntryInHand DEF BeginDelete
  <1>11. ASSUME NEW r \in Runs, EndDelete(r) PROVE TypeOK'
    BY <1>11, EntryInHand DEF EndDelete
  <1>12. ASSUME NEW r \in Runs, InsertChunks(r) PROVE TypeOK'
    BY <1>12 DEF InsertChunks
  <1>13. ASSUME NEW r \in Runs, InsertFails(r) PROVE TypeOK'
    <2>1. entry[r] \in Docs /\ RecordError(r, entry[r]) BY <1>13, EntryInHand DEF InsertFails
    <2>2. LoopTypeOK' /\ TallyTypeOK' BY <1>13, <2>1, RecordErrorTypes DEF InsertFails
    <2> QED BY <1>13, <2>2 DEF InsertFails
  <1>14. ASSUME NEW r \in Runs, CommitChunks(r) PROVE TypeOK'
    <2>1. entry[r] \in Docs /\ read[r] \in Versions BY <1>14, EntryInHand DEF CommitChunks
    <2>2. NumChunks[read[r]] \in Nat BY <2>1
    <2>3. LoopTypeOK' /\ tally' \in [Runs -> [docs : Nat, chunks : Nat, errors : SUBSET Docs]]
          /\ result' = result
      BY <1>14, <2>1, <2>2, CountDocumentTypes DEF CommitChunks
    <2>4. chunks' \in [Docs -> SUBSET Row] /\ wrote' \in [Runs -> SUBSET (Docs \X Versions)]
      BY <1>14, <2>1, CommitRowsTypes DEF CommitChunks
    <2> QED BY <1>14, <2>3, <2>4 DEF CommitChunks
  <1>15. ASSUME NEW r \in Runs, StartFails(r) PROVE TypeOK'
    BY <1>15 DEF StartFails, UseFault
  <1>16. ASSUME NEW r \in Runs, StepFails(r) PROVE TypeOK'
    <2>1. PICK d \in Docs : RecordError(r, d) BY <1>16, EntryInHand DEF StepFails
    <2>2. LoopTypeOK' /\ tally' \in [Runs -> [docs : Nat, chunks : Nat, errors : SUBSET Docs]]
          /\ result' = result
      BY <2>1, RecordErrorTypes
    <2>3. faults' \in Nat BY <1>16 DEF StepFails, UseFault
    <2>4. torn' \in [Runs -> SUBSET Docs]
      <3>1. torn' = torn \/ pc[r] \in Writing
        BY <1>16 DEF StepFails
      <3>2. pc[r] \in Writing => entry[r] \in Docs
        BY EntryInHand DEF Writing, Locking, Active
      <3>3. torn' = torn \/ torn' = [torn EXCEPT ![r] = @ \cup {entry[r]}]
        BY <1>16 DEF StepFails
      <3>4. torn \in [Runs -> SUBSET Docs] OBVIOUS
      <3> QED BY <3>1, <3>2, <3>3, <3>4, TornTypes
    <2>5. UNCHANGED <<dbVars, wrote, diskVars, crashes>> BY <1>16 DEF StepFails
    <2> QED BY <2>2, <2>3, <2>4, <2>5
  <1>17. ASSUME NEW r \in Runs, AnswerLost(r) PROVE TypeOK'
    <2>1. pc[r] \in {"upsert", "commit"} /\ RecordError(r, entry[r]) BY <1>17 DEF AnswerLost
    <2>2. entry[r] \in Docs /\ read[r] \in Versions /\ sha[r] \in Versions
      BY <2>1, EntryInHand
    <2>3. LoopTypeOK' /\ tally' \in [Runs -> [docs : Nat, chunks : Nat, errors : SUBSET Docs]]
          /\ result' = result
      BY <2>1, <2>2, RecordErrorTypes
    <2>4. chunks' \in [Docs -> SUBSET Row] /\ wrote' \in [Runs -> SUBSET (Docs \X Versions)]
      BY <1>17, <2>2, CommitRowsTypes DEF AnswerLost
    <2>5. documents' \in [Docs -> Versions \cup {None}] BY <1>17, <2>2 DEF AnswerLost
    <2>6. faults' \in Nat BY <1>17 DEF AnswerLost, UseFault
    <2>7. torn' \in [Runs -> SUBSET Docs]
      <3>1. torn' = torn \/ torn' = [torn EXCEPT ![r] = @ \cup {entry[r]}]
        BY <1>17 DEF AnswerLost
      <3>2. torn \in [Runs -> SUBSET Docs] OBVIOUS
      <3> QED BY <2>2, <3>1, <3>2, TornTypes
    <2> QED BY <1>17, <2>3, <2>4, <2>5, <2>6, <2>7 DEF AnswerLost
  <1>18. ASSUME NEW r \in Runs, FinishFails(r) PROVE TypeOK'
    BY <1>18 DEF FinishFails, UseFault, FinishedRow, Outcome
  <1>19. ASSUME NEW P \in Processes, Crash(P) PROVE TypeOK'
    <2>1. pc' \in [Runs -> {"idle"} \cup Active \cup Ended] /\ del' \in [Runs -> SUBSET Row]
      BY <1>19 DEF Crash, Ended
    <2>2. \A r \in Runs : pc[r] \in Writing => entry[r] \in Docs
      BY EntryInHand DEF Writing, Locking, Active
    <2>3. torn' \in [Runs -> SUBSET Docs] BY <1>19, <2>2 DEF Crash
    <2>4. crashes' \in Nat BY <1>19 DEF Crash
    <2> QED BY <1>19, <2>1, <2>3, <2>4 DEF Crash
  <1>20. ASSUME NEW d \in Docs, NEW v \in Versions, Download(d, v) PROVE TypeOK'
    BY <1>20 DEF Download
  <1>21. ASSUME NEW d \in Docs, NEW v \in Versions, ReplacePdf(d, v) PROVE TypeOK'
    BY <1>21 DEF ReplacePdf
  <1>22. CASE UNCHANGED vars
    BY <1>22 DEF vars
  <1> HIDE DEF TypeOK
  <1>23. ASSUME NEW r \in Runs, RunStep(r) PROVE TypeOK'
    BY <1>23, <1>2, <1>3, <1>4, <1>5, <1>6, <1>7, <1>8, <1>9, <1>10, <1>11, <1>12, <1>13,
       <1>14, Zenon DEF RunStep
  <1>24. ASSUME NEW r \in Runs, Fault(r) PROVE TypeOK'
    BY <1>24, <1>15, <1>16, <1>17, <1>18, Zenon DEF Fault
  <1>25. CASE AllEnded
    BY <1>22, <1>25, Zenon DEF AllEnded
  <1> QED
    BY <1>1, <1>19, <1>20, <1>21, <1>22, <1>23, <1>24, <1>25, Zenon DEF Next
LEMMA LocalsStep == ConstantsAssumption /\ TypeOK /\ LocalsOK /\ [Next]_vars => LocalsOK'
  <1> SUFFICES ASSUME ConstantsAssumption, TypeOK, LocalsOK, [Next]_vars PROVE LocalsOK'
    OBVIOUS
  <1> USE DEF TypeOK, LoopTypeOK, EnvTypeOK, LocalsOK, ConstantsAssumption, diskVars,
              dbVars, runVars
  <1>1. ASSUME NEW r \in Runs, NEW S \in SUBSET Docs, NEW f \in BOOLEAN, StartRun(r, S, f)
        PROVE  LocalsOK'
    BY <1>1 DEF StartRun
  <1>2. ASSUME NEW r \in Runs, SkipExisting(r) PROVE LocalsOK'
    BY <1>2 DEF SkipExisting, Advance
  <1>3. ASSUME NEW r \in Runs, BeginDocument(r) PROVE LocalsOK'
    BY <1>3 DEF BeginDocument, IsNext
  <1>4. ASSUME NEW r \in Runs, FinishRun(r) PROVE LocalsOK'
    BY <1>4 DEF FinishRun
  <1>5. ASSUME NEW r \in Runs, LoadAndChunk(r) PROVE LocalsOK'
    BY <1>5 DEF LoadAndChunk
  <1>6. ASSUME NEW r \in Runs, LoadNoText(r) PROVE LocalsOK'
    BY <1>6 DEF LoadNoText, CountDocument, Advance
  <1>7. ASSUME NEW r \in Runs, HashFile(r) PROVE LocalsOK'
    BY <1>7, EntryInHand DEF HashFile
  <1>8. ASSUME NEW r \in Runs, BadFile(r) PROVE LocalsOK'
    BY <1>8 DEF BadFile, RecordError, Advance
  <1>9. ASSUME NEW r \in Runs, UpsertDocument(r) PROVE LocalsOK'
    BY <1>9 DEF UpsertDocument
  <1>10. ASSUME NEW r \in Runs, BeginDelete(r) PROVE LocalsOK'
    BY <1>10 DEF BeginDelete
  <1>11. ASSUME NEW r \in Runs, EndDelete(r) PROVE LocalsOK'
    BY <1>11 DEF EndDelete
  <1>12. ASSUME NEW r \in Runs, InsertChunks(r) PROVE LocalsOK'
    BY <1>12 DEF InsertChunks
  <1>13. ASSUME NEW r \in Runs, InsertFails(r) PROVE LocalsOK'
    BY <1>13 DEF InsertFails, RecordError, Advance
  <1>14. ASSUME NEW r \in Runs, CommitChunks(r) PROVE LocalsOK'
    BY <1>14 DEF CommitChunks, CountDocument, Advance
  <1>15. ASSUME NEW r \in Runs, StartFails(r) PROVE LocalsOK'
    BY <1>15 DEF StartFails
  <1>16. ASSUME NEW r \in Runs, StepFails(r) PROVE LocalsOK'
    <2>1. PICK d : Advance(r, d) BY <1>16 DEF StepFails, RecordError
    <2> QED BY <1>16, <2>1 DEF StepFails, Advance
  <1>17. ASSUME NEW r \in Runs, AnswerLost(r) PROVE LocalsOK'
    BY <1>17 DEF AnswerLost, RecordError, Advance
  <1>18. ASSUME NEW r \in Runs, FinishFails(r) PROVE LocalsOK'
    BY <1>18 DEF FinishFails
  <1>19. ASSUME NEW P \in Processes, Crash(P) PROVE LocalsOK'
    BY <1>19 DEF Crash
  <1>20. ASSUME NEW d \in Docs, NEW v \in Versions, Download(d, v) PROVE LocalsOK'
    BY <1>20 DEF Download
  <1>21. ASSUME NEW d \in Docs, NEW v \in Versions, ReplacePdf(d, v) PROVE LocalsOK'
    BY <1>21 DEF ReplacePdf
  <1>22. CASE UNCHANGED vars
    BY <1>22 DEF vars
  <1> HIDE DEF TypeOK, LocalsOK
  <1>23. ASSUME NEW r \in Runs, RunStep(r) PROVE LocalsOK'
    BY <1>23, <1>2, <1>3, <1>4, <1>5, <1>6, <1>7, <1>8, <1>9, <1>10, <1>11, <1>12, <1>13,
       <1>14, Zenon DEF RunStep
  <1>24. ASSUME NEW r \in Runs, Fault(r) PROVE LocalsOK'
    BY <1>24, <1>15, <1>16, <1>17, <1>18, Zenon DEF Fault
  <1>25. CASE AllEnded
    BY <1>22, <1>25, Zenon DEF AllEnded
  <1> QED
    BY <1>1, <1>19, <1>20, <1>21, <1>22, <1>23, <1>24, <1>25, Zenon DEF Next

-----------------------------------------------------------------------------
(* What a step does to the rows, the open transactions and the work left.   *)

\* No rows are committed, and no run enters a write_chunks transaction or
\* moves on in one.
Quiet ==
    /\ chunks' = chunks
    /\ \A q \in Runs : pc'[q] \in {"deleting"} \cup Locking =>
           pc'[q] = pc[q] /\ del'[q] = del[q] /\ entry'[q] = entry[q]

\* Run r commits its rows and is done with the document.
Commits(r) == pc[r] = "commit" /\ CommitRows(r) /\ Advance(r, entry[r])

\* A run that has started takes up no document again.
WorkShrinks ==
    \A q \in Runs : pc[q] # "idle" => pc'[q] # "idle" /\ todo'[q] \subseteq todo[q]

StepKind ==
    /\ WorkShrinks
    /\ \/ Quiet
       \/ \E r \in Runs : BeginDelete(r) \/ EndDelete(r) \/ InsertChunks(r) \/ Commits(r)

LEMMA StepKinds == ConstantsAssumption /\ TypeOK /\ LocalsOK /\ [Next]_vars => StepKind
  <1> SUFFICES ASSUME ConstantsAssumption, TypeOK, LocalsOK, [Next]_vars PROVE StepKind
    OBVIOUS
  <1> USE DEF TypeOK, LoopTypeOK, StepKind, WorkShrinks, Quiet, diskVars, dbVars, runVars
  <1>1. ASSUME NEW r \in Runs, NEW S \in SUBSET Docs, NEW f \in BOOLEAN, StartRun(r, S, f)
        PROVE  StepKind
    BY <1>1 DEF StartRun
  <1>2. ASSUME NEW r \in Runs, SkipExisting(r) PROVE StepKind
    BY <1>2 DEF SkipExisting, Advance
  <1>3. ASSUME NEW r \in Runs, BeginDocument(r) PROVE StepKind
    BY <1>3 DEF BeginDocument
  <1>4. ASSUME NEW r \in Runs, FinishRun(r) PROVE StepKind
    BY <1>4 DEF FinishRun
  <1>5. ASSUME NEW r \in Runs, LoadAndChunk(r) PROVE StepKind
    BY <1>5 DEF LoadAndChunk
  <1>6. ASSUME NEW r \in Runs, LoadNoText(r) PROVE StepKind
    BY <1>6 DEF LoadNoText, CountDocument, Advance
  <1>7. ASSUME NEW r \in Runs, HashFile(r) PROVE StepKind
    BY <1>7 DEF HashFile
  <1>8. ASSUME NEW r \in Runs, BadFile(r) PROVE StepKind
    BY <1>8 DEF BadFile, RecordError, Advance
  <1>9. ASSUME NEW r \in Runs, UpsertDocument(r) PROVE StepKind
    BY <1>9 DEF UpsertDocument
  <1>10. ASSUME NEW r \in Runs, BeginDelete(r) PROVE StepKind
    BY <1>10 DEF BeginDelete
  <1>11. ASSUME NEW r \in Runs, EndDelete(r) PROVE StepKind
    BY <1>11 DEF EndDelete
  <1>12. ASSUME NEW r \in Runs, InsertChunks(r) PROVE StepKind
    BY <1>12 DEF InsertChunks
  <1>13. ASSUME NEW r \in Runs, InsertFails(r) PROVE StepKind
    BY <1>13 DEF InsertFails, RecordError, Advance
  <1>14. ASSUME NEW r \in Runs, CommitChunks(r) PROVE StepKind
    BY <1>14 DEF CommitChunks, CountDocument, Advance, Commits
  <1>15. ASSUME NEW r \in Runs, StartFails(r) PROVE StepKind
    BY <1>15 DEF StartFails
  <1>16. ASSUME NEW r \in Runs, StepFails(r) PROVE StepKind
    BY <1>16 DEF StepFails, RecordError, Advance
  <1>17. ASSUME NEW r \in Runs, AnswerLost(r) PROVE StepKind
    BY <1>17 DEF AnswerLost, RecordError, Advance, Commits
  <1>18. ASSUME NEW r \in Runs, FinishFails(r) PROVE StepKind
    BY <1>18 DEF FinishFails
  <1>19. ASSUME NEW P \in Processes, Crash(P) PROVE StepKind
    BY <1>19 DEF Crash
  <1>20. ASSUME NEW d \in Docs, NEW v \in Versions, Download(d, v) PROVE StepKind
    BY <1>20 DEF Download
  <1>21. ASSUME NEW d \in Docs, NEW v \in Versions, ReplacePdf(d, v) PROVE StepKind
    BY <1>21 DEF ReplacePdf
  <1>22. CASE UNCHANGED vars
    BY <1>22 DEF vars
  <1> HIDE DEF TypeOK, StepKind
  <1>23. ASSUME NEW r \in Runs, RunStep(r) PROVE StepKind
    BY <1>23, <1>2, <1>3, <1>4, <1>5, <1>6, <1>7, <1>8, <1>9, <1>10, <1>11, <1>12, <1>13,
       <1>14, Zenon DEF RunStep
  <1>24. ASSUME NEW r \in Runs, Fault(r) PROVE StepKind
    BY <1>24, <1>15, <1>16, <1>17, <1>18, Zenon DEF Fault
  <1>25. CASE AllEnded
    BY <1>22, <1>25, Zenon DEF AllEnded
  <1> QED
    BY <1>1, <1>19, <1>20, <1>21, <1>22, <1>23, <1>24, <1>25, Zenon DEF Next

LEMMA WrittenStays ==
    ASSUME WorkShrinks, NEW q \in Runs, NEW d, HasWritten(q, d)
    PROVE  HasWritten(q, d)'
  BY DEF WorkShrinks, HasWritten

-----------------------------------------------------------------------------
(* Wholeness.                                                               *)

\* Committed rows name a run that has written and is done with the document;
\* if there are any, one is at index 0.
LEMMA RowsByWriter ==
    ASSUME IInv, ConstantsAssumption, NEW d \in Docs
    PROVE  /\ \A row \in chunks[d] : row.by \in Runs /\ HasWritten(row.by, d)
           /\ chunks[d] # {} => \E row \in chunks[d] : row.ix = 0
  <1>1. CASE chunks[d] = {} BY <1>1
  <1>2. CASE chunks[d] # {}
    <2>1. PICK v \in Versions, q \in Runs :
              NumChunks[v] > 0 /\ HasWritten(q, d) /\ chunks[d] = RowsOf(v, q)
      BY <1>2 DEF IInv, WrittenWhole
    <2>2. \A row \in chunks[d] : row.by = q BY <2>1 DEF RowsOf
    <2>3. [ix |-> 0, ver |-> v, by |-> q] \in chunks[d] BY <2>1, RowsOfFacts
    <2> QED BY <2>1, <2>2, <2>3
  <1> QED BY <1>1, <1>2

LEMMA QuietKeeps ==
    ASSUME IInv, TypeOK', WorkShrinks, Quiet
    PROVE  WrittenWhole' /\ DeletesWhole' /\ CommitReplacesAll' /\ OneInserter'
  <1>1. WrittenWhole'
    BY WrittenStays DEF IInv, WrittenWhole, Quiet
  <1>2. DeletesWhole'
    <2> SUFFICES ASSUME NEW r \in Runs, pc'[r] \in {"deleting"} \cup Locking
                 PROVE  (/\ \/ del[r] \cap chunks[entry[r]] = {}
                            \/ chunks[entry[r]] \subseteq del[r]
                         /\ \A row \in del[r] : HasWritten(row.by, entry[r]))'
      BY DEF DeletesWhole
    <2>1. pc[r] = pc'[r] /\ del'[r] = del[r] /\ entry'[r] = entry[r] /\ chunks' = chunks
      BY DEF Quiet
    <2>2. \A row \in del[r] : row.by \in Runs
      BY DEF IInv, TypeOK, LoopTypeOK, Row
    <2> QED BY <2>1, <2>2, WrittenStays DEF IInv, DeletesWhole
  <1>3. CommitReplacesAll'
    BY DEF IInv, CommitReplacesAll, Quiet
  <1>4. OneInserter'
    BY DEF IInv, OneInserter, Quiet
  <1> QED BY <1>1, <1>2, <1>3, <1>4

LEMMA BeginDeleteKeeps ==
    ASSUME ConstantsAssumption, IInv, WorkShrinks, NEW r \in Runs, BeginDelete(r)
    PROVE  WrittenWhole' /\ DeletesWhole' /\ CommitReplacesAll' /\ OneInserter'
  <1>1. /\ chunks' = chunks /\ entry' = entry /\ todo' = todo
        /\ \A q \in Runs : q # r => pc'[q] = pc[q] /\ del'[q] = del[q]
        /\ pc'[r] = "deleting" /\ del'[r] = chunks[entry[r]]
    BY DEF BeginDelete, dbVars, IInv, TypeOK, LoopTypeOK
  <1>2. entry[r] \in Docs BY EntryInHand DEF IInv, BeginDelete
  <1>3. \A row \in chunks[entry[r]] : row.by \in Runs /\ HasWritten(row.by, entry[r])
    BY <1>2, RowsByWriter
  <1>4. \A q \in Runs : \A row \in del[q] : row.by \in Runs
    BY DEF IInv, TypeOK, LoopTypeOK, Row
  <1>5. WrittenWhole' BY <1>1, WrittenStays DEF IInv, WrittenWhole
  <1>6. DeletesWhole' BY <1>1, <1>3, <1>4, WrittenStays DEF IInv, DeletesWhole
  <1> QED BY <1>1, <1>5, <1>6 DEF IInv, CommitReplacesAll, OneInserter

LEMMA EndDeleteKeeps ==
    ASSUME ConstantsAssumption, IInv, WorkShrinks, NEW r \in Runs, EndDelete(r)
    PROVE  WrittenWhole' /\ DeletesWhole' /\ CommitReplacesAll' /\ OneInserter'
  <1>1. /\ chunks' = chunks /\ entry' = entry /\ todo' = todo
        /\ \A q \in Runs : q # r => pc'[q] = pc[q] /\ del'[q] = del[q]
        /\ pc[r] = "deleting" /\ pc'[r] = "insert"
        /\ del'[r] = del[r] \cap chunks[entry[r]]
    BY DEF EndDelete, dbVars, IInv, TypeOK, LoopTypeOK
  <1>2. \A q \in Runs : \A row \in del[q] : row.by \in Runs
    BY DEF IInv, TypeOK, LoopTypeOK, Row
  <1>3. WrittenWhole' BY <1>1, WrittenStays DEF IInv, WrittenWhole
  <1>4. DeletesWhole' BY <1>1, <1>2, WrittenStays DEF IInv, DeletesWhole
  <1> QED BY <1>1, <1>3, <1>4 DEF IInv, CommitReplacesAll, OneInserter

\* Passing the UNIQUE constraint means the DELETE saw every committed row:
\* had it seen none, the row at index 0 would be in the way.
LEMMA InsertChunksKeeps ==
    ASSUME ConstantsAssumption, IInv, WorkShrinks, NEW r \in Runs, InsertChunks(r)
    PROVE  WrittenWhole' /\ DeletesWhole' /\ CommitReplacesAll' /\ OneInserter'
  <1>1. /\ chunks' = chunks /\ entry' = entry /\ todo' = todo /\ del' = del
        /\ \A q \in Runs : q # r => pc'[q] = pc[q]
        /\ pc[r] = "insert" /\ pc'[r] = "commit"
    BY DEF InsertChunks, dbVars, IInv, TypeOK, LoopTypeOK
  <1>2. entry[r] \in Docs /\ NumChunks[read[r]] > 0
    BY <1>1, EntryInHand DEF IInv
  <1>3. \A q \in Runs : \A row \in del[q] : row.by \in Runs
    BY DEF IInv, TypeOK, LoopTypeOK, Row
  <1>4. chunks[entry[r]] \subseteq del[r]
    <2> SUFFICES ASSUME del[r] \cap chunks[entry[r]] = {}, chunks[entry[r]] # {}
                 PROVE  FALSE
      BY <1>1 DEF IInv, DeletesWhole
    <2>1. PICK row \in chunks[entry[r]] : row.ix = 0 BY <1>2, RowsByWriter
    <2>2. row \in Conflicting(r) BY <1>2, <2>1 DEF Conflicting
    <2> QED BY <2>2 DEF InsertChunks, InsertRejected
  <1>5. \A q \in Runs : pc[q] = "commit" => entry[q] # entry[r]
    BY <1>1 DEF InsertChunks, MustWait, SameDoc
  <1>6. WrittenWhole' BY <1>1, WrittenStays DEF IInv, WrittenWhole
  <1>7. DeletesWhole' BY <1>1, <1>3, WrittenStays DEF IInv, DeletesWhole
  <1>8. CommitReplacesAll' BY <1>1, <1>4 DEF IInv, CommitReplacesAll
  <1>9. OneInserter' BY <1>1, <1>5 DEF IInv, OneInserter
  <1> QED BY <1>6, <1>7, <1>8, <1>9

\* The commit leaves exactly the run's own rows.
LEMMA CommitReplaces ==
    ASSUME ConstantsAssumption, IInv, NEW r \in Runs, Commits(r)
    PROVE  /\ entry[r] \in Docs /\ entry[r] \in todo[r]
           /\ read[r] \in Versions /\ NumChunks[read[r]] > 0
           /\ chunks' = [chunks EXCEPT ![entry[r]] = RowsOf(read[r], r)]
  <1>1. entry[r] \in Docs /\ entry[r] \in todo[r]
        /\ read[r] \in Versions /\ NumChunks[read[r]] > 0
    BY EntryInHand DEF IInv, Commits
  <1>2. chunks[entry[r]] \ del[r] = {}
    BY DEF IInv, CommitReplacesAll, Commits
  <1> QED BY <1>1, <1>2 DEF Commits, CommitRows

LEMMA CommitsKeeps ==
    ASSUME ConstantsAssumption, IInv, WorkShrinks, NEW r \in Runs, Commits(r)
    PROVE  WrittenWhole' /\ DeletesWhole' /\ CommitReplacesAll' /\ OneInserter'
  <1> DEFINE d == entry[r]
  <1>1. /\ d \in Docs /\ d \in todo[r]
        /\ read[r] \in Versions /\ NumChunks[read[r]] > 0
        /\ chunks' = [chunks EXCEPT ![d] = RowsOf(read[r], r)]
    BY CommitReplaces
  <1>2. /\ \A q \in Runs : q # r => /\ pc'[q] = pc[q] /\ del'[q] = del[q]
                                    /\ entry'[q] = entry[q] /\ todo'[q] = todo[q]
        /\ pc[r] = "commit" /\ pc'[r] = "next" /\ todo'[r] = todo[r] \ {d}
    BY DEF Commits, Advance, IInv, TypeOK, LoopTypeOK
  <1>3. chunks \in [Docs -> SUBSET Row] BY DEF IInv, TypeOK, DbTypeOK
  <1>4. \A q \in Runs : \A row \in del[q] : row.by \in Runs
    BY DEF IInv, TypeOK, LoopTypeOK, Row
  <1>5. WrittenWhole'
    <2> SUFFICES ASSUME NEW e \in Docs, chunks'[e] # {}
                 PROVE  (\E v \in Versions, q \in Runs :
                           NumChunks[v] > 0 /\ HasWritten(q, e) /\ chunks[e] = RowsOf(v, q))'
      BY DEF WrittenWhole
    <2>1. CASE e = d
      BY <1>1, <1>2, <1>3, <2>1 DEF HasWritten
    <2>2. CASE e # d
      <3>1. chunks'[e] = chunks[e] BY <1>1, <1>3, <2>2
      <3> QED BY <3>1, WrittenStays DEF IInv, WrittenWhole
    <2> QED BY <2>1, <2>2
  <1>6. DeletesWhole'
    <2> SUFFICES ASSUME NEW q \in Runs, pc'[q] \in {"deleting"} \cup Locking
                 PROVE  (/\ \/ del[q] \cap chunks[entry[q]] = {}
                            \/ chunks[entry[q]] \subseteq del[q]
                         /\ \A row \in del[q] : HasWritten(row.by, entry[q]))'
      BY DEF DeletesWhole
    <2>1. q # r /\ pc'[q] = pc[q] /\ del'[q] = del[q] /\ entry'[q] = entry[q] BY <1>2
    <2>2. /\ \/ del[q] \cap chunks[entry[q]] = {}
             \/ chunks[entry[q]] \subseteq del[q]
          /\ \A row \in del[q] : HasWritten(row.by, entry[q])
      BY <2>1 DEF IInv, DeletesWhole
    <2>3. \A row \in del[q] : HasWritten(row.by, entry[q])'
      BY <1>4, <2>1, <2>2, WrittenStays
    <2>4. CASE entry[q] = d
      <3>1. \A row \in del[q] : row.by # r BY <1>1, <2>2, <2>4 DEF HasWritten
      <3>2. \A row \in chunks'[d] : row.by = r BY <1>1, <1>3, RowsOfFacts
      <3> QED BY <2>1, <2>3, <2>4, <3>1, <3>2
    <2>5. CASE entry[q] # d
      <3>1. chunks'[entry[q]] = chunks[entry[q]] BY <1>1, <2>5
      <3> QED BY <2>1, <2>2, <2>3, <3>1
    <2> QED BY <2>4, <2>5
  <1>7. CommitReplacesAll'
    <2> SUFFICES ASSUME NEW q \in Runs, pc'[q] = "commit"
                 PROVE  (chunks[entry[q]] \subseteq del[q])'
      BY DEF CommitReplacesAll
    <2>1. q # r /\ pc[q] = "commit" /\ del'[q] = del[q] /\ entry'[q] = entry[q] BY <1>2
    <2>2. entry[q] # d BY <1>2, <2>1 DEF IInv, OneInserter
    <2>3. chunks'[entry[q]] = chunks[entry[q]] BY <1>1, <2>2
    <2> QED BY <2>1, <2>3 DEF IInv, CommitReplacesAll
  <1>8. OneInserter'
    BY <1>2 DEF IInv, OneInserter
  <1> QED BY <1>5, <1>6, <1>7, <1>8

LEMMA InvariantStep == ConstantsAssumption /\ IInv /\ [Next]_vars => IInv'
  <1> SUFFICES ASSUME ConstantsAssumption, IInv, [Next]_vars PROVE IInv'
    OBVIOUS
  <1>1. TypeOK' BY TypeStep DEF IInv
  <1>2. LocalsOK' BY LocalsStep DEF IInv
  <1>3. StepKind BY StepKinds DEF IInv
  <1>4. WrittenWhole' /\ DeletesWhole' /\ CommitReplacesAll' /\ OneInserter'
    BY <1>1, <1>3, QuietKeeps, BeginDeleteKeeps, EndDeleteKeeps, InsertChunksKeeps,
       CommitsKeeps DEF StepKind
  <1> QED BY <1>1, <1>2, <1>4 DEF IInv

-----------------------------------------------------------------------------
(* The theorems.                                                            *)

\* IInv holds in every reachable state.
THEOREM Invariant == Spec => []IInv
  <1>1. Init => IInv BY ConstantsAssumption, InitInvariant
  <1>2. IInv /\ [Next]_vars => IInv' BY ConstantsAssumption, InvariantStep
  <1> QED BY <1>1, <1>2, PTL DEF Spec

\* Every variable keeps to its type: the ingestion tables to the statuses and
\* keys of their columns, each run's locals to the manifest.
THEOREM TypeCorrect == Spec => []TypeOK
  <1>1. IInv => TypeOK BY DEF IInv
  <1> QED BY <1>1, Invariant, PTL

\* Whatever runs overlap, fail or die, the chunk rows of a document are one
\* whole version written by one run (write_chunks, store.py:82-110).
THEOREM ChunksAlwaysWhole == Spec => []ChunksWhole
  <1>1. IInv => ChunksWhole BY DEF IInv, WrittenWhole, ChunksWhole
  <1> QED BY <1>1, Invariant, PTL

-----------------------------------------------------------------------------
(* The runs implement CorpusStore.                                          *)

\* The step does nothing the abstract store can see.
LEMMA Stutters ==
    ASSUME chunks' = chunks, todo' = todo,
           \A q \in Runs : \/ pc'[q] = pc[q]
                           \/ pc[q] \in Active /\ pc'[q] \in Active
    PROVE  UNCHANGED Store!storeVars
  BY DEF Store!storeVars

\* The run is done with a document it has not written.
LEMMA Leaves ==
    ASSUME TypeOK, NEW r \in Runs, NEW d \in Docs, d \in todo[r], pc[r] \in Active,
           Advance(r, d), chunks' = chunks
    PROVE  Store!StoreNext
  <1>1. Store!Leave(r, d) BY DEF TypeOK, LoopTypeOK, Advance, Store!Leave
  <1> QED BY <1>1 DEF Store!StoreNext

LEMMA Replaces ==
    ASSUME ConstantsAssumption, IInv, NEW r \in Runs, Commits(r)
    PROVE  Store!StoreNext
  <1>1. Store!RowsOf(read[r], r) = RowsOf(read[r], r) BY DEF RowsOf, Store!RowsOf
  <1>2. /\ entry[r] \in Docs /\ entry[r] \in todo[r] /\ read[r] \in Versions
        /\ chunks' = [chunks EXCEPT ![entry[r]] = RowsOf(read[r], r)]
    BY CommitReplaces
  <1>3. pc \in [Runs -> {"idle"} \cup Active \cup Ended] /\ todo \in [Runs -> SUBSET Docs]
        /\ pc[r] = "commit" /\ pc' = [pc EXCEPT ![r] = "next"]
        /\ todo' = [todo EXCEPT ![r] = @ \ {entry[r]}]
    BY DEF IInv, TypeOK, LoopTypeOK, Commits, Advance
  <1>4. PICK d \in Docs, v \in Versions : d = entry[r] /\ v = read[r] BY <1>2
  <1>5. Store!Replace(r, d, v) BY <1>1, <1>2, <1>3, <1>4 DEF Store!Replace
  <1> QED BY <1>5 DEF Store!StoreNext

\* The runs in R end.
LEMMA Closes ==
    ASSUME TypeOK, NEW R \in SUBSET Runs, chunks' = chunks, todo' = todo,
           \A q \in R : pc'[q] \in Ended, \A q \in Runs \ R : pc'[q] = pc[q]
    PROVE  Store!StoreNext
  <1>1. Store!Close(R) BY DEF TypeOK, LoopTypeOK, Store!Close
  <1> QED BY <1>1 DEF Store!StoreNext

LEMMA ClosesOne ==
    ASSUME TypeOK, NEW r \in Runs, NEW e \in Ended, chunks' = chunks, todo' = todo,
           pc' = [pc EXCEPT ![r] = e]
    PROVE  Store!StoreNext
  <1>1. \A q \in {r} : pc'[q] \in Ended BY DEF TypeOK, LoopTypeOK
  <1>2. \A q \in Runs \ {r} : pc'[q] = pc[q] BY DEF TypeOK, LoopTypeOK
  <1> QED BY <1>1, <1>2, {r} \in SUBSET Runs, Closes, Zenon

LEMMA Opens ==
    ASSUME TypeOK, NEW r \in Runs, NEW S \in SUBSET Docs, NEW f \in BOOLEAN,
           StartRun(r, S, f)
    PROVE  Store!StoreNext
  <1>1. /\ pc \in [Runs -> {"idle"} \cup Active \cup Ended] /\ todo \in [Runs -> SUBSET Docs]
        /\ pc[r] = "idle" /\ pc' = [pc EXCEPT ![r] = "next"]
        /\ todo' = [todo EXCEPT ![r] = S] /\ chunks' = chunks
    BY DEF TypeOK, LoopTypeOK, StartRun
  <1>2. Store!Open(r, S) BY <1>1 DEF Store!Open
  <1> QED BY <1>2 DEF Store!StoreNext

LEMMA StoreStep ==
    ConstantsAssumption /\ IInv /\ [Next]_vars => [Store!StoreNext]_(Store!storeVars)
  <1> DEFINE Implemented == Store!StoreNext \/ UNCHANGED Store!storeVars
  <1> SUFFICES ASSUME ConstantsAssumption, IInv, [Next]_vars PROVE Implemented
    OBVIOUS
  <1>a. TypeOK /\ LocalsOK BY DEF IInv
  <1>1. ASSUME NEW r \in Runs, NEW S \in SUBSET Docs, NEW f \in BOOLEAN, StartRun(r, S, f)
        PROVE  Implemented
    BY <1>1, <1>a, Opens
  <1>2. ASSUME NEW r \in Runs, SkipExisting(r) PROVE Implemented
    BY <1>2, <1>a, Leaves DEF SkipExisting, IsNext, dbVars
  <1>3. ASSUME NEW r \in Runs, BeginDocument(r) PROVE Implemented
    BY <1>3, <1>a, Stutters DEF BeginDocument, TypeOK, LoopTypeOK, dbVars
  <1>4. ASSUME NEW r \in Runs, FinishRun(r) PROVE Implemented
    BY <1>4, <1>a, ClosesOne DEF FinishRun
  <1>5. ASSUME NEW r \in Runs, LoadAndChunk(r) PROVE Implemented
    BY <1>5, <1>a, Stutters DEF LoadAndChunk, TypeOK, LoopTypeOK, dbVars
  <1>6. ASSUME NEW r \in Runs, LoadNoText(r) PROVE Implemented
    BY <1>6, <1>a, EntryInHand, Leaves DEF LoadNoText, CountDocument, dbVars
  <1>7. ASSUME NEW r \in Runs, HashFile(r) PROVE Implemented
    BY <1>7, <1>a, Stutters DEF HashFile, TypeOK, LoopTypeOK, dbVars
  <1>8. ASSUME NEW r \in Runs, BadFile(r) PROVE Implemented
    BY <1>8, <1>a, EntryInHand, Leaves DEF BadFile, RecordError, dbVars
  <1>9. ASSUME NEW r \in Runs, UpsertDocument(r) PROVE Implemented
    BY <1>9, <1>a, Stutters DEF UpsertDocument, TypeOK, LoopTypeOK, dbVars
  <1>10. ASSUME NEW r \in Runs, BeginDelete(r) PROVE Implemented
    BY <1>10, <1>a, Stutters DEF BeginDelete, TypeOK, LoopTypeOK, dbVars
  <1>11. ASSUME NEW r \in Runs, EndDelete(r) PROVE Implemented
    BY <1>11, <1>a, Stutters DEF EndDelete, TypeOK, LoopTypeOK, dbVars
  <1>12. ASSUME NEW r \in Runs, InsertChunks(r) PROVE Implemented
    BY <1>12, <1>a, Stutters DEF InsertChunks, TypeOK, LoopTypeOK, dbVars
  <1>13. ASSUME NEW r \in Runs, InsertFails(r) PROVE Implemented
    BY <1>13, <1>a, EntryInHand, Leaves DEF InsertFails, RecordError, dbVars
  <1>14. ASSUME NEW r \in Runs, CommitChunks(r) PROVE Implemented
    BY <1>14, Replaces DEF CommitChunks, CountDocument, Commits
  <1>15. ASSUME NEW r \in Runs, StartFails(r) PROVE Implemented
    BY <1>15, <1>a, ClosesOne DEF StartFails
  <1>16. ASSUME NEW r \in Runs, StepFails(r) PROVE Implemented
    BY <1>16, <1>a, EntryInHand, Leaves DEF StepFails, RecordError, IsNext, dbVars
  <1>17. ASSUME NEW r \in Runs, AnswerLost(r) PROVE Implemented
    <2>1. CASE pc[r] = "upsert"
      BY <1>17, <2>1, <1>a, EntryInHand, Leaves DEF AnswerLost, RecordError
    <2>2. CASE pc[r] = "commit"
      BY <1>17, <2>2, Replaces DEF AnswerLost, RecordError, Commits
    <2> QED BY <1>17, <2>1, <2>2 DEF AnswerLost
  <1>18. ASSUME NEW r \in Runs, FinishFails(r) PROVE Implemented
    BY <1>18, <1>a, ClosesOne DEF FinishFails
  <1>19. ASSUME NEW P \in Processes, Crash(P) PROVE Implemented
    <2> DEFINE R == {r \in Runs : r \in P /\ pc[r] \in Active}
    <2>1. \A q \in R : pc'[q] \in Ended BY <1>19 DEF Crash
    <2>2. \A q \in Runs \ R : pc'[q] = pc[q] BY <1>19 DEF Crash
    <2>3. chunks' = chunks /\ todo' = todo BY <1>19 DEF Crash, dbVars
    <2> HIDE DEF Implemented
    <2>4. Store!StoreNext BY <2>1, <2>2, <2>3, <1>a, Closes
    <2> QED BY <2>4 DEF Implemented
  <1>20. ASSUME NEW d \in Docs, NEW v \in Versions, Download(d, v) PROVE Implemented
    BY <1>20, Stutters DEF Download, dbVars, runVars
  <1>21. ASSUME NEW d \in Docs, NEW v \in Versions, ReplacePdf(d, v) PROVE Implemented
    BY <1>21, Stutters DEF ReplacePdf, dbVars, runVars
  <1>22. CASE UNCHANGED vars
    BY <1>22, Stutters DEF vars, dbVars, runVars
  <1> HIDE DEF Implemented
  <1>23. ASSUME NEW r \in Runs, RunStep(r) PROVE Implemented
    BY <1>23, <1>2, <1>3, <1>4, <1>5, <1>6, <1>7, <1>8, <1>9, <1>10, <1>11, <1>12, <1>13,
       <1>14, Zenon DEF RunStep
  <1>24. ASSUME NEW r \in Runs, Fault(r) PROVE Implemented
    BY <1>24, <1>15, <1>16, <1>17, <1>18, Zenon DEF Fault
  <1>25. CASE AllEnded
    BY <1>22, <1>25, Zenon DEF AllEnded
  <1> QED
    BY <1>1, <1>19, <1>20, <1>21, <1>22, <1>23, <1>24, <1>25, Zenon DEF Next

\* The ingestion runs implement the store a reader of the chunks table relies
\* on: chunks change only as a whole, by an open run that was asked for the
\* document, at most once per run (pipeline.py:97-163, store.py:67-112).
THEOREM RunsImplementStore == Spec => ImplementsStore
  <1>1. Init => Store!StoreInit BY DEF Init, Store!StoreInit
  <1>2. IInv /\ [Next]_vars => [Store!StoreNext]_(Store!storeVars)
    BY ConstantsAssumption, StoreStep
  <1> QED BY <1>1, <1>2, Invariant, PTL DEF Spec, ImplementsStore, Store!StoreSpec

-----------------------------------------------------------------------------
(* Documents without chunks.                                                *)

\* What explains that document d has a row and no chunks, when it has.
Cause(r, d) == (entry[r] = d /\ pc[r] \in Writing) \/ d \in torn[r]

\* A step empties no document, keeps the causes of one that has a row and no
\* chunks, and gives a row it writes a cause.
Explains ==
    /\ \A d \in Docs : chunks'[d] = {} /\ documents[d] # None =>
          chunks[d] = {} /\ \A q \in Runs : Cause(q, d) => Cause(q, d)'
    /\ \A d \in Docs : documents'[d] = documents[d] \/ \E q \in Runs : Cause(q, d)'

\* A run that is done with document d takes a cause away only if it stood
\* between the two transactions of d and leaves without noting it.
LEMMA AdvanceExplains ==
    ASSUME TypeOK, NEW r \in Runs, NEW d \in Docs, Advance(r, d),
           entry[r] = d \/ pc[r] \notin Writing,
           \A q \in Runs : torn[q] \subseteq torn'[q]
    PROVE  \A e \in Docs, q \in Runs :
              Cause(q, e) /\ (pc[r] \notin Writing \/ e # d \/ d \in torn'[r])
                  => Cause(q, e)'
  <1>t. /\ pc \in [Runs -> {"idle"} \cup Active \cup Ended]
        /\ entry \in [Runs -> Docs \cup {None}]
    BY DEF TypeOK, LoopTypeOK
  <1>1. /\ pc' = [pc EXCEPT ![r] = "next"] /\ entry' = [entry EXCEPT ![r] = None]
    BY DEF Advance
  <1>2. \A q \in Runs : q # r => pc'[q] = pc[q] /\ entry'[q] = entry[q]
    BY <1>t, <1>1
  <1>3. \A e \in Docs :
            Cause(r, e) /\ (pc[r] \notin Writing \/ e # d \/ d \in torn'[r]) => Cause(r, e)'
    BY DEF Cause
  <1>4. \A e \in Docs, q \in Runs : q # r /\ Cause(q, e) => Cause(q, e)'
    BY <1>2 DEF Cause
  <1> QED BY <1>3, <1>4

\* A commit leaves its document with chunks, and the others alone.
LEMMA CommitRowsFills ==
    ASSUME ConstantsAssumption, TypeOK, NEW r \in Runs, entry[r] \in Docs,
           read[r] \in Versions, NumChunks[read[r]] > 0, CommitRows(r)
    PROVE  /\ chunks'[entry[r]] # {}
           /\ \A d \in Docs : d # entry[r] => chunks'[d] = chunks[d]
  <1>1. [ix |-> 0, ver |-> read[r], by |-> r] \in RowsOf(read[r], r)
    BY RowsOfFacts
  <1> QED BY <1>1 DEF TypeOK, DbTypeOK, CommitRows

LEMMA StepExplains ==
    ConstantsAssumption /\ TypeOK /\ LocalsOK /\ [Next]_vars => Explains
  <1> SUFFICES ASSUME ConstantsAssumption, TypeOK, LocalsOK, [Next]_vars PROVE Explains
    OBVIOUS
  <1>t. /\ pc \in [Runs -> {"idle"} \cup Active \cup Ended]
        /\ entry \in [Runs -> Docs \cup {None}]
        /\ documents \in [Docs -> Versions \cup {None}]
        /\ torn \in [Runs -> SUBSET Docs]
    BY DEF TypeOK, DbTypeOK, LoopTypeOK, TallyTypeOK
  <1>1. ASSUME UNCHANGED <<documents, chunks, entry, torn>>,
               NEW r \in Runs, NEW p, pc' = [pc EXCEPT ![r] = p],
               pc[r] \in Writing => p \in Writing
        PROVE  Explains
    BY <1>t, <1>1 DEF Explains, Cause
  <1>2. ASSUME NEW r \in Runs, NEW S \in SUBSET Docs, NEW f \in BOOLEAN, StartRun(r, S, f)
        PROVE  Explains
    BY <1>1, <1>2 DEF StartRun
  <1>3. ASSUME NEW r \in Runs, SkipExisting(r) PROVE Explains
    <2>1. PICK d \in Docs : Advance(r, d) BY <1>3 DEF SkipExisting
    <2>2. /\ pc' = [pc EXCEPT ![r] = "next"] /\ entry' = [entry EXCEPT ![r] = None]
          /\ pc[r] = "next" /\ UNCHANGED <<documents, chunks, torn>>
      BY <1>3, <2>1 DEF SkipExisting, Advance, dbVars
    <2> QED BY <1>t, <2>2 DEF Explains, Cause
  <1>4. ASSUME NEW r \in Runs, BeginDocument(r) PROVE Explains
    <2>1. PICK d \in Docs : entry' = [entry EXCEPT ![r] = d]
      BY <1>4 DEF BeginDocument
    <2>2. /\ pc' = [pc EXCEPT ![r] = "load"]
          /\ pc[r] = "next" /\ UNCHANGED <<documents, chunks, torn>>
      BY <1>4 DEF BeginDocument, dbVars
    <2> QED BY <1>t, <2>1, <2>2 DEF Explains, Cause
  <1>5. ASSUME NEW r \in Runs,
               \/ FinishRun(r) \/ LoadAndChunk(r) \/ HashFile(r) \/ BeginDelete(r)
               \/ EndDelete(r) \/ InsertChunks(r) \/ StartFails(r) \/ FinishFails(r)
        PROVE  Explains
    <2>1. /\ UNCHANGED <<documents, chunks, entry, torn>>
          /\ \/ \E p \in {"done", "hash", "upsert", "gone"} :
                   pc' = [pc EXCEPT ![r] = p] /\ pc[r] \in {"idle", "next", "load", "hash"}
             \/ \E p \in {"deleting", "insert", "commit"} : pc' = [pc EXCEPT ![r] = p]
      BY <1>5 DEF FinishRun, LoadAndChunk, HashFile, BeginDelete, EndDelete,
         InsertChunks, StartFails, FinishFails, dbVars
    <2> QED BY <1>1, <2>1 DEF Writing, Locking
  <1>6. ASSUME NEW r \in Runs, LoadNoText(r) \/ BadFile(r) PROVE Explains
    <2>1. entry[r] \in Docs BY <1>6, EntryInHand DEF LoadNoText, BadFile
    <2>2. /\ Advance(r, entry[r]) /\ pc[r] \in {"load", "hash"}
          /\ UNCHANGED <<documents, chunks, torn>>
      BY <1>6 DEF LoadNoText, BadFile, CountDocument, RecordError, dbVars
    <2>3. \A e \in Docs, q \in Runs : Cause(q, e) => Cause(q, e)'
      BY <2>1, <2>2, AdvanceExplains DEF Writing, Locking
    <2> QED BY <2>2, <2>3 DEF Explains
  <1>7. ASSUME NEW r \in Runs, InsertFails(r) PROVE Explains
    <2>1. entry[r] \in Docs BY <1>7, EntryInHand DEF InsertFails
    <2>2. /\ Advance(r, entry[r]) /\ UNCHANGED <<documents, chunks, torn>>
      BY <1>7 DEF InsertFails, RecordError, dbVars
    <2>3. documents[entry[r]] = None \/ chunks[entry[r]] # {}
      BY <1>7 DEF InsertFails, InsertRejected, Conflicting
    <2>4. \A e \in Docs, q \in Runs : e # entry[r] /\ Cause(q, e) => Cause(q, e)'
      BY <2>1, <2>2, AdvanceExplains
    <2> QED BY <2>1, <2>2, <2>3, <2>4 DEF Explains
  <1>8. ASSUME NEW r \in Runs, UpsertDocument(r) PROVE Explains
    <2>1. /\ pc[r] = "upsert" /\ pc' = [pc EXCEPT ![r] = "delete"]
          /\ documents' = [documents EXCEPT ![entry[r]] = sha[r]]
          /\ UNCHANGED <<chunks, entry, torn>>
      BY <1>8 DEF UpsertDocument
    <2>3. \A d \in Docs : d # entry[r] => documents'[d] = documents[d] BY <1>t, <2>1
    <2>4. \A e \in Docs, q \in Runs : Cause(q, e) => Cause(q, e)'
      BY <1>t, <2>1 DEF Cause, Writing, Locking
    <2>5. \A d \in Docs : d = entry[r] => Cause(r, d)'
      BY <1>t, <2>1 DEF Cause, Writing
    <2> QED BY <2>1, <2>3, <2>4, <2>5 DEF Explains
  <1>9. ASSUME NEW r \in Runs, CommitChunks(r) PROVE Explains
    <2>1. /\ entry[r] \in Docs /\ read[r] \in Versions /\ NumChunks[read[r]] > 0
      BY <1>9, EntryInHand DEF CommitChunks
    <2>2. /\ CommitRows(r) /\ Advance(r, entry[r])
          /\ documents' = documents /\ torn' = torn
      BY <1>9 DEF CommitChunks, CountDocument
    <2>3. /\ chunks'[entry[r]] # {}
          /\ \A d \in Docs : d # entry[r] => chunks'[d] = chunks[d]
      BY <2>1, <2>2, CommitRowsFills
    <2>4. \A e \in Docs, q \in Runs : e # entry[r] /\ Cause(q, e) => Cause(q, e)'
      BY <2>1, <2>2, AdvanceExplains
    <2> QED BY <2>2, <2>3, <2>4 DEF Explains
  <1>10. ASSUME NEW r \in Runs, StepFails(r) PROVE Explains
    <2>1. UNCHANGED <<documents, chunks>> BY <1>10 DEF StepFails, dbVars
    <2>2. CASE pc[r] \in {"next", "load", "hash", "upsert"}
      <3>1. (\E d \in Docs : Advance(r, d)) /\ torn' = torn
        BY <1>10, <2>2, EntryInHand DEF StepFails, RecordError, Writing, Locking
      <3>2. \A e \in Docs, q \in Runs : Cause(q, e) => Cause(q, e)'
        BY <2>2, <3>1, AdvanceExplains DEF Writing, Locking
      <3> QED BY <2>1, <3>2 DEF Explains
    <2>3. CASE pc[r] \in Writing
      <3>1. /\ entry[r] \in Docs /\ Advance(r, entry[r])
            /\ torn' = [torn EXCEPT ![r] = torn[r] \cup {entry[r]}]
        BY <1>10, <2>3, EntryInHand DEF StepFails, RecordError, Writing, Locking
      <3>2. entry[r] \in torn'[r] /\ \A q \in Runs : torn[q] \subseteq torn'[q]
        BY <1>t, <3>1
      <3>3. \A e \in Docs, q \in Runs : Cause(q, e) => Cause(q, e)'
        BY <3>1, <3>2, AdvanceExplains
      <3> QED BY <2>1, <3>3 DEF Explains
    <2> QED BY <1>10, <2>2, <2>3 DEF StepFails
  <1>11. ASSUME NEW r \in Runs, AnswerLost(r) PROVE Explains
    <2>1. entry[r] \in Docs /\ Advance(r, entry[r])
      BY <1>11, EntryInHand DEF AnswerLost, RecordError
    <2>2. PICK d \in Docs : d = entry[r] BY <2>1
    <2>3. CASE pc[r] = "upsert" /\ chunks' = chunks
      <3>1. /\ documents' = [documents EXCEPT ![d] = sha[r]]
            /\ torn' = [torn EXCEPT ![r] = torn[r] \cup {d}]
        BY <1>11, <2>2, <2>3 DEF AnswerLost
      <3>2. \A e \in Docs : e # d => documents'[e] = documents[e] BY <1>t, <3>1
      <3>3. d \in torn'[r] /\ \A q \in Runs : torn[q] \subseteq torn'[q]
        BY <1>t, <3>1
      <3>4. \A e \in Docs, q \in Runs : Cause(q, e) => Cause(q, e)'
        BY <2>1, <3>3, AdvanceExplains, <2>2
      <3>5. Cause(r, d)' BY <3>3 DEF Cause
      <3> QED BY <2>3, <3>2, <3>4, <3>5 DEF Explains
    <2>4. CASE pc[r] = "commit" /\ CommitRows(r)
      <3>1. documents' = documents /\ torn' = torn
        BY <1>11, <2>4 DEF AnswerLost
      <3>2. read[r] \in Versions /\ NumChunks[read[r]] > 0
        BY <2>4, EntryInHand
      <3>3. chunks'[d] # {} /\ \A e \in Docs : e # d => chunks'[e] = chunks[e]
        BY <2>1, <2>2, <2>4, <3>2, CommitRowsFills
      <3>4. \A e \in Docs, q \in Runs : e # d /\ Cause(q, e) => Cause(q, e)'
        BY <2>1, <2>2, <3>1, AdvanceExplains
      <3> QED BY <3>1, <3>3, <3>4 DEF Explains
    <2> QED BY <1>11, <2>3, <2>4 DEF AnswerLost
  <1>12. ASSUME NEW P \in Processes, Crash(P) PROVE Explains
    <2>1. UNCHANGED <<documents, chunks, entry>>
      BY <1>12 DEF Crash, dbVars
    <2>2. \A q \in Runs :
            /\ torn[q] \subseteq torn'[q]
            /\ pc[q] \in Writing => pc'[q] = pc[q] \/ entry[q] \in torn'[q]
      BY <1>12 DEF Crash
    <2>3. \A e \in Docs, q \in Runs : Cause(q, e) => Cause(q, e)'
      BY <2>1, <2>2 DEF Cause
    <2> QED BY <2>1, <2>3 DEF Explains
  <1>13. ASSUME UNCHANGED vars \/ \E d \in Docs, v \in Versions : Download(d, v) \/ ReplacePdf(d, v)
         PROVE  Explains
    <2>1. UNCHANGED <<documents, chunks, entry, torn, pc>>
      BY <1>13 DEF vars, dbVars, runVars, Download, ReplacePdf
    <2> QED BY <2>1 DEF Explains, Cause
  <1> QED BY <1>2, <1>3, <1>4, <1>5, <1>6, <1>7, <1>8, <1>9, <1>10, <1>11, <1>12, <1>13
          DEF Next, RunStep, Fault, AllEnded

\* A documents row without chunk rows has its cause in a run that is between
\* its two transactions, or has failed or died there, whatever runs overlap
\* (pipeline.py:76-87).
THEOREM EmptyDocumentsHaveCause == Spec => []EmptyDocumentExplained
  <1>1. Init => EmptyDocumentExplained BY DEF Init, EmptyDocumentExplained
  <1>2. IInv /\ EmptyDocumentExplained /\ [Next]_vars => EmptyDocumentExplained'
    <2> SUFFICES ASSUME IInv, EmptyDocumentExplained, [Next]_vars,
                        NEW d \in Docs, documents'[d] # None, chunks'[d] = {}
                 PROVE  \E q \in Runs : Cause(q, d)'
      BY DEF EmptyDocumentExplained, Cause
    <2>1. Explains BY ConstantsAssumption, StepExplains DEF IInv
    <2>2. CASE documents'[d] = documents[d]
      <3>1. \E q \in Runs : Cause(q, d)
        BY <2>1, <2>2 DEF Explains, EmptyDocumentExplained, Cause
      <3> QED BY <2>1, <3>1 DEF Explains
    <2>3. CASE documents'[d] # documents[d]
      BY <2>1, <2>3 DEF Explains
    <2> QED BY <2>2, <2>3
  <1> QED BY <1>1, <1>2, Invariant, PTL DEF Spec

-----------------------------------------------------------------------------
(* The accounts of a run.  Without an error it has counted every document   *)
(* it has passed and not skipped, one by one: those it wrote, and those N   *)
(* that had no text.  Only the latter can be without a row.                 *)

Passed(r) == req[r] \ todo[r]
Written(r) == {w[1] : w \in wrote[r]}

AccountsFit(r) ==
    \E N \in SUBSET Passed(r) :
        /\ tally[r].docs = Cardinality(N) + Cardinality(Written(r))
        /\ \A d \in Passed(r) : documents[d] = None => d \in N

StageFits(r) ==
    /\ todo[r] \subseteq req[r]
    /\ pc[r] = "idle" => req[r] = {}
    /\ pc[r] \in Writing => documents[entry[r]] # None
    /\ result[r] # "none" => pc[r] = "done"
    /\ result[r] = "success" => todo[r] = {} /\ tally[r].errors = {}

AccountOf(r) ==
    /\ StageFits(r)
    /\ tally[r].errors = {} => Written(r) \subseteq Passed(r) /\ AccountsFit(r)

Accounts == \A r \in Runs : AccountOf(r)

\* Rows of documents stay.
RowsStay == \A d \in Docs : documents[d] # None => documents'[d] # None

\* The types that the accounts need.
AccountTypes ==
    /\ pc \in [Runs -> {"idle"} \cup Active \cup Ended]
    /\ req \in [Runs -> SUBSET Docs] /\ todo \in [Runs -> SUBSET Docs]
    /\ entry \in [Runs -> Docs \cup {None}]
    /\ tally \in [Runs -> [docs : Nat, chunks : Nat, errors : SUBSET Docs]]
    /\ result \in [Runs -> {"none", "success", "partial", "failed"}]
    /\ wrote \in [Runs -> SUBSET (Docs \X Versions)]
    /\ documents \in [Docs -> Versions \cup {None}]

\* What a run has passed and written are finite sets of documents.
LEMMA PassedFinite ==
    ASSUME ConstantsAssumption, AccountTypes, NEW r \in Runs
    PROVE  IsFiniteSet(Passed(r)) /\ Passed(r) \subseteq Docs
  <1>1. IsFiniteSet(Docs) BY FS_Interval DEF ConstantsAssumption
  <1>2. Passed(r) \subseteq Docs BY DEF AccountTypes, Passed
  <1> QED BY <1>1, <1>2, FS_Subset

\* A run of which only the position changes keeps its account.
LEMMA AccountKept ==
    ASSUME AccountTypes, RowsStay, NEW r \in Runs, AccountOf(r),
           req'[r] = req[r], todo'[r] = todo[r], tally'[r] = tally[r], wrote'[r] = wrote[r],
           result'[r] = result[r], pc'[r] = "idle" => pc[r] = "idle",
           pc[r] = "done" => pc'[r] = "done",
           pc'[r] \in Writing => documents'[entry'[r]] # None
    PROVE  AccountOf(r)'
  <1>1. Passed(r)' = Passed(r) /\ Written(r)' = Written(r) BY DEF Passed, Written
  <1>2. StageFits(r)' BY DEF AccountOf, StageFits
  <1>3. ASSUME AccountsFit(r) PROVE AccountsFit(r)'
    <2>1. PICK N \in SUBSET Passed(r) :
              /\ tally[r].docs = Cardinality(N) + Cardinality(Written(r))
              /\ \A d \in Passed(r) : documents[d] = None => d \in N
      BY <1>3 DEF AccountsFit
    <2>2. \A d \in Passed(r) : documents'[d] = None => d \in N
      BY <2>1 DEF RowsStay, Passed, AccountTypes
    <2> QED BY <1>1, <2>1, <2>2 DEF AccountsFit
  <1> QED BY <1>1, <1>2, <1>3 DEF AccountOf

\* What a run's step leaves of the others.
OthersKept(r) ==
    \A q \in Runs \ {r} :
        /\ pc'[q] = pc[q] /\ req'[q] = req[q] /\ todo'[q] = todo[q] /\ entry'[q] = entry[q]
        /\ tally'[q] = tally[q] /\ wrote'[q] = wrote[q] /\ result'[q] = result[q]

LEMMA OthersAccounts ==
    ASSUME AccountTypes, LocalsOK, Accounts, RowsStay, NEW r \in Runs, OthersKept(r),
           AccountOf(r)'
    PROVE  Accounts'
  <1> SUFFICES ASSUME NEW q \in Runs PROVE AccountOf(q)' BY DEF Accounts
  <1>1. CASE q = r BY <1>1
  <1>2. CASE q # r
    <2>1. /\ pc'[q] = pc[q] /\ req'[q] = req[q] /\ todo'[q] = todo[q] /\ entry'[q] = entry[q]
          /\ tally'[q] = tally[q] /\ wrote'[q] = wrote[q] /\ result'[q] = result[q]
      BY <1>2 DEF OthersKept
    <2>2. AccountOf(q) BY DEF Accounts
    <2>3. pc[q] \in Writing => documents[entry[q]] # None /\ documents'[entry[q]] # None
      <3>1. pc[q] \in Writing => documents[entry[q]] # None BY <2>2 DEF AccountOf, StageFits
      <3>2. entry[q] \in Docs => (documents[entry[q]] # None => documents'[entry[q]] # None)
        BY DEF RowsStay
      <3> QED BY <3>1, <3>2 DEF LocalsOK, AccountTypes
    <2> QED BY <2>1, <2>2, <2>3, AccountKept
  <1> QED BY <1>1, <1>2

\* What a run that goes on to the next entry leaves: it has passed one more.
LEMMA Advanced ==
    ASSUME AccountTypes, NEW r \in Runs, NEW d \in Docs, Advance(r, d), AccountOf(r),
           d \in todo[r], pc[r] \in Active
    PROVE  /\ StageFits(r)'
           /\ Passed(r)' = Passed(r) \cup {d} /\ d \notin Passed(r)
           /\ \A q \in Runs \ {r} :
                /\ pc'[q] = pc[q] /\ req'[q] = req[q] /\ todo'[q] = todo[q]
                /\ entry'[q] = entry[q] /\ result'[q] = result[q]
  <1>1. /\ pc' = [pc EXCEPT ![r] = "next"] /\ todo' = [todo EXCEPT ![r] = todo[r] \ {d}]
        /\ entry' = [entry EXCEPT ![r] = None] /\ req' = req /\ result' = result
    BY DEF Advance
  <1>2. /\ pc'[r] = "next" /\ todo'[r] = todo[r] \ {d} /\ req'[r] = req[r]
        /\ result'[r] = result[r]
    BY <1>1 DEF AccountTypes
  <1>3. todo[r] \subseteq req[r] /\ result[r] = "none" BY DEF AccountOf, StageFits
  <1>4. StageFits(r)' BY <1>2, <1>3 DEF StageFits
  <1>5. Passed(r)' = Passed(r) \cup {d} /\ d \notin Passed(r) BY <1>2, <1>3 DEF Passed
  <1> QED BY <1>1, <1>4, <1>5 DEF AccountTypes

\* Entries that are skipped have a row.
LEMMA SkippedAccount ==
    ASSUME ConstantsAssumption, AccountTypes, NEW r \in Runs, NEW d \in Docs, AccountOf(r),
           Advance(r, d), d \in todo[r], pc[r] \in Active, documents[d] # None,
           documents' = documents, tally' = tally, wrote' = wrote
    PROVE  AccountOf(r)'
  <1>1. StageFits(r)' /\ Passed(r)' = Passed(r) \cup {d} BY Advanced
  <1>2. Written(r)' = Written(r) BY DEF Written
  <1>3. ASSUME AccountsFit(r) PROVE AccountsFit(r)'
    <2>1. PICK N \in SUBSET Passed(r) :
              /\ tally[r].docs = Cardinality(N) + Cardinality(Written(r))
              /\ \A e \in Passed(r) : documents[e] = None => e \in N
      BY <1>3 DEF AccountsFit
    <2>2. N \in SUBSET Passed(r)' /\ \A e \in Passed(r)' : documents'[e] = None => e \in N
      BY <1>1, <2>1
    <2> QED BY <1>2, <2>1, <2>2 DEF AccountsFit
  <1> QED BY <1>1, <1>2, <1>3 DEF AccountOf

\* A document without text is one more of N.
LEMMA NoTextAccount ==
    ASSUME ConstantsAssumption, AccountTypes, NEW r \in Runs, NEW d \in Docs, AccountOf(r),
           CountDocument(r, d, 0), d \in todo[r], pc[r] \in Active,
           documents' = documents, wrote' = wrote
    PROVE  AccountOf(r)'
  <1>1. Advance(r, d) BY DEF CountDocument
  <1>2. StageFits(r)' /\ Passed(r)' = Passed(r) \cup {d} /\ d \notin Passed(r)
    BY <1>1, Advanced
  <1>3. Written(r)' = Written(r) BY DEF Written
  <1>4. tally'[r].docs = tally[r].docs + 1 /\ tally'[r].errors = tally[r].errors
    BY DEF CountDocument, AccountTypes
  <1>5. ASSUME AccountsFit(r), Written(r) \subseteq Passed(r) PROVE AccountsFit(r)'
    <2>1. PICK N \in SUBSET Passed(r) :
              /\ tally[r].docs = Cardinality(N) + Cardinality(Written(r))
              /\ \A e \in Passed(r) : documents[e] = None => e \in N
      BY <1>5 DEF AccountsFit
    <2>2. IsFiniteSet(Passed(r)) BY PassedFinite
    <2>3. IsFiniteSet(N) /\ IsFiniteSet(Written(r)) BY <2>2, <1>5, FS_Subset
    <2>4. Cardinality(N) \in Nat /\ Cardinality(Written(r)) \in Nat
      BY <2>3, FS_CardinalityType
    <2>5. d \notin N BY <1>2
    <2>6. Cardinality(N \cup {d}) = Cardinality(N) + 1 BY <2>3, <2>5, FS_AddElement
    <2> DEFINE M == N \cup {d}
    <2>7. M \in SUBSET Passed(r)' /\ \A e \in Passed(r)' : documents'[e] = None => e \in M
      BY <1>2, <2>1
    <2>8. tally'[r].docs = Cardinality(M) + Cardinality(Written(r)')
      <3> DEFINE a == Cardinality(N)
                 b == Cardinality(Written(r))
      <3>1. a \in Nat /\ b \in Nat /\ tally[r].docs = a + b BY <2>1, <2>4
      <3>2. Cardinality(M) = a + 1 /\ Cardinality(Written(r)') = b BY <1>3, <2>6
      <3> HIDE DEF a, b, M
      <3> QED BY <1>4, <3>1, <3>2
    <2> HIDE DEF M
    <2> QED BY <2>7, <2>8 DEF AccountsFit
  <1> QED BY <1>2, <1>3, <1>4, <1>5 DEF AccountOf

\* A document that is committed and counted is one more of those written.
LEMMA CommitAccount ==
    ASSUME ConstantsAssumption, AccountTypes, NEW r \in Runs, AccountOf(r), entry[r] \in Docs,
           NEW n, CountDocument(r, entry[r], n), CommitRows(r), entry[r] \in todo[r],
           pc[r] = "commit", documents' = documents
    PROVE  AccountOf(r)'
  <1> DEFINE d == entry[r]
  <1>1. Advance(r, d) BY DEF CountDocument
  <1>2. StageFits(r)' /\ Passed(r)' = Passed(r) \cup {d} /\ d \notin Passed(r)
    BY <1>1, Advanced
  <1>3. wrote'[r] = wrote[r] \cup {<<d, read[r]>>} BY DEF CommitRows, AccountTypes
  <1>4. Written(r)' = Written(r) \cup {d}
    <2>1. <<d, read[r]>>[1] = d OBVIOUS
    <2>2. \A w \in wrote'[r] : w \in wrote[r] \/ w = <<d, read[r]>> BY <1>3
    <2>3. \A w \in wrote[r] : w \in wrote'[r] BY <1>3
    <2>4. <<d, read[r]>> \in wrote'[r] BY <1>3
    <2> HIDE DEF d
    <2> QED BY <2>1, <2>2, <2>3, <2>4, Zenon DEF Written
  <1>5. tally'[r].docs = tally[r].docs + 1 /\ tally'[r].errors = tally[r].errors
    BY DEF CountDocument, AccountTypes
  <1>6. documents[d] # None BY DEF AccountOf, StageFits
  <1> HIDE DEF d
  <1>7. ASSUME AccountsFit(r), Written(r) \subseteq Passed(r) PROVE AccountsFit(r)'
    <2>1. PICK N \in SUBSET Passed(r) :
              /\ tally[r].docs = Cardinality(N) + Cardinality(Written(r))
              /\ \A e \in Passed(r) : documents[e] = None => e \in N
      BY <1>7 DEF AccountsFit
    <2>2. IsFiniteSet(Passed(r)) BY PassedFinite
    <2>3. IsFiniteSet(N) /\ IsFiniteSet(Written(r)) BY <2>2, <1>7, FS_Subset
    <2>4. Cardinality(N) \in Nat /\ Cardinality(Written(r)) \in Nat
      BY <2>3, FS_CardinalityType
    <2>5. Cardinality(Written(r) \cup {d}) = Cardinality(Written(r)) + 1
      BY <1>2, <1>7, <2>3, FS_AddElement
    <2>6. N \in SUBSET Passed(r)' /\ \A e \in Passed(r)' : documents'[e] = None => e \in N
      BY <1>2, <1>6, <2>1
    <2>7. tally'[r].docs = Cardinality(N) + Cardinality(Written(r)')
      <3> DEFINE a == Cardinality(N)
                 b == Cardinality(Written(r))
      <3>1. a \in Nat /\ b \in Nat /\ tally[r].docs = a + b BY <2>1, <2>4
      <3>2. Cardinality(Written(r)') = b + 1 BY <1>4, <2>5
      <3> HIDE DEF a, b
      <3>3. tally'[r].docs = a + (b + 1) BY <1>5, <3>1
      <3> QED BY <3>2, <3>3 DEF a
    <2> QED BY <2>6, <2>7 DEF AccountsFit
  <1> QED BY <1>2, <1>4, <1>5, <1>7 DEF AccountOf

\* An error closes the account.
LEMMA ErrorAccount ==
    ASSUME AccountTypes, NEW r \in Runs, NEW d \in Docs, AccountOf(r), RecordError(r, d),
           d \in todo[r], pc[r] \in Active
    PROVE  AccountOf(r)'
  <1>1. Advance(r, d) BY DEF RecordError
  <1>2. StageFits(r)' BY <1>1, Advanced
  <1>3. tally'[r].errors = tally[r].errors \cup {d} BY DEF RecordError, AccountTypes
  <1> QED BY <1>2, <1>3 DEF AccountOf

\* Every step keeps the accounts.
LEMMA AccountsStep ==
    ConstantsAssumption /\ TypeOK /\ LocalsOK /\ Accounts /\ [Next]_vars => Accounts'
  <1> SUFFICES ASSUME ConstantsAssumption, TypeOK, LocalsOK, Accounts, [Next]_vars
               PROVE  Accounts'
    OBVIOUS
  <1>t. AccountTypes BY DEF TypeOK, DbTypeOK, LoopTypeOK, TallyTypeOK, AccountTypes
  <1>a. \A r \in Runs : AccountOf(r) BY DEF Accounts
  <1>n. None \notin Versions BY DEF ConstantsAssumption
  <1>s. documents' = documents => RowsStay BY DEF RowsStay
  <1>1. ASSUME NEW r \in Runs, NEW S \in SUBSET Docs, NEW f \in BOOLEAN, StartRun(r, S, f)
        PROVE  Accounts'
    <2>1. /\ pc[r] = "idle" /\ pc' = [pc EXCEPT ![r] = "next"]
          /\ req' = [req EXCEPT ![r] = S] /\ todo' = [todo EXCEPT ![r] = S]
          /\ UNCHANGED <<documents, entry, tally, result, wrote>>
      BY <1>1 DEF StartRun
    <2>2. OthersKept(r) BY <1>t, <2>1 DEF OthersKept, AccountTypes
    <2>3. /\ pc'[r] = "next" /\ req'[r] = S /\ todo'[r] = S /\ tally'[r] = tally[r]
          /\ result'[r] = result[r]
      BY <1>t, <2>1 DEF AccountTypes
    <2>4. req[r] = {} /\ result[r] = "none" BY <1>a, <2>1 DEF AccountOf, StageFits
    <2>5. StageFits(r)' BY <2>3, <2>4 DEF StageFits
    <2>6. Passed(r) = {} /\ Passed(r)' = {} /\ Written(r)' = Written(r)
      BY <2>1, <2>3, <2>4 DEF Passed, Written
    <2>7. AccountsFit(r) => AccountsFit(r)'
      BY <2>3, <2>6 DEF AccountsFit
    <2>8. AccountOf(r)' BY <1>a, <2>3, <2>5, <2>6, <2>7 DEF AccountOf
    <2> QED BY <1>t, <1>s, <2>1, <2>2, <2>8, OthersAccounts
  <1>2. ASSUME NEW r \in Runs, SkipExisting(r) PROVE Accounts'
    <2>1. PICK d \in Docs : IsNext(r, d) /\ documents[d] # None /\ Advance(r, d)
      BY <1>2 DEF SkipExisting
    <2>2. /\ pc[r] = "next" /\ d \in todo[r]
          /\ documents' = documents /\ tally' = tally /\ wrote' = wrote
      BY <1>2, <2>1 DEF SkipExisting, IsNext, dbVars
    <2>3. AccountOf(r)' BY <1>t, <1>a, <2>1, <2>2, SkippedAccount
    <2>4. OthersKept(r) BY <1>t, <1>a, <2>1, <2>2, Advanced DEF OthersKept
    <2> QED BY <1>t, <1>s, <2>2, <2>3, <2>4, OthersAccounts
  <1>3. ASSUME NEW r \in Runs,
               \/ BeginDocument(r) \/ LoadAndChunk(r) \/ HashFile(r) \/ BeginDelete(r)
               \/ EndDelete(r) \/ InsertChunks(r) \/ StartFails(r) \/ FinishFails(r)
        PROVE  Accounts'
    <2>1. /\ UNCHANGED <<documents, req, todo, tally, result, wrote>>
          /\ \E p \in {"load", "hash", "upsert", "gone", "deleting", "insert", "commit"} :
                /\ pc' = [pc EXCEPT ![r] = p] /\ pc[r] # "done"
                /\ p \in {"deleting", "insert", "commit"} => pc[r] \in Writing /\ entry' = entry
      BY <1>3 DEF BeginDocument, LoadAndChunk, HashFile, BeginDelete, EndDelete,
         InsertChunks, StartFails, FinishFails, dbVars
    <2>2. \A q \in Runs \ {r} : entry'[q] = entry[q]
      BY <1>t, <1>3 DEF BeginDocument, LoadAndChunk, HashFile, BeginDelete, EndDelete,
         InsertChunks, StartFails, FinishFails, AccountTypes
    <2>3. OthersKept(r) BY <1>t, <2>1, <2>2 DEF OthersKept, AccountTypes
    <2>4. PICK p : /\ pc'[r] = p /\ pc[r] # "done" /\ p # "idle"
                   /\ p \in Writing => pc[r] \in Writing /\ entry' = entry
      BY <1>t, <2>1 DEF AccountTypes
    <2>5. pc'[r] \in Writing => documents'[entry'[r]] # None
      BY <1>a, <2>1, <2>4 DEF AccountOf, StageFits
    <2>6. AccountOf(r)' BY <1>t, <1>a, <1>s, <2>1, <2>4, <2>5, AccountKept
    <2> QED BY <1>t, <1>s, <2>1, <2>3, <2>6, OthersAccounts
  <1>4. ASSUME NEW r \in Runs, FinishRun(r) PROVE Accounts'
    <2>1. /\ pc[r] = "next" /\ todo[r] = {} /\ pc' = [pc EXCEPT ![r] = "done"]
          /\ result' = [result EXCEPT ![r] = Outcome(r)]
          /\ UNCHANGED <<documents, entry, req, todo, tally, wrote>>
      BY <1>4 DEF FinishRun
    <2>2. OthersKept(r) BY <1>t, <2>1 DEF OthersKept, AccountTypes
    <2>3. pc'[r] = "done" /\ result'[r] = Outcome(r) BY <1>t, <2>1 DEF AccountTypes
    <2>4. Outcome(r) = "success" => tally[r].errors = {} BY DEF Outcome
    <2>5. StageFits(r)' BY <1>a, <2>1, <2>3, <2>4 DEF AccountOf, StageFits
    <2>6. /\ Passed(r)' = Passed(r) /\ Written(r)' = Written(r)
          /\ AccountsFit(r) => AccountsFit(r)'
      BY <2>1 DEF Passed, Written, AccountsFit
    <2>7. AccountOf(r)' BY <1>a, <2>1, <2>5, <2>6 DEF AccountOf
    <2> QED BY <1>t, <1>s, <2>1, <2>2, <2>7, OthersAccounts
  <1>5. ASSUME NEW r \in Runs, LoadNoText(r) PROVE Accounts'
    <2>1. /\ entry[r] \in Docs /\ entry[r] \in todo[r] /\ pc[r] \in Active
      BY <1>5, EntryInHand DEF LoadNoText
    <2>2. CountDocument(r, entry[r], 0) /\ documents' = documents /\ wrote' = wrote
      BY <1>5 DEF LoadNoText, dbVars
    <2>3. AccountOf(r)' BY <1>t, <1>a, <2>1, <2>2, NoTextAccount
    <2>4. Advance(r, entry[r]) /\ \A q \in Runs \ {r} : tally'[q] = tally[q]
      BY <1>t, <2>2 DEF CountDocument, AccountTypes
    <2>5. OthersKept(r) BY <1>t, <1>a, <2>1, <2>2, <2>4, Advanced DEF OthersKept
    <2> QED BY <1>t, <1>s, <2>2, <2>3, <2>5, OthersAccounts
  <1>6. ASSUME NEW r \in Runs, CommitChunks(r) PROVE Accounts'
    <2>1. /\ entry[r] \in Docs /\ entry[r] \in todo[r] /\ pc[r] = "commit"
      BY <1>6, EntryInHand DEF CommitChunks
    <2>2. /\ CountDocument(r, entry[r], NumChunks[read[r]]) /\ CommitRows(r)
          /\ documents' = documents
      BY <1>6 DEF CommitChunks
    <2>3. AccountOf(r)' BY <1>t, <1>a, <2>1, <2>2, CommitAccount
    <2>4. /\ Advance(r, entry[r])
          /\ \A q \in Runs \ {r} : tally'[q] = tally[q] /\ wrote'[q] = wrote[q]
      BY <1>t, <2>2 DEF CountDocument, CommitRows, AccountTypes
    <2>5. OthersKept(r) BY <1>t, <1>a, <2>1, <2>4, Advanced DEF OthersKept
    <2> QED BY <1>t, <1>s, <2>2, <2>3, <2>5, OthersAccounts
  <1>7. ASSUME NEW r \in Runs, NEW d \in Docs, RecordError(r, d), d \in todo[r],
               pc[r] \in Active, RowsStay, \A q \in Runs \ {r} : wrote'[q] = wrote[q]
        PROVE  Accounts'
    <2>1. AccountOf(r)' BY <1>t, <1>a, <1>7, ErrorAccount
    <2>2. Advance(r, d) /\ \A q \in Runs \ {r} : tally'[q] = tally[q]
      BY <1>t, <1>7 DEF RecordError, AccountTypes
    <2>3. OthersKept(r) BY <1>t, <1>a, <1>7, <2>2, Advanced DEF OthersKept
    <2> QED BY <1>t, <1>7, <2>1, <2>3, OthersAccounts
  <1>8. ASSUME NEW r \in Runs, BadFile(r) \/ InsertFails(r) PROVE Accounts'
    <2>1. entry[r] \in Docs /\ entry[r] \in todo[r] /\ pc[r] \in Active
      BY <1>8, EntryInHand DEF BadFile, InsertFails
    <2>2. RecordError(r, entry[r]) /\ documents' = documents /\ wrote' = wrote
      BY <1>8 DEF BadFile, InsertFails, dbVars
    <2> QED BY <1>s, <1>7, <2>1, <2>2
  <1>9. ASSUME NEW r \in Runs, StepFails(r) PROVE Accounts'
    <2>1. PICK d \in Docs : RecordError(r, d) /\ d \in todo[r] /\ pc[r] \in Active
      BY <1>9, EntryInHand DEF StepFails, IsNext
    <2>2. documents' = documents /\ wrote' = wrote BY <1>9 DEF StepFails, dbVars
    <2> QED BY <1>s, <1>7, <2>1, <2>2
  <1>10. ASSUME NEW r \in Runs, documents' = [documents EXCEPT ![entry[r]] = sha[r]],
                sha[r] \in Versions
         PROVE  RowsStay
    BY <1>t, <1>n, <1>10 DEF RowsStay, AccountTypes
  <1>11. ASSUME NEW r \in Runs, AnswerLost(r) PROVE Accounts'
    <2>1. /\ entry[r] \in Docs /\ entry[r] \in todo[r] /\ pc[r] \in Active
          /\ RecordError(r, entry[r]) /\ sha[r] \in Versions
      BY <1>11, EntryInHand DEF AnswerLost
    <2>2. RowsStay BY <1>11, <2>1, <1>s, <1>10 DEF AnswerLost
    <2>3. \A q \in Runs \ {r} : wrote'[q] = wrote[q]
      BY <1>t, <1>11 DEF AnswerLost, CommitRows, AccountTypes
    <2> QED BY <1>7, <2>1, <2>2, <2>3
  <1>12. ASSUME NEW r \in Runs, UpsertDocument(r) PROVE Accounts'
    <2>1. /\ entry[r] \in Docs /\ sha[r] \in Versions BY <1>12, EntryInHand DEF UpsertDocument
    <2>2. /\ pc[r] = "upsert" /\ pc' = [pc EXCEPT ![r] = "delete"]
          /\ documents' = [documents EXCEPT ![entry[r]] = sha[r]]
          /\ UNCHANGED <<entry, req, todo, tally, result, wrote>>
      BY <1>12 DEF UpsertDocument
    <2>3. RowsStay BY <2>1, <2>2, <1>10
    <2>4. OthersKept(r) BY <1>t, <2>2 DEF OthersKept, AccountTypes
    <2>5. pc'[r] = "delete" /\ documents'[entry'[r]] # None
      BY <1>t, <1>n, <2>1, <2>2 DEF AccountTypes
    <2>6. AccountOf(r)' BY <1>t, <1>a, <2>2, <2>3, <2>5, AccountKept
    <2> QED BY <1>t, <2>3, <2>4, <2>6, OthersAccounts
  <1>13. ASSUME UNCHANGED <<documents, entry, req, todo, tally, result, wrote>>,
                \A r \in Runs : pc'[r] = pc[r] \/ (pc[r] \in Active /\ pc'[r] = "dead")
         PROVE  Accounts'
    <2> SUFFICES ASSUME NEW r \in Runs PROVE AccountOf(r)' BY DEF Accounts
    <2>1. pc'[r] \in Writing => documents'[entry'[r]] # None
      BY <1>a, <1>13 DEF AccountOf, StageFits
    <2>2. pc'[r] = "idle" => pc[r] = "idle" BY <1>13
    <2>3. pc[r] = "done" => pc'[r] = "done" BY <1>13
    <2> QED BY <1>t, <1>a, <1>s, <1>13, <2>1, <2>2, <2>3, AccountKept
  <1>14. ASSUME NEW P \in Processes, Crash(P) PROVE Accounts'
    <2>1. /\ UNCHANGED <<documents, entry, req, todo, tally, result, wrote>>
          /\ pc' = [r \in Runs |-> IF r \in P /\ pc[r] \in Active THEN "dead" ELSE pc[r]]
      BY <1>14 DEF Crash, dbVars
    <2>2. \A r \in Runs : pc'[r] = pc[r] \/ (pc[r] \in Active /\ pc'[r] = "dead")
      BY <2>1
    <2> QED BY <1>13, <2>1, <2>2, Zenon
  <1>15. ASSUME UNCHANGED vars \/ \E d \in Docs, v \in Versions : Download(d, v) \/ ReplacePdf(d, v)
         PROVE  Accounts'
    <2>1. UNCHANGED <<documents, entry, req, todo, tally, result, wrote, pc>>
      BY <1>15 DEF vars, dbVars, runVars, Download, ReplacePdf
    <2>2. \A r \in Runs : pc'[r] = pc[r] \/ (pc[r] \in Active /\ pc'[r] = "dead")
      BY <2>1
    <2> QED BY <1>13, <2>1, <2>2, Zenon
  <1> QED BY <1>1, <1>2, <1>3, <1>4, <1>5, <1>6, <1>8, <1>9, <1>11, <1>12, <1>14, <1>15
          DEF Next, RunStep, Fault, AllEnded

\* A run that reports success has accounted for every entry of its request:
\* those without a row are no more than it counted although they had no text
\* (pipeline.py:120-140).
THEOREM SuccessAlwaysAccounts == Spec => []SuccessAccountsForAll
  <1>1. ConstantsAssumption /\ Init => Accounts
    <2> SUFFICES ASSUME ConstantsAssumption, Init, NEW r \in Runs PROVE AccountOf(r)
      BY DEF Accounts
    <2>1. Written(r) = {} /\ Passed(r) = {} /\ tally[r].docs = 0
      BY DEF Init, Written, Passed
    <2>2. Cardinality({}) = 0 BY FS_EmptySet
    <2>3. AccountsFit(r) BY <2>1, <2>2 DEF AccountsFit
    <2>4. StageFits(r) BY DEF Init, StageFits
    <2> QED BY <2>1, <2>3, <2>4 DEF AccountOf
  <1>2. ConstantsAssumption /\ TypeOK /\ Accounts => SuccessAccountsForAll
    <2> SUFFICES ASSUME ConstantsAssumption, TypeOK, Accounts, NEW r \in Runs,
                        result[r] = "success"
                 PROVE  /\ tally[r].errors = {}
                        /\ Cardinality({d \in req[r] : documents[d] = None})
                             <= tally[r].docs - Cardinality(Written(r))
      BY DEF SuccessAccountsForAll, Written
    <2> DEFINE missing == {d \in req[r] : documents[d] = None}
    <2>1. AccountOf(r) /\ tally[r].errors = {} /\ todo[r] = {}
      BY DEF Accounts, AccountOf, StageFits
    <2>2. Passed(r) = req[r] BY <2>1 DEF Passed
    <2>3. PICK N \in SUBSET Passed(r) :
              /\ tally[r].docs = Cardinality(N) + Cardinality(Written(r))
              /\ \A d \in Passed(r) : documents[d] = None => d \in N
      BY <2>1 DEF AccountOf, AccountsFit
    <2>4. missing \subseteq N BY <2>2, <2>3
    <2>5. AccountTypes BY DEF TypeOK, DbTypeOK, LoopTypeOK, TallyTypeOK, AccountTypes
    <2>6. IsFiniteSet(Passed(r)) BY <2>5, PassedFinite
    <2>7. IsFiniteSet(N) /\ IsFiniteSet(Written(r)) BY <2>1, <2>6, FS_Subset DEF AccountOf
    <2>8. IsFiniteSet(missing) /\ Cardinality(missing) <= Cardinality(N)
      BY <2>4, <2>7, FS_Subset
    <2>9. /\ Cardinality(N) \in Nat /\ Cardinality(Written(r)) \in Nat
          /\ Cardinality(missing) \in Nat
      BY <2>7, <2>8, FS_CardinalityType
    <2> HIDE DEF missing
    <2>10. Cardinality(missing) <= tally[r].docs - Cardinality(Written(r))
      BY <2>3, <2>8, <2>9
    <2> QED BY <2>1, <2>10 DEF missing
  <1>3. IInv /\ Accounts /\ [Next]_vars => Accounts'
    BY ConstantsAssumption, AccountsStep DEF IInv
  <1>4. IInv => TypeOK BY DEF IInv
  <1> QED BY <1>1, <1>2, <1>3, <1>4, ConstantsAssumption, Invariant, PTL DEF Spec
-----------------------------------------------------------------------------
(* The number of chunk rows.  A run writes a document at most once, so the  *)
(* rows of a commit are new; the total is never more than what it has       *)
(* committed, and is that number as long as no error is recorded.           *)

LedgerOf(r) ==
    /\ IsFiniteSet(CommittedRows(r))
    /\ pc[r] = "idle" => wrote[r] = {}
    /\ \A w \in wrote[r] : w[1] \notin todo[r]
    /\ tally[r].chunks <= Cardinality(CommittedRows(r))
    /\ tally[r].errors = {} => tally[r].chunks = Cardinality(CommittedRows(r))

RowFits(r) ==
    /\ runs[r].status \in {"success", "failed"} => pc[r] \in {"done", "gone"}
    /\ runs[r].status = "success" => runs[r].chunks = Cardinality(CommittedRows(r))
    /\ runs[r].status = "failed" => runs[r].chunks <= Cardinality(CommittedRows(r))

Ledgers == \A r \in Runs : LedgerOf(r) /\ RowFits(r)

\* A run that commits nothing keeps its ledger.
KeepsLedger(r) ==
    /\ wrote'[r] = wrote[r]
    /\ tally'[r].chunks = tally[r].chunks
    /\ tally[r].errors \subseteq tally'[r].errors
    /\ pc'[r] = "idle" => pc[r] = "idle"
    /\ pc[r] = "idle" \/ todo'[r] \subseteq todo[r]

\* The rows of a set of writes.
RowsFor(W) == UNION {{w} \X (0 .. NumChunks[w[2]] - 1) : w \in W}

\* The rows of a document the run had not written are that many more.
LEMMA RowsAdded ==
    ASSUME ConstantsAssumption, NEW W, NEW d, NEW v \in Versions,
           IsFiniteSet(RowsFor(W)), \A w \in W : w[1] # d
    PROVE  /\ IsFiniteSet(RowsFor(W \cup {<<d, v>>}))
           /\ Cardinality(RowsFor(W)) \in Nat
           /\ Cardinality(RowsFor(W \cup {<<d, v>>})) = Cardinality(RowsFor(W)) + NumChunks[v]
<1> DEFINE RowsOfW(w) == {w} \X (0 .. NumChunks[w[2]] - 1)
           old == RowsFor(W)
           V == W \cup {<<d, v>>}
           new == RowsFor(V)
           x == <<d, v>>
           more == {x} \X (0 .. NumChunks[v] - 1)
           n == NumChunks[v]
<1>1. n \in Nat BY DEF ConstantsAssumption
<1>2. /\ IsFiniteSet({x}) /\ Cardinality({x}) = 1
      /\ IsFiniteSet(0 .. n - 1) /\ Cardinality(0 .. n - 1) = n
  <2>1. IsFiniteSet({x}) /\ Cardinality({x}) = 1 BY FS_Singleton
  <2>2. /\ IsFiniteSet(0 .. n - 1)
        /\ Cardinality(0 .. n - 1) = IF 0 > n - 1 THEN 0 ELSE (n - 1) - 0 + 1
    <3>1. 0 \in Int /\ n - 1 \in Int BY <1>1
    <3> HIDE DEF n
    <3> QED BY <3>1, FS_Interval
  <2> DEFINE c == Cardinality(0 .. n - 1)
  <2>3. c = n
    <3>1. c = IF 0 > n - 1 THEN 0 ELSE (n - 1) - 0 + 1 BY <2>2
    <3> HIDE DEF n, c
    <3> QED BY <1>1, <3>1
  <2> QED BY <2>1, <2>2, <2>3
<1>3. IsFiniteSet(more) /\ Cardinality(more) = 1 * n
  <2> DEFINE S == {x}
             T == 0 .. n - 1
  <2>1. /\ IsFiniteSet(S) /\ Cardinality(S) = 1
        /\ IsFiniteSet(T) /\ Cardinality(T) = n
    BY <1>2
  <2> HIDE DEF S, T
  <2>2. IsFiniteSet(S \X T) /\ Cardinality(S \X T) = Cardinality(S) * Cardinality(T)
    BY <2>1, FS_Product
  <2>3. IsFiniteSet(S \X T) /\ Cardinality(S \X T) = 1 * n BY <2>1, <2>2, Zenon
  <2> QED BY <2>3 DEF S, T
<1>4. RowsOfW(x) = more BY DEF RowsOfW
<1>5. new = old \cup more
  <2>1. \A y : y \in new <=> \E w \in V : y \in RowsOfW(w) BY DEF RowsFor
  <2>2. \A y : y \in old <=> \E w \in W : y \in RowsOfW(w) BY DEF RowsFor
  <2>3. \A w : w \in V <=> w \in W \/ w = x OBVIOUS
  <2> HIDE DEF new, old, RowsOfW, x, more
  <2>4. \A y : y \in new <=> y \in old \/ y \in more
    BY <1>4, <2>1, <2>2, <2>3
  <2> QED BY <2>4, Zenon
<1>6. old \cap more = {}
  <2> SUFFICES ASSUME NEW y \in old, y \in more PROVE FALSE OBVIOUS
  <2>1. PICK w \in W : y \in RowsOfW(w) BY DEF RowsFor
  <2>2. y[1] = w /\ y[1] = x BY <2>1
  <2>3. x[1] = d OBVIOUS
  <2> QED BY <2>2, <2>3
<1>7. IsFiniteSet(old) OBVIOUS
<1> HIDE DEF old, new, more, n
<1>8. /\ IsFiniteSet(old \cup more)
      /\ Cardinality(old \cup more) = Cardinality(old) + Cardinality(more) - Cardinality(old \cap more)
  BY <1>3, <1>7, FS_Union
<1>9. Cardinality(old) \in Nat BY <1>7, FS_CardinalityType
<1>10. Cardinality(old \cap more) = 0 BY <1>6, FS_EmptySet
<1>11. Cardinality(more) = n BY <1>1, <1>3
<1>12. Cardinality(new) = Cardinality(old) + n BY <1>1, <1>5, <1>8, <1>9, <1>10, <1>11
<1> QED BY <1>5, <1>8, <1>9, <1>12 DEF old, new, n

\* Its ledger does not depend on anything else of the state.
LEMMA LedgerKept ==
    ASSUME TallyTypeOK, NEW r \in Runs, LedgerOf(r), RowFits(r), KeepsLedger(r),
           pc[r] \in {"done", "gone"} => pc'[r] = pc[r], runs'[r] = runs[r]
    PROVE  LedgerOf(r)' /\ RowFits(r)'
<1>1. CommittedRows(r)' = CommittedRows(r) BY DEF CommittedRows, KeepsLedger
<1>2. LedgerOf(r)' BY <1>1 DEF LedgerOf, KeepsLedger
<1>3. RowFits(r)' BY <1>1 DEF RowFits
<1> QED BY <1>2, <1>3

\* Rows committed with or without an answer.
LEMMA CommitLedger ==
    ASSUME ConstantsAssumption, TypeOK, NEW r \in Runs, LedgerOf(r), RowFits(r),
           NEW d \in Docs, d \in todo[r], read[r] \in Versions, pc[r] = "commit",
           wrote'[r] = wrote[r] \cup {<<d, read[r]>>}, todo'[r] = todo[r] \ {d},
           pc'[r] = "next", runs'[r] = runs[r],
           \/ /\ tally'[r].chunks = tally[r].chunks + NumChunks[read[r]]
              /\ tally'[r].errors = tally[r].errors
           \/ /\ tally'[r].chunks = tally[r].chunks
              /\ tally'[r].errors # {}
    PROVE  LedgerOf(r)' /\ RowFits(r)'
<1> DEFINE old == CommittedRows(r)
           new == CommittedRows(r)'
           n   == NumChunks[read[r]]
<1>1. /\ IsFiniteSet(new) /\ Cardinality(old) \in Nat
      /\ Cardinality(new) = Cardinality(old) + n
  <2> DEFINE W == wrote[r]
             V == wrote'[r]
  <2>1. IsFiniteSet(old) /\ \A w \in W : w[1] # d BY DEF LedgerOf
  <2>2. old = RowsFor(W) BY DEF CommittedRows, RowsFor
  <2>3. new = RowsFor(V) BY DEF CommittedRows, RowsFor
  <2>4. V = W \cup {<<d, read[r]>>} OBVIOUS
  <2> DEFINE v == read[r]
  <2>5. v \in Versions /\ IsFiniteSet(RowsFor(W)) /\ V = W \cup {<<d, v>>}
    BY <2>1, <2>2, <2>4
  <2> HIDE DEF old, new, W, V, v
  <2> DEFINE X == W \cup {<<d, v>>}
  <2>6. /\ IsFiniteSet(RowsFor(X)) /\ Cardinality(RowsFor(W)) \in Nat
        /\ Cardinality(RowsFor(X)) = Cardinality(RowsFor(W)) + NumChunks[v]
    BY <2>1, <2>5, RowsAdded
  <2> HIDE DEF X
  <2>7. X = V BY <2>5 DEF X
  <2> QED BY <2>2, <2>3, <2>6, <2>7 DEF v
<1>2. n \in Nat BY DEF ConstantsAssumption
<1>3. tally[r].chunks \in Nat BY DEF TypeOK, TallyTypeOK
<1>4. /\ tally[r].chunks <= Cardinality(old)
      /\ tally[r].errors = {} => tally[r].chunks = Cardinality(old)
  BY DEF LedgerOf
<1>5. \A w \in wrote'[r] : w[1] \notin todo'[r]
  <2> SUFFICES ASSUME NEW w \in wrote'[r] PROVE w[1] \notin todo'[r] OBVIOUS
  <2>1. CASE w \in wrote[r] BY <2>1 DEF LedgerOf
  <2>2. CASE w = <<d, read[r]>> BY <2>2
  <2> QED BY <2>1, <2>2
<1>6. /\ tally'[r].chunks <= Cardinality(new)
      /\ tally'[r].errors = {} => tally'[r].chunks = Cardinality(new)
  <2> DEFINE a == Cardinality(old)
             b == Cardinality(new)
  <2>1. a \in Nat /\ b = a + n BY <1>1
  <2>2. tally[r].chunks <= a /\ (tally[r].errors = {} => tally[r].chunks = a) BY <1>4
  <2> HIDE DEF a, b, n
  <2>3. tally'[r].chunks <= b /\ (tally'[r].errors = {} => tally'[r].chunks = b)
    BY <1>2, <1>3, <2>1, <2>2 DEF n
  <2> QED BY <2>3 DEF b
<1>7. LedgerOf(r)' BY <1>1, <1>5, <1>6 DEF LedgerOf
<1>8. RowFits(r)' BY DEF RowFits
<1> QED BY <1>7, <1>8

\* The row that finish_run writes.
LEMMA FinishLedger ==
    ASSUME NEW r \in Runs, LedgerOf(r), RowFits(r), KeepsLedger(r), todo[r] = {},
           pc[r] = "next", pc'[r] \in {"done", "gone"},
           runs'[r] \in {runs[r], FinishedRow(r)}
    PROVE  LedgerOf(r)' /\ RowFits(r)'
<1>1. CommittedRows(r)' = CommittedRows(r) BY DEF CommittedRows, KeepsLedger
<1>2. LedgerOf(r)' BY <1>1 DEF LedgerOf, KeepsLedger
<1>3. CASE runs'[r] = runs[r]
  <2>1. runs'[r].status \notin {"success", "failed"} BY <1>3 DEF RowFits
  <2> QED BY <1>2, <2>1 DEF RowFits
<1>4. CASE runs'[r] = FinishedRow(r)
  <2>1. /\ runs'[r].chunks = tally[r].chunks
        /\ runs'[r].status = "success" => tally[r].errors = {}
    BY <1>4 DEF FinishedRow, Outcome
  <2>2. /\ tally[r].chunks <= Cardinality(CommittedRows(r))
        /\ tally[r].errors = {} => tally[r].chunks = Cardinality(CommittedRows(r))
    BY DEF LedgerOf
  <2>3. /\ runs'[r].status = "success" =>
              runs'[r].chunks = Cardinality(CommittedRows(r)')
        /\ runs'[r].chunks <= Cardinality(CommittedRows(r)')
    <3> DEFINE c == Cardinality(CommittedRows(r))
    <3>1. Cardinality(CommittedRows(r)') = c BY <1>1
    <3> HIDE DEF c
    <3>2. /\ runs'[r].status = "success" => runs'[r].chunks = c
          /\ runs'[r].chunks <= c
      BY <2>1, <2>2 DEF c
    <3> QED BY <3>1, <3>2
  <2> QED BY <1>2, <2>3 DEF RowFits
<1> QED BY <1>2, <1>3, <1>4

\* The ledgers of the runs that take no part in a step.
LEMMA OthersLedgers ==
    ASSUME TallyTypeOK, Ledgers, NEW r \in Runs,
           LedgerOf(r)' /\ RowFits(r)',
           \A q \in Runs \ {r} : /\ pc'[q] = pc[q] /\ todo'[q] = todo[q] /\ runs'[q] = runs[q]
                                 /\ tally'[q] = tally[q] /\ wrote'[q] = wrote[q]
    PROVE  Ledgers'
<1> SUFFICES ASSUME NEW q \in Runs PROVE LedgerOf(q)' /\ RowFits(q)'
  BY DEF Ledgers
<1>1. CASE q = r BY <1>1
<1>2. CASE q # r
  <2>1. /\ pc'[q] = pc[q] /\ todo'[q] = todo[q] /\ runs'[q] = runs[q]
        /\ tally'[q] = tally[q] /\ wrote'[q] = wrote[q]
    BY <1>2
  <2>2. KeepsLedger(q) BY <2>1 DEF KeepsLedger
  <2>3. LedgerOf(q) /\ RowFits(q) BY DEF Ledgers
  <2> QED BY <2>1, <2>2, <2>3, LedgerKept
<1> QED BY <1>1, <1>2

\* A run that goes on to the next entry without a commit.
LEMMA AdvanceLedger ==
    ASSUME ConstantsAssumption, TypeOK, Ledgers, NEW r \in Runs, NEW d \in Docs,
           pc[r] \in Active, wrote' = wrote, runs' = runs,
           \/ CountDocument(r, d, 0) \/ RecordError(r, d) \/ (Advance(r, d) /\ tally' = tally)
    PROVE  Ledgers'
<1>1. Advance(r, d) BY DEF CountDocument, RecordError
<1>2. /\ \A q \in Runs \ {r} : pc'[q] = pc[q] /\ todo'[q] = todo[q]
      /\ pc'[r] = "next" /\ todo'[r] = todo[r] \ {d}
  BY <1>1 DEF Advance, TypeOK, LoopTypeOK
<1>3. /\ \A q \in Runs \ {r} : tally'[q] = tally[q]
      /\ tally'[r].chunks = tally[r].chunks /\ tally[r].errors \subseteq tally'[r].errors
  BY DEF CountDocument, RecordError, TypeOK, TallyTypeOK
<1>4. KeepsLedger(r) BY <1>2, <1>3 DEF KeepsLedger
<1>5. TallyTypeOK /\ LedgerOf(r) /\ RowFits(r) BY DEF TypeOK, Ledgers
<1>6. LedgerOf(r)' /\ RowFits(r)' BY <1>4, <1>5, LedgerKept
<1> QED BY <1>2, <1>3, <1>5, <1>6, OthersLedgers

\* A run that commits, with or without an answer.
LEMMA CommitsLedger ==
    ASSUME ConstantsAssumption, TypeOK, LocalsOK, Ledgers, NEW r \in Runs,
           pc[r] = "commit", CommitRows(r), runs' = runs,
           \/ CountDocument(r, entry[r], NumChunks[read[r]]) \/ RecordError(r, entry[r])
    PROVE  Ledgers'
<1>1. entry[r] \in Docs /\ entry[r] \in todo[r] /\ read[r] \in Versions
  BY EntryInHand
<1>2. Advance(r, entry[r]) BY DEF CountDocument, RecordError
<1>3. /\ \A q \in Runs \ {r} : pc'[q] = pc[q] /\ todo'[q] = todo[q]
      /\ pc'[r] = "next" /\ todo'[r] = todo[r] \ {entry[r]}
  BY <1>2 DEF Advance, TypeOK, LoopTypeOK
<1>4. /\ \A q \in Runs \ {r} : wrote'[q] = wrote[q]
      /\ wrote'[r] = wrote[r] \cup {<<entry[r], read[r]>>}
  BY DEF CommitRows, TypeOK, TallyTypeOK
<1>5. /\ \A q \in Runs \ {r} : tally'[q] = tally[q]
      /\ \/ /\ tally'[r].chunks = tally[r].chunks + NumChunks[read[r]]
            /\ tally'[r].errors = tally[r].errors
         \/ /\ tally'[r].chunks = tally[r].chunks
            /\ tally'[r].errors # {}
  <2>1. tally \in [Runs -> [docs : Nat, chunks : Nat, errors : SUBSET Docs]]
    BY DEF TypeOK, TallyTypeOK
  <2>2. CASE CountDocument(r, entry[r], NumChunks[read[r]])
    BY <2>1, <2>2 DEF CountDocument
  <2>3. CASE RecordError(r, entry[r])
    BY <2>1, <2>3 DEF RecordError
  <2> QED BY <2>2, <2>3
<1>6. TallyTypeOK /\ LedgerOf(r) /\ RowFits(r) BY DEF TypeOK, Ledgers
<1>7. PICK d \in Docs : d = entry[r] BY <1>1
<1>8. LedgerOf(r)' /\ RowFits(r)' BY <1>1, <1>3, <1>4, <1>5, <1>6, <1>7, CommitLedger
<1> QED BY <1>3, <1>4, <1>5, <1>6, <1>8, OthersLedgers

\* Every step keeps the ledgers.
LEMMA LedgersStep ==
    ConstantsAssumption /\ TypeOK /\ LocalsOK /\ Ledgers /\ [Next]_vars => Ledgers'
  <1> SUFFICES ASSUME ConstantsAssumption, TypeOK, LocalsOK, Ledgers, [Next]_vars
               PROVE  Ledgers'
    OBVIOUS
  <1>t. TallyTypeOK /\ LoopTypeOK /\ DbTypeOK BY DEF TypeOK
  <1>a. \A r \in Runs : LedgerOf(r) /\ RowFits(r) BY DEF Ledgers
  <1>1. ASSUME NEW r \in Runs, NEW S \in SUBSET Docs, NEW f \in BOOLEAN, StartRun(r, S, f)
        PROVE  Ledgers'
    <2>1. /\ pc[r] = "idle" /\ pc'[r] = "next" /\ tally' = tally /\ wrote' = wrote
          /\ runs'[r].status = "running"
          /\ \A q \in Runs \ {r} : pc'[q] = pc[q] /\ todo'[q] = todo[q] /\ runs'[q] = runs[q]
      BY <1>t, <1>1 DEF StartRun, LoopTypeOK, DbTypeOK
    <2>2. KeepsLedger(r) BY <2>1 DEF KeepsLedger
    <2>3. CommittedRows(r)' = CommittedRows(r) BY <2>1 DEF CommittedRows
    <2>4. LedgerOf(r) BY <1>a
    <2>5. LedgerOf(r)' BY <2>1, <2>3, <2>4 DEF LedgerOf
    <2>6. RowFits(r)' BY <2>1 DEF RowFits
    <2> QED BY <1>t, <2>1, <2>5, <2>6, OthersLedgers
  <1>2. ASSUME NEW r \in Runs,
               SkipExisting(r) \/ LoadNoText(r) \/ BadFile(r) \/ InsertFails(r) \/ StepFails(r)
        PROVE  Ledgers'
    <2>1. /\ pc[r] \in Active /\ wrote' = wrote /\ runs' = runs
          /\ pc[r] # "next" => entry[r] \in Docs
      BY <1>2, EntryInHand DEF SkipExisting, LoadNoText, BadFile, InsertFails, StepFails, dbVars
    <2> DEFINE Moves(d) ==
               CountDocument(r, d, 0) \/ RecordError(r, d) \/ (Advance(r, d) /\ tally' = tally)
    <2>2. \E d \in Docs : Moves(d)
      <3>1. CASE SkipExisting(r) BY <3>1 DEF SkipExisting
      <3>2. CASE LoadNoText(r) BY <2>1, <3>2 DEF LoadNoText
      <3>3. CASE BadFile(r) BY <2>1, <3>3 DEF BadFile
      <3>4. CASE InsertFails(r) BY <2>1, <3>4 DEF InsertFails
      <3>5. CASE StepFails(r)
        <4>1. \E d \in Docs : RecordError(r, d) BY <2>1, <3>5 DEF StepFails
        <4> QED BY <4>1
      <3> QED BY <1>2, <3>1, <3>2, <3>3, <3>4, <3>5
    <2> QED BY <2>1, <2>2, AdvanceLedger
  <1>3. ASSUME NEW r \in Runs, CommitChunks(r) PROVE Ledgers'
    BY <1>3, CommitsLedger DEF CommitChunks
  <1>4. ASSUME NEW r \in Runs, AnswerLost(r) PROVE Ledgers'
    <2>1. RecordError(r, entry[r]) /\ runs' = runs BY <1>4 DEF AnswerLost
    <2>2. CASE pc[r] = "upsert" /\ wrote' = wrote
      <3>1. PICK d \in Docs : d = entry[r] BY <2>2, EntryInHand
      <3>2. RecordError(r, d) BY <2>1, <3>1
      <3> QED BY <2>1, <2>2, <3>2, AdvanceLedger
    <2>3. CASE pc[r] = "commit" /\ CommitRows(r) BY <2>1, <2>3, CommitsLedger
    <2> QED BY <1>4, <2>2, <2>3 DEF AnswerLost
  <1>5. ASSUME NEW r \in Runs, FinishRun(r) \/ FinishFails(r) PROVE Ledgers'
    <2>1. /\ pc[r] = "next" /\ todo[r] = {} /\ pc'[r] \in {"done", "gone"}
          /\ tally' = tally /\ wrote' = wrote /\ todo' = todo
          /\ runs'[r] \in {runs[r], FinishedRow(r)}
          /\ \A q \in Runs \ {r} : pc'[q] = pc[q] /\ runs'[q] = runs[q]
      BY <1>t, <1>5 DEF FinishRun, FinishFails, LoopTypeOK, DbTypeOK
    <2>2. KeepsLedger(r) BY <2>1 DEF KeepsLedger
    <2>3. LedgerOf(r)' /\ RowFits(r)' BY <1>a, <2>1, <2>2, FinishLedger
    <2> QED BY <1>t, <2>1, <2>3, OthersLedgers
  <1>6. ASSUME NEW r \in Runs, StartFails(r) PROVE Ledgers'
    <2>1. /\ pc[r] = "idle" /\ pc'[r] = "gone" /\ runs'[r].status \in {"none", "running"}
          /\ tally' = tally /\ wrote' = wrote /\ todo' = todo
          /\ \A q \in Runs \ {r} : pc'[q] = pc[q] /\ runs'[q] = runs[q]
      BY <1>t, <1>6 DEF StartFails, LoopTypeOK, DbTypeOK
    <2>2. CommittedRows(r)' = CommittedRows(r) BY <2>1 DEF CommittedRows
    <2>3. LedgerOf(r) BY <1>a
    <2>4. LedgerOf(r)' BY <2>1, <2>2, <2>3 DEF LedgerOf
    <2>5. RowFits(r)' BY <2>1 DEF RowFits
    <2> QED BY <1>t, <2>1, <2>4, <2>5, OthersLedgers
  <1>7. ASSUME UNCHANGED <<runs, todo, tally, wrote>>,
               \A r \in Runs : /\ pc'[r] = "idle" => pc[r] = "idle"
                               /\ pc[r] \in {"done", "gone"} => pc'[r] = pc[r]
        PROVE  Ledgers'
    <2> SUFFICES ASSUME NEW r \in Runs PROVE LedgerOf(r)' /\ RowFits(r)'
      BY DEF Ledgers
    <2>1. KeepsLedger(r) BY <1>7 DEF KeepsLedger
    <2> QED BY <1>t, <1>a, <1>7, <2>1, LedgerKept
  <1>8. ASSUME NEW r \in Runs,
               \/ BeginDocument(r) \/ LoadAndChunk(r) \/ HashFile(r) \/ UpsertDocument(r)
               \/ BeginDelete(r) \/ EndDelete(r) \/ InsertChunks(r)
        PROVE  Ledgers'
    <2>1. /\ UNCHANGED <<runs, todo, tally, wrote>>
          /\ pc[r] \notin {"done", "gone"} /\ \E p : pc' = [pc EXCEPT ![r] = p] /\ p # "idle"
      BY <1>8 DEF BeginDocument, LoadAndChunk, HashFile, UpsertDocument, BeginDelete,
                  EndDelete, InsertChunks, dbVars
    <2>2. \A q \in Runs : /\ pc'[q] = "idle" => pc[q] = "idle"
                          /\ pc[q] \in {"done", "gone"} => pc'[q] = pc[q]
      BY <1>t, <2>1 DEF LoopTypeOK
    <2> QED BY <1>7, <2>1, <2>2, Zenon
  <1>9. ASSUME NEW P \in Processes, Crash(P) PROVE Ledgers'
    <2>1. /\ UNCHANGED <<runs, todo, tally, wrote>>
          /\ pc' = [r \in Runs |-> IF r \in P /\ pc[r] \in Active THEN "dead" ELSE pc[r]]
      BY <1>9 DEF Crash, dbVars
    <2>2. \A q \in Runs : /\ pc'[q] = "idle" => pc[q] = "idle"
                          /\ pc[q] \in {"done", "gone"} => pc'[q] = pc[q]
      BY <2>1
    <2> QED BY <1>7, <2>1, <2>2, Zenon
  <1>10. ASSUME UNCHANGED vars \/ \E d \in Docs, v \in Versions : Download(d, v) \/ ReplacePdf(d, v)
         PROVE  Ledgers'
    <2>1. UNCHANGED <<runs, todo, tally, wrote, pc>>
      BY <1>10 DEF vars, dbVars, runVars, Download, ReplacePdf
    <2>2. \A q \in Runs : /\ pc'[q] = "idle" => pc[q] = "idle"
                          /\ pc[q] \in {"done", "gone"} => pc'[q] = pc[q]
      BY <2>1
    <2> QED BY <1>7, <2>1, <2>2, Zenon
  <1> QED BY <1>1, <1>2, <1>3, <1>4, <1>5, <1>6, <1>8, <1>9, <1>10
          DEF Next, RunStep, Fault, AllEnded

\* chunks_written of a run's row is the number of rows the run has committed,
\* and never more than that (pipeline.py:132-146).
THEOREM ChunkCountAlwaysExact == Spec => []ChunkCountExact
  <1>1. ConstantsAssumption /\ Init => Ledgers
    <2> SUFFICES ASSUME ConstantsAssumption, Init, NEW r \in Runs
                 PROVE  LedgerOf(r) /\ RowFits(r)
      BY DEF Ledgers
    <2>1. wrote[r] = {} /\ tally[r].chunks = 0 /\ runs[r].status = "none" BY DEF Init
    <2>2. CommittedRows(r) = {} BY <2>1 DEF CommittedRows
    <2>3. IsFiniteSet({}) /\ Cardinality({}) = 0 BY FS_EmptySet
    <2>4. LedgerOf(r) BY <2>1, <2>2, <2>3 DEF LedgerOf
    <2> QED BY <2>1, <2>4 DEF RowFits
  <1>2. Ledgers => ChunkCountExact BY DEF Ledgers, RowFits, ChunkCountExact
  <1>3. IInv /\ Ledgers /\ [Next]_vars => Ledgers'
    BY ConstantsAssumption, LedgersStep DEF IInv
  <1> QED BY <1>1, <1>2, <1>3, ConstantsAssumption, Invariant, PTL DEF Spec
=============================================================================
