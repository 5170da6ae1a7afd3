------------------------- MODULE CorpusFilesProofs -------------------------
(* Proofs about CorpusFiles, for a manifest of any length and any number of *)
(* interruptions.                                                           *)
EXTENDS CorpusFiles, TLAPS

\* What is known of the file that either program is writing.
Writing ==
    /\ linked = "yes" => brAt = "write"
    /\ pyAt = "replace" => pyBody \in Bodies /\ ~validate
    /\ \A d \in Docs : brAt = "write" /\ BrDoc(d) =>
          /\ linked = "yes" => file[d] \in {"cut", "smallcut"}
          /\ linked = "no" => d \in raced

\* Two programs at work on one document have raced; and what one of them has
\* found missing is missing until they do.
Races ==
    /\ \A d \in Docs : pyAt \in PyBusy /\ PyDoc(d) /\ ~validate =>
          /\ brAt \in BrBusy /\ BrDoc(d) => d \in raced
          /\ file[d] = "none" \/ d \in raced
    /\ \A d \in Docs : brAt = "fetch" /\ BrDoc(d) => file[d] \notin Big \/ d \in raced

\* What the entries that a loop has finished with have come to.
Progress ==
    /\ pyFailed = "none" /\ ~validate => \A d \in pyReq \ pyTodo : file[d] # "none"
    /\ brFailed = "none" => \A d \in (brReq \ brTodo) \ raced :
                                file[d] \in {"pdf", "bigpage"} \/ d \in cut
    /\ pyAt = "ended" => pyTodo = {}
    /\ brAt = "ended" => brTodo = {}

CInv == TypeOK /\ JunkExplained /\ Writing /\ Races /\ Progress

\* A loop is at one document, and it is one that is left to do.
LEMMA FirstIsOne ==
    ASSUME NEW S \in SUBSET Docs, NEW d, NEW e, First(S, d), First(S, e)
    PROVE  d = e /\ d \in S
BY DEF First, Docs

\* The same of the loops of the two programs.
LEMMA OneDocument ==
    ASSUME TypeOK
    PROVE  /\ \A d, e : PyDoc(d) /\ PyDoc(e) => d = e
           /\ \A d, e : BrDoc(d) /\ BrDoc(e) => d = e
           /\ \A d : PyDoc(d) => d \in pyTodo /\ d \in Docs
           /\ \A d : BrDoc(d) => d \in brTodo /\ d \in Docs
<1>1. pyTodo \in SUBSET Docs /\ brTodo \in SUBSET Docs
  BY DEF TypeOK
<1>2. \A S \in SUBSET Docs : \A d, e : First(S, d) /\ First(S, e) => d = e /\ d \in S
  BY FirstIsOne
<1>3. /\ \A d, e : First(pyTodo, d) /\ First(pyTodo, e) => d = e /\ d \in pyTodo
      /\ \A d, e : First(brTodo, d) /\ First(brTodo, e) => d = e /\ d \in brTodo
  BY <1>1, <1>2
<1>4. \A d : (PyDoc(d) => d \in pyTodo) /\ (BrDoc(d) => d \in brTodo)
  BY <1>3, Zenon DEF PyDoc, BrDoc
<1>5. \A d, e : (PyDoc(d) /\ PyDoc(e) => d = e) /\ (BrDoc(d) /\ BrDoc(e) => d = e)
  BY <1>3, Zenon DEF PyDoc, BrDoc
<1> QED BY <1>1, <1>4, <1>5

LEMMA CInvInit == Init => CInv
<1> SUFFICES ASSUME Init PROVE CInv
  OBVIOUS
<1>1. TypeOK
  BY ConstantsAssumption DEF Init, TypeOK, Contents, Bodies, PyBusy, BrBusy
<1>2. JunkExplained
  BY DEF Init, JunkExplained
<1>3. Writing /\ Races
  BY DEF Init, Writing, Races, PyBusy, BrBusy
<1>4. Progress
  BY DEF Init, Progress
<1> QED BY <1>1, <1>2, <1>3, <1>4 DEF CInv

LEMMA TypeStep == TypeOK /\ [Next]_vars => TypeOK'
<1> SUFFICES ASSUME TypeOK, [Next]_vars PROVE TypeOK'
  OBVIOUS
<1>t. /\ file \in [Docs -> Contents \cup {"none"}]
      /\ pyTodo \in SUBSET pyReq /\ pyReq \in SUBSET Docs
      /\ brTodo \in SUBSET brReq /\ brReq \in SUBSET Docs
      /\ linked \in {"yes", "no"} /\ pyBody \in Bodies \cup {"none"}
  BY DEF TypeOK
<1>o. /\ \A d, e : PyDoc(d) /\ PyDoc(e) => d = e
      /\ \A d, e : BrDoc(d) /\ BrDoc(e) => d = e
      /\ \A d : PyDoc(d) => d \in pyTodo /\ d \in Docs
      /\ \A d : BrDoc(d) => d \in brTodo /\ d \in Docs
  BY OneDocument
<1>1. ASSUME NEW S \in SUBSET Docs, NEW v \in BOOLEAN, PyStart(S, v) PROVE TypeOK'
  BY <1>t, <1>o, <1>1
     DEF PyStart, pyVars, brVars, TypeOK, Contents, Bodies, PyBusy, BrBusy
<1>2. ASSUME NEW S \in SUBSET Docs, BrStart(S) PROVE TypeOK'
  BY <1>t, <1>o, <1>2
     DEF BrStart, pyVars, brVars, TypeOK, Contents, Bodies, PyBusy, BrBusy
<1>3. ASSUME NEW d \in Docs, PySkip(d) PROVE TypeOK'
  BY <1>t, <1>o, <1>3
     DEF PySkip, PyReturn, Present, pyVars, brVars, TypeOK, Contents, Bodies,
     PyBusy, BrBusy
<1>4. ASSUME NEW d \in Docs, PyBegin(d) PROVE TypeOK'
  BY <1>t, <1>o, <1>4
     DEF PyBegin, Present, pyVars, brVars, TypeOK, Contents, Bodies, PyBusy,
     BrBusy
<1>5. ASSUME NEW d \in Docs, PyHead(d) PROVE TypeOK'
  BY <1>t, <1>o, <1>5
     DEF PyHead, PyReturn, pyVars, brVars, TypeOK, Contents, Bodies, PyBusy,
     BrBusy
<1>6. ASSUME NEW d \in Docs, PyFail(d) PROVE TypeOK'
  BY <1>t, <1>o, <1>6
     DEF PyFail, PyReturn, pyVars, brVars, TypeOK, Contents, Bodies, PyBusy,
     BrBusy
<1>7. ASSUME NEW d \in Docs, PyReceive(d) PROVE TypeOK'
  BY <1>t, <1>o, <1>7
     DEF PyReceive, pyVars, brVars, TypeOK, Contents, Bodies, PyBusy, BrBusy
<1>8. ASSUME NEW d \in Docs, PyReplace(d) PROVE TypeOK'
  BY <1>t, <1>o, <1>8
     DEF PyReplace, PyReturn, pyVars, brVars, TypeOK, Contents, Bodies, PyBusy,
     BrBusy
<1>9. ASSUME NEW d \in Docs, BrSkip(d) PROVE TypeOK'
  BY <1>t, <1>o, <1>9
     DEF BrSkip, BrReturn, BigEnough, pyVars, brVars, TypeOK, Contents, Bodies,
     PyBusy, BrBusy
<1>10. ASSUME NEW d \in Docs, BrBegin(d) PROVE TypeOK'
  BY <1>t, <1>o, <1>10
     DEF BrBegin, BigEnough, pyVars, brVars, TypeOK, Contents, Bodies, PyBusy,
     BrBusy
<1>11. ASSUME NEW d \in Docs, BrFail(d) PROVE TypeOK'
  BY <1>t, <1>o, <1>11
     DEF BrFail, BrReturn, pyVars, brVars, TypeOK, Contents, Bodies, PyBusy,
     BrBusy
<1>12. ASSUME NEW d \in Docs, BrFetch(d) PROVE TypeOK'
  BY <1>t, <1>o, <1>12
     DEF BrFetch, pyVars, brVars, TypeOK, Contents, Bodies, PyBusy, BrBusy
<1>13. ASSUME NEW d \in Docs, BrFill(d) PROVE TypeOK'
  BY <1>t, <1>o, <1>13
     DEF BrFill, Fill, pyVars, brVars, TypeOK, Contents, Bodies, PyBusy, BrBusy
<1>14. ASSUME NEW d \in Docs, BrWrite(d) PROVE TypeOK'
  BY <1>t, <1>o, <1>14
     DEF BrWrite, BrReturn, Fill, pyVars, brVars, TypeOK, Contents, Bodies,
     PyBusy, BrBusy
<1>15. ASSUME NEW d \in Docs, BrWriteFails(d) PROVE TypeOK'
  BY <1>t, <1>o, <1>15
     DEF BrWriteFails, BrReturn, LeavesCut, pyVars, brVars, TypeOK, Contents,
     Bodies, PyBusy, BrBusy
<1>16. CASE PyEnd
  BY <1>t, <1>o, <1>16
     DEF PyEnd, pyVars, brVars, TypeOK, Contents, Bodies, PyBusy, BrBusy
<1>17. CASE PyAbort
  BY <1>t, <1>o, <1>17
     DEF PyAbort, pyVars, brVars, TypeOK, Contents, Bodies, PyBusy, BrBusy
<1>18. CASE BrEnd
  BY <1>t, <1>o, <1>18
     DEF BrEnd, pyVars, brVars, TypeOK, Contents, Bodies, PyBusy, BrBusy
<1>19. CASE BrAbort
  BY <1>t, <1>o, <1>19
     DEF BrAbort, LeavesCut, pyVars, brVars, TypeOK, Contents, Bodies, PyBusy,
     BrBusy
<1>20. CASE UNCHANGED vars
  BY <1>t, <1>o, <1>20
     DEF vars, pyVars, brVars, TypeOK, Contents, Bodies, PyBusy, BrBusy
<1> QED
  BY <1>1, <1>2, <1>3, <1>4, <1>5, <1>6, <1>7, <1>8, <1>9, <1>10, <1>11, <1>12,
     <1>13, <1>14, <1>15, <1>16, <1>17, <1>18, <1>19, <1>20 DEF Next, PyStep, BrStep

LEMMA JunkStep == TypeOK /\ JunkExplained /\ Writing /\ [Next]_vars => JunkExplained'
<1> SUFFICES ASSUME TypeOK, JunkExplained, Writing, [Next]_vars PROVE JunkExplained'
  OBVIOUS
<1>t. /\ file \in [Docs -> Contents \cup {"none"}]
      /\ pyTodo \in SUBSET pyReq /\ pyReq \in SUBSET Docs
      /\ brTodo \in SUBSET brReq /\ brReq \in SUBSET Docs
      /\ linked \in {"yes", "no"} /\ pyBody \in Bodies \cup {"none"}
  BY DEF TypeOK
<1>o. /\ \A d, e : PyDoc(d) /\ PyDoc(e) => d = e
      /\ \A d, e : BrDoc(d) /\ BrDoc(e) => d = e
      /\ \A d : PyDoc(d) => d \in pyTodo /\ d \in Docs
      /\ \A d : BrDoc(d) => d \in brTodo /\ d \in Docs
  BY OneDocument
<1>1. ASSUME NEW S \in SUBSET Docs, NEW v \in BOOLEAN, PyStart(S, v) PROVE JunkExplained'
  BY <1>t, <1>o, <1>1
     DEF PyStart, pyVars, brVars, JunkExplained, Writing, Bodies, BrDoc
<1>2. ASSUME NEW S \in SUBSET Docs, BrStart(S) PROVE JunkExplained'
  BY <1>t, <1>o, <1>2
     DEF BrStart, pyVars, brVars, JunkExplained, Writing, Bodies, BrDoc
<1>3. ASSUME NEW d \in Docs, PySkip(d) PROVE JunkExplained'
  BY <1>t, <1>o, <1>3
     DEF PySkip, PyReturn, Present, pyVars, brVars, JunkExplained, Writing,
     Bodies, BrDoc
<1>4. ASSUME NEW d \in Docs, PyBegin(d) PROVE JunkExplained'
  BY <1>t, <1>o, <1>4
     DEF PyBegin, Present, pyVars, brVars, JunkExplained, Writing, Bodies, BrDoc
<1>5. ASSUME NEW d \in Docs, PyHead(d) PROVE JunkExplained'
  BY <1>t, <1>o, <1>5
     DEF PyHead, PyReturn, pyVars, brVars, JunkExplained, Writing, Bodies, BrDoc
<1>6. ASSUME NEW d \in Docs, PyFail(d) PROVE JunkExplained'
  BY <1>t, <1>o, <1>6
     DEF PyFail, PyReturn, pyVars, brVars, JunkExplained, Writing, Bodies, BrDoc
<1>7. ASSUME NEW d \in Docs, PyReceive(d) PROVE JunkExplained'
  BY <1>t, <1>o, <1>7
     DEF PyReceive, pyVars, brVars, JunkExplained, Writing, Bodies, BrDoc
<1>8. ASSUME NEW d \in Docs, PyReplace(d) PROVE JunkExplained'
  BY <1>t, <1>o, <1>8
     DEF PyReplace, PyReturn, pyVars, brVars, JunkExplained, Writing, Bodies,
     BrDoc
<1>9. ASSUME NEW d \in Docs, BrSkip(d) PROVE JunkExplained'
  BY <1>t, <1>o, <1>9
     DEF BrSkip, BrReturn, BigEnough, pyVars, brVars, JunkExplained, Writing,
     Bodies, BrDoc
<1>10. ASSUME NEW d \in Docs, BrBegin(d) PROVE JunkExplained'
  BY <1>t, <1>o, <1>10
     DEF BrBegin, BigEnough, pyVars, brVars, JunkExplained, Writing, Bodies,
     BrDoc
<1>11. ASSUME NEW d \in Docs, BrFail(d) PROVE JunkExplained'
  BY <1>t, <1>o, <1>11
     DEF BrFail, BrReturn, pyVars, brVars, JunkExplained, Writing, Bodies, BrDoc
<1>12. ASSUME NEW d \in Docs, BrFetch(d) PROVE JunkExplained'
  BY <1>t, <1>o, <1>12
     DEF BrFetch, pyVars, brVars, JunkExplained, Writing, Bodies, BrDoc
<1>13. ASSUME NEW d \in Docs, BrFill(d) PROVE JunkExplained'
  BY <1>t, <1>o, <1>13
     DEF BrFill, Fill, pyVars, brVars, JunkExplained, Writing, Bodies, BrDoc
<1>14. ASSUME NEW d \in Docs, BrWrite(d) PROVE JunkExplained'
  BY <1>t, <1>o, <1>14
     DEF BrWrite, BrReturn, Fill, pyVars, brVars, JunkExplained, Writing,
     Bodies, BrDoc
<1>15. ASSUME NEW d \in Docs, BrWriteFails(d) PROVE JunkExplained'
  BY <1>t, <1>o, <1>15
     DEF BrWriteFails, BrReturn, LeavesCut, pyVars, brVars, JunkExplained,
     Writing, Bodies, BrDoc
<1>16. CASE PyEnd
  BY <1>t, <1>o, <1>16
     DEF PyEnd, pyVars, brVars, JunkExplained, Writing, Bodies, BrDoc
<1>17. CASE PyAbort
  BY <1>t, <1>o, <1>17
     DEF PyAbort, pyVars, brVars, JunkExplained, Writing, Bodies, BrDoc
<1>18. CASE BrEnd
  BY <1>t, <1>o, <1>18
     DEF BrEnd, pyVars, brVars, JunkExplained, Writing, Bodies, BrDoc
<1>19. CASE BrAbort
  BY <1>t, <1>o, <1>19
     DEF BrAbort, LeavesCut, pyVars, brVars, JunkExplained, Writing, Bodies,
     BrDoc
<1>20. CASE UNCHANGED vars
  BY <1>t, <1>o, <1>20
     DEF vars, pyVars, brVars, JunkExplained, Writing, Bodies, BrDoc
<1> QED
  BY <1>1, <1>2, <1>3, <1>4, <1>5, <1>6, <1>7, <1>8, <1>9, <1>10, <1>11, <1>12,
     <1>13, <1>14, <1>15, <1>16, <1>17, <1>18, <1>19, <1>20 DEF Next, PyStep, BrStep

LEMMA WritingStep == TypeOK /\ Writing /\ Races /\ [Next]_vars => Writing'
<1> SUFFICES ASSUME TypeOK, Writing, Races, [Next]_vars PROVE Writing'
  OBVIOUS
<1>t. /\ file \in [Docs -> Contents \cup {"none"}]
      /\ pyTodo \in SUBSET pyReq /\ pyReq \in SUBSET Docs
      /\ brTodo \in SUBSET brReq /\ brReq \in SUBSET Docs
      /\ linked \in {"yes", "no"} /\ pyBody \in Bodies \cup {"none"}
  BY DEF TypeOK
<1>o. /\ \A d, e : PyDoc(d) /\ PyDoc(e) => d = e
      /\ \A d, e : BrDoc(d) /\ BrDoc(e) => d = e
      /\ \A d : PyDoc(d) => d \in pyTodo /\ d \in Docs
      /\ \A d : BrDoc(d) => d \in brTodo /\ d \in Docs
  BY OneDocument
<1>1. ASSUME NEW S \in SUBSET Docs, NEW v \in BOOLEAN, PyStart(S, v) PROVE Writing'
  BY <1>t, <1>o, <1>1
     DEF PyStart, pyVars, brVars, Writing, Races, Bodies, PyDoc, BrDoc, PyBusy,
     BrBusy
<1>2. ASSUME NEW S \in SUBSET Docs, BrStart(S) PROVE Writing'
  BY <1>t, <1>o, <1>2
     DEF BrStart, pyVars, brVars, Writing, Races, Bodies, PyDoc, BrDoc, PyBusy,
     BrBusy
<1>3. ASSUME NEW d \in Docs, PySkip(d) PROVE Writing'
  BY <1>t, <1>o, <1>3
     DEF PySkip, PyReturn, Present, pyVars, brVars, Writing, Races, Bodies,
     PyDoc, BrDoc, PyBusy, BrBusy
<1>4. ASSUME NEW d \in Docs, PyBegin(d) PROVE Writing'
  BY <1>t, <1>o, <1>4
     DEF PyBegin, Present, pyVars, brVars, Writing, Races, Bodies, PyDoc, BrDoc,
     PyBusy, BrBusy
<1>5. ASSUME NEW d \in Docs, PyHead(d) PROVE Writing'
  BY <1>t, <1>o, <1>5
     DEF PyHead, PyReturn, pyVars, brVars, Writing, Races, Bodies, PyDoc, BrDoc,
     PyBusy, BrBusy
<1>6. ASSUME NEW d \in Docs, PyFail(d) PROVE Writing'
  BY <1>t, <1>o, <1>6
     DEF PyFail, PyReturn, pyVars, brVars, Writing, Races, Bodies, PyDoc, BrDoc,
     PyBusy, BrBusy
<1>7. ASSUME NEW d \in Docs, PyReceive(d) PROVE Writing'
  BY <1>t, <1>o, <1>7
     DEF PyReceive, pyVars, brVars, Writing, Races, Bodies, PyDoc, BrDoc,
     PyBusy, BrBusy
<1>8. ASSUME NEW d \in Docs, PyReplace(d) PROVE Writing'
  BY <1>t, <1>o, <1>8
     DEF PyReplace, PyReturn, pyVars, brVars, Writing, Races, Bodies, PyDoc,
     BrDoc, PyBusy, BrBusy
<1>9. ASSUME NEW d \in Docs, BrSkip(d) PROVE Writing'
  BY <1>t, <1>o, <1>9
     DEF BrSkip, BrReturn, BigEnough, pyVars, brVars, Writing, Races, Bodies,
     PyDoc, BrDoc, PyBusy, BrBusy
<1>10. ASSUME NEW d \in Docs, BrBegin(d) PROVE Writing'
  BY <1>t, <1>o, <1>10
     DEF BrBegin, BigEnough, pyVars, brVars, Writing, Races, Bodies, PyDoc,
     BrDoc, PyBusy, BrBusy
<1>11. ASSUME NEW d \in Docs, BrFail(d) PROVE Writing'
  BY <1>t, <1>o, <1>11
     DEF BrFail, BrReturn, pyVars, brVars, Writing, Races, Bodies, PyDoc, BrDoc,
     PyBusy, BrBusy
<1>12. ASSUME NEW d \in Docs, BrFetch(d) PROVE Writing'
  BY <1>t, <1>o, <1>12
     DEF BrFetch, pyVars, brVars, Writing, Races, Bodies, PyDoc, BrDoc, PyBusy,
     BrBusy
<1>13. ASSUME NEW d \in Docs, BrFill(d) PROVE Writing'
  BY <1>t, <1>o, <1>13
     DEF BrFill, Fill, pyVars, brVars, Writing, Races, Bodies, PyDoc, BrDoc,
     PyBusy, BrBusy
<1>14. ASSUME NEW d \in Docs, BrWrite(d) PROVE Writing'
  BY <1>t, <1>o, <1>14
     DEF BrWrite, BrReturn, Fill, pyVars, brVars, Writing, Races, Bodies, PyDoc,
     BrDoc, PyBusy, BrBusy
<1>15. ASSUME NEW d \in Docs, BrWriteFails(d) PROVE Writing'
  BY <1>t, <1>o, <1>15
     DEF BrWriteFails, BrReturn, LeavesCut, pyVars, brVars, Writing, Races,
     Bodies, PyDoc, BrDoc, PyBusy, BrBusy
<1>16. CASE PyEnd
  BY <1>t, <1>o, <1>16
     DEF PyEnd, pyVars, brVars, Writing, Races, Bodies, PyDoc, BrDoc, PyBusy,
     BrBusy
<1>17. CASE PyAbort
  BY <1>t, <1>o, <1>17
     DEF PyAbort, pyVars, brVars, Writing, Races, Bodies, PyDoc, BrDoc, PyBusy,
     BrBusy
<1>18. CASE BrEnd
  BY <1>t, <1>o, <1>18
     DEF BrEnd, pyVars, brVars, Writing, Races, Bodies, PyDoc, BrDoc, PyBusy,
     BrBusy
<1>19. CASE BrAbort
  BY <1>t, <1>o, <1>19
     DEF BrAbort, LeavesCut, pyVars, brVars, Writing, Races, Bodies, PyDoc,
     BrDoc, PyBusy, BrBusy
<1>20. CASE UNCHANGED vars
  BY <1>t, <1>o, <1>20
     DEF vars, pyVars, brVars, Writing, Races, Bodies, PyDoc, BrDoc, PyBusy,
     BrBusy
<1> QED
  BY <1>1, <1>2, <1>3, <1>4, <1>5, <1>6, <1>7, <1>8, <1>9, <1>10, <1>11, <1>12,
     <1>13, <1>14, <1>15, <1>16, <1>17, <1>18, <1>19, <1>20 DEF Next, PyStep, BrStep

LEMMA RacesStep == TypeOK /\ Writing /\ Races /\ [Next]_vars => Races'
<1> SUFFICES ASSUME TypeOK, Writing, Races, [Next]_vars PROVE Races'
  OBVIOUS
<1>t. /\ file \in [Docs -> Contents \cup {"none"}]
      /\ pyTodo \in SUBSET pyReq /\ pyReq \in SUBSET Docs
      /\ brTodo \in SUBSET brReq /\ brReq \in SUBSET Docs
      /\ linked \in {"yes", "no"} /\ pyBody \in Bodies \cup {"none"}
  BY DEF TypeOK
<1>o. /\ \A d, e : PyDoc(d) /\ PyDoc(e) => d = e
      /\ \A d, e : BrDoc(d) /\ BrDoc(e) => d = e
      /\ \A d : PyDoc(d) => d \in pyTodo /\ d \in Docs
      /\ \A d : BrDoc(d) => d \in brTodo /\ d \in Docs
  BY OneDocument
<1>1. ASSUME NEW S \in SUBSET Docs, NEW v \in BOOLEAN, PyStart(S, v) PROVE Races'
  BY <1>t, <1>o, <1>1
     DEF PyStart, pyVars, brVars, Writing, Races, Bodies, Big, PyDoc, BrDoc,
     PyBusy, BrBusy
<1>2. ASSUME NEW S \in SUBSET Docs, BrStart(S) PROVE Races'
  BY <1>t, <1>o, <1>2
     DEF BrStart, pyVars, brVars, Writing, Races, Bodies, Big, PyDoc, BrDoc,
     PyBusy, BrBusy
<1>3. ASSUME NEW d \in Docs, PySkip(d) PROVE Races'
  BY <1>t, <1>o, <1>3
     DEF PySkip, PyReturn, Present, pyVars, brVars, Writing, Races, Bodies, Big,
     PyDoc, BrDoc, PyBusy, BrBusy
<1>4. ASSUME NEW d \in Docs, PyBegin(d) PROVE Races'
  BY <1>t, <1>o, <1>4
     DEF PyBegin, Present, pyVars, brVars, Writing, Races, Bodies, Big, PyDoc,
     BrDoc, PyBusy, BrBusy
<1>5. ASSUME NEW d \in Docs, PyHead(d) PROVE Races'
  BY <1>t, <1>o, <1>5
     DEF PyHead, PyReturn, pyVars, brVars, Writing, Races, Bodies, Big, PyDoc,
     BrDoc, PyBusy, BrBusy
<1>6. ASSUME NEW d \in Docs, PyFail(d) PROVE Races'
  BY <1>t, <1>o, <1>6
     DEF PyFail, PyReturn, pyVars, brVars, Writing, Races, Bodies, Big, PyDoc,
     BrDoc, PyBusy, BrBusy
<1>7. ASSUME NEW d \in Docs, PyReceive(d) PROVE Races'
  BY <1>t, <1>o, <1>7
     DEF PyReceive, pyVars, brVars, Writing, Races, Bodies, Big, PyDoc, BrDoc,
     PyBusy, BrBusy
<1>8. ASSUME NEW d \in Docs, PyReplace(d) PROVE Races'
  BY <1>t, <1>o, <1>8
     DEF PyReplace, PyReturn, pyVars, brVars, Writing, Races, Bodies, Big,
     PyDoc, BrDoc, PyBusy, BrBusy
<1>9. ASSUME NEW d \in Docs, BrSkip(d) PROVE Races'
  BY <1>t, <1>o, <1>9
     DEF BrSkip, BrReturn, BigEnough, pyVars, brVars, Writing, Races, Bodies,
     Big, PyDoc, BrDoc, PyBusy, BrBusy
<1>10. ASSUME NEW d \in Docs, BrBegin(d) PROVE Races'
  BY <1>t, <1>o, <1>10
     DEF BrBegin, BigEnough, pyVars, brVars, Writing, Races, Bodies, Big, PyDoc,
     BrDoc, PyBusy, BrBusy
<1>11. ASSUME NEW d \in Docs, BrFail(d) PROVE Races'
  BY <1>t, <1>o, <1>11
     DEF BrFail, BrReturn, pyVars, brVars, Writing, Races, Bodies, Big, PyDoc,
     BrDoc, PyBusy, BrBusy
<1>12. ASSUME NEW d \in Docs, BrFetch(d) PROVE Races'
  BY <1>t, <1>o, <1>12
     DEF BrFetch, pyVars, brVars, Writing, Races, Bodies, Big, PyDoc, BrDoc,
     PyBusy, BrBusy
<1>13. ASSUME NEW d \in Docs, BrFill(d) PROVE Races'
  BY <1>t, <1>o, <1>13
     DEF BrFill, Fill, pyVars, brVars, Writing, Races, Bodies, Big, PyDoc,
     BrDoc, PyBusy, BrBusy
<1>14. ASSUME NEW d \in Docs, BrWrite(d) PROVE Races'
  BY <1>t, <1>o, <1>14
     DEF BrWrite, BrReturn, Fill, pyVars, brVars, Writing, Races, Bodies, Big,
     PyDoc, BrDoc, PyBusy, BrBusy
<1>15. ASSUME NEW d \in Docs, BrWriteFails(d) PROVE Races'
  BY <1>t, <1>o, <1>15
     DEF BrWriteFails, BrReturn, LeavesCut, pyVars, brVars, Writing, Races,
     Bodies, Big, PyDoc, BrDoc, PyBusy, BrBusy
<1>16. CASE PyEnd
  BY <1>t, <1>o, <1>16
     DEF PyEnd, pyVars, brVars, Writing, Races, Bodies, Big, PyDoc, BrDoc,
     PyBusy, BrBusy
<1>17. CASE PyAbort
  BY <1>t, <1>o, <1>17
     DEF PyAbort, pyVars, brVars, Writing, Races, Bodies, Big, PyDoc, BrDoc,
     PyBusy, BrBusy
<1>18. CASE BrEnd
  BY <1>t, <1>o, <1>18
     DEF BrEnd, pyVars, brVars, Writing, Races, Bodies, Big, PyDoc, BrDoc,
     PyBusy, BrBusy
<1>19. CASE BrAbort
  BY <1>t, <1>o, <1>19
     DEF BrAbort, LeavesCut, pyVars, brVars, Writing, Races, Bodies, Big, PyDoc,
     BrDoc, PyBusy, BrBusy
<1>20. CASE UNCHANGED vars
  BY <1>t, <1>o, <1>20
     DEF vars, pyVars, brVars, Writing, Races, Bodies, Big, PyDoc, BrDoc,
     PyBusy, BrBusy
<1> QED
  BY <1>1, <1>2, <1>3, <1>4, <1>5, <1>6, <1>7, <1>8, <1>9, <1>10, <1>11, <1>12,
     <1>13, <1>14, <1>15, <1>16, <1>17, <1>18, <1>19, <1>20 DEF Next, PyStep, BrStep

LEMMA ProgressStep ==
    TypeOK /\ JunkExplained /\ Writing /\ Races /\ Progress /\ [Next]_vars => Progress'
<1> SUFFICES ASSUME TypeOK, JunkExplained, Writing, Races, Progress, [Next]_vars
             PROVE  Progress'
  OBVIOUS
<1>t. /\ file \in [Docs -> Contents \cup {"none"}]
      /\ pyTodo \in SUBSET pyReq /\ pyReq \in SUBSET Docs
      /\ brTodo \in SUBSET brReq /\ brReq \in SUBSET Docs
      /\ linked \in {"yes", "no"} /\ pyBody \in Bodies \cup {"none"}
  BY DEF TypeOK
<1>o. /\ \A d, e : PyDoc(d) /\ PyDoc(e) => d = e
      /\ \A d, e : BrDoc(d) /\ BrDoc(e) => d = e
      /\ \A d : PyDoc(d) => d \in pyTodo /\ d \in Docs
      /\ \A d : BrDoc(d) => d \in brTodo /\ d \in Docs
  BY OneDocument
<1>1. ASSUME NEW S \in SUBSET Docs, NEW v \in BOOLEAN, PyStart(S, v) PROVE Progress'
  BY <1>t, <1>o, <1>1
     DEF PyStart, pyVars, brVars, JunkExplained, Writing, Races, Progress,
     Bodies, Big, PyDoc, BrDoc, PyBusy, BrBusy
<1>2. ASSUME NEW S \in SUBSET Docs, BrStart(S) PROVE Progress'
  BY <1>t, <1>o, <1>2
     DEF BrStart, pyVars, brVars, JunkExplained, Writing, Races, Progress,
     Bodies, Big, PyDoc, BrDoc, PyBusy, BrBusy
<1>3. ASSUME NEW d \in Docs, PySkip(d) PROVE Progress'
  BY <1>t, <1>o, <1>3
     DEF PySkip, PyReturn, Present, pyVars, brVars, JunkExplained, Writing,
     Races, Progress, Bodies, Big, PyDoc, BrDoc, PyBusy, BrBusy
<1>4. ASSUME NEW d \in Docs, PyBegin(d) PROVE Progress'
  BY <1>t, <1>o, <1>4
     DEF PyBegin, Present, pyVars, brVars, JunkExplained, Writing, Races,
     Progress, Bodies, Big, PyDoc, BrDoc, PyBusy, BrBusy
<1>5. ASSUME NEW d \in Docs, PyHead(d) PROVE Progress'
  BY <1>t, <1>o, <1>5
     DEF PyHead, PyReturn, pyVars, brVars, JunkExplained, Writing, Races,
     Progress, Bodies, Big, PyDoc, BrDoc, PyBusy, BrBusy
<1>6. ASSUME NEW d \in Docs, PyFail(d) PROVE Progress'
  BY <1>t, <1>o, <1>6
     DEF PyFail, PyReturn, pyVars, brVars, JunkExplained, Writing, Races,
     Progress, Bodies, Big, PyDoc, BrDoc, PyBusy, BrBusy
<1>7. ASSUME NEW d \in Docs, PyReceive(d) PROVE Progress'
  BY <1>t, <1>o, <1>7
     DEF PyReceive, pyVars, brVars, JunkExplained, Writing, Races, Progress,
     Bodies, Big, PyDoc, BrDoc, PyBusy, BrBusy
<1>8. ASSUME NEW d \in Docs, PyReplace(d) PROVE Progress'
  BY <1>t, <1>o, <1>8
     DEF PyReplace, PyReturn, pyVars, brVars, JunkExplained, Writing, Races,
     Progress, Bodies, Big, PyDoc, BrDoc, PyBusy, BrBusy
<1>9. ASSUME NEW d \in Docs, BrSkip(d) PROVE Progress'
  BY <1>t, <1>o, <1>9
     DEF BrSkip, BrReturn, BigEnough, pyVars, brVars, JunkExplained, Writing,
     Races, Progress, Bodies, Big, PyDoc, BrDoc, PyBusy, BrBusy
<1>10. ASSUME NEW d \in Docs, BrBegin(d) PROVE Progress'
  BY <1>t, <1>o, <1>10
     DEF BrBegin, BigEnough, pyVars, brVars, JunkExplained, Writing, Races,
     Progress, Bodies, Big, PyDoc, BrDoc, PyBusy, BrBusy
<1>11. ASSUME NEW d \in Docs, BrFail(d) PROVE Progress'
  BY <1>t, <1>o, <1>11
     DEF BrFail, BrReturn, pyVars, brVars, JunkExplained, Writing, Races,
     Progress, Bodies, Big, PyDoc, BrDoc, PyBusy, BrBusy
<1>12. ASSUME NEW d \in Docs, BrFetch(d) PROVE Progress'
  BY <1>t, <1>o, <1>12
     DEF BrFetch, pyVars, brVars, JunkExplained, Writing, Races, Progress,
     Bodies, Big, PyDoc, BrDoc, PyBusy, BrBusy
<1>13. ASSUME NEW d \in Docs, BrFill(d) PROVE Progress'
  BY <1>t, <1>o, <1>13
     DEF BrFill, Fill, pyVars, brVars, JunkExplained, Writing, Races, Progress,
     Bodies, Big, PyDoc, BrDoc, PyBusy, BrBusy
<1>14. ASSUME NEW d \in Docs, BrWrite(d) PROVE Progress'
  BY <1>t, <1>o, <1>14
     DEF BrWrite, BrReturn, Fill, pyVars, brVars, JunkExplained, Writing, Races,
     Progress, Bodies, Big, PyDoc, BrDoc, PyBusy, BrBusy
<1>15. ASSUME NEW d \in Docs, BrWriteFails(d) PROVE Progress'
  BY <1>t, <1>o, <1>15
     DEF BrWriteFails, BrReturn, LeavesCut, pyVars, brVars, JunkExplained,
     Writing, Races, Progress, Bodies, Big, PyDoc, BrDoc, PyBusy, BrBusy
<1>16. CASE PyEnd
  BY <1>t, <1>o, <1>16
     DEF PyEnd, pyVars, brVars, JunkExplained, Writing, Races, Progress, Bodies,
     Big, PyDoc, BrDoc, PyBusy, BrBusy
<1>17. CASE PyAbort
  BY <1>t, <1>o, <1>17
     DEF PyAbort, pyVars, brVars, JunkExplained, Writing, Races, Progress,
     Bodies, Big, PyDoc, BrDoc, PyBusy, BrBusy
<1>18. CASE BrEnd
  BY <1>t, <1>o, <1>18
     DEF BrEnd, pyVars, brVars, JunkExplained, Writing, Races, Progress, Bodies,
     Big, PyDoc, BrDoc, PyBusy, BrBusy
<1>19. CASE BrAbort
  BY <1>t, <1>o, <1>19
     DEF BrAbort, LeavesCut, pyVars, brVars, JunkExplained, Writing, Races,
     Progress, Bodies, Big, PyDoc, BrDoc, PyBusy, BrBusy
<1>20. CASE UNCHANGED vars
  BY <1>t, <1>o, <1>20
     DEF vars, pyVars, brVars, JunkExplained, Writing, Races, Progress, Bodies,
     Big, PyDoc, BrDoc, PyBusy, BrBusy
<1> QED
  BY <1>1, <1>2, <1>3, <1>4, <1>5, <1>6, <1>7, <1>8, <1>9, <1>10, <1>11, <1>12,
     <1>13, <1>14, <1>15, <1>16, <1>17, <1>18, <1>19, <1>20 DEF Next, PyStep, BrStep

\* The action of CompleteIsKept.
Kept == \A d \in Docs : file[d] = "pdf" /\ file'[d] # "pdf" => d \in raced

LEMMA KeptStep == TypeOK /\ Writing /\ Races /\ [Next]_vars => Kept
<1> SUFFICES ASSUME TypeOK, Writing, Races, [Next]_vars,
                    NEW e \in Docs, file[e] = "pdf", file'[e] # "pdf"
             PROVE  e \in raced
  BY DEF Kept
<1>t. /\ file \in [Docs -> Contents \cup {"none"}]
      /\ pyTodo \in SUBSET pyReq /\ pyReq \in SUBSET Docs
      /\ brTodo \in SUBSET brReq /\ brReq \in SUBSET Docs
      /\ linked \in {"yes", "no"} /\ pyBody \in Bodies \cup {"none"}
  BY DEF TypeOK
<1>o. /\ \A a, b : PyDoc(a) /\ PyDoc(b) => a = b
      /\ \A a, b : BrDoc(a) /\ BrDoc(b) => a = b
      /\ \A d : PyDoc(d) => d \in pyTodo /\ d \in Docs
      /\ \A d : BrDoc(d) => d \in brTodo /\ d \in Docs
  BY OneDocument
<1>1. ASSUME NEW S \in SUBSET Docs, NEW v \in BOOLEAN, PyStart(S, v) PROVE e \in raced
  BY <1>t, <1>o, <1>1
     DEF PyStart, pyVars, brVars, Writing, Races, Big, PyDoc, BrDoc, PyBusy,
     BrBusy
<1>2. ASSUME NEW S \in SUBSET Docs, BrStart(S) PROVE e \in raced
  BY <1>t, <1>o, <1>2
     DEF BrStart, pyVars, brVars, Writing, Races, Big, PyDoc, BrDoc, PyBusy,
     BrBusy
<1>3. ASSUME NEW d \in Docs, PySkip(d) PROVE e \in raced
  BY <1>t, <1>o, <1>3
     DEF PySkip, PyReturn, Present, pyVars, brVars, Writing, Races, Big, PyDoc,
     BrDoc, PyBusy, BrBusy
<1>4. ASSUME NEW d \in Docs, PyBegin(d) PROVE e \in raced
  BY <1>t, <1>o, <1>4
     DEF PyBegin, Present, pyVars, brVars, Writing, Races, Big, PyDoc, BrDoc,
     PyBusy, BrBusy
<1>5. ASSUME NEW d \in Docs, PyHead(d) PROVE e \in raced
  BY <1>t, <1>o, <1>5
     DEF PyHead, PyReturn, pyVars, brVars, Writing, Races, Big, PyDoc, BrDoc,
     PyBusy, BrBusy
<1>6. ASSUME NEW d \in Docs, PyFail(d) PROVE e \in raced
  BY <1>t, <1>o, <1>6
     DEF PyFail, PyReturn, pyVars, brVars, Writing, Races, Big, PyDoc, BrDoc,
     PyBusy, BrBusy
<1>7. ASSUME NEW d \in Docs, PyReceive(d) PROVE e \in raced
  BY <1>t, <1>o, <1>7
     DEF PyReceive, pyVars, brVars, Writing, Races, Big, PyDoc, BrDoc, PyBusy,
     BrBusy
<1>8. ASSUME NEW d \in Docs, PyReplace(d) PROVE e \in raced
  BY <1>t, <1>o, <1>8
     DEF PyReplace, PyReturn, pyVars, brVars, Writing, Races, Big, PyDoc, BrDoc,
     PyBusy, BrBusy
<1>9. ASSUME NEW d \in Docs, BrSkip(d) PROVE e \in raced
  BY <1>t, <1>o, <1>9
     DEF BrSkip, BrReturn, BigEnough, pyVars, brVars, Writing, Races, Big,
     PyDoc, BrDoc, PyBusy, BrBusy
<1>10. ASSUME NEW d \in Docs, BrBegin(d) PROVE e \in raced
  BY <1>t, <1>o, <1>10
     DEF BrBegin, BigEnough, pyVars, brVars, Writing, Races, Big, PyDoc, BrDoc,
     PyBusy, BrBusy
<1>11. ASSUME NEW d \in Docs, BrFail(d) PROVE e \in raced
  BY <1>t, <1>o, <1>11
     DEF BrFail, BrReturn, pyVars, brVars, Writing, Races, Big, PyDoc, BrDoc,
     PyBusy, BrBusy
<1>12. ASSUME NEW d \in Docs, BrFetch(d) PROVE e \in raced
  BY <1>t, <1>o, <1>12
     DEF BrFetch, pyVars, brVars, Writing, Races, Big, PyDoc, BrDoc, PyBusy,
     BrBusy
<1>13. ASSUME NEW d \in Docs, BrFill(d) PROVE e \in raced
  BY <1>t, <1>o, <1>13
     DEF BrFill, Fill, pyVars, brVars, Writing, Races, Big, PyDoc, BrDoc,
     PyBusy, BrBusy
<1>14. ASSUME NEW d \in Docs, BrWrite(d) PROVE e \in raced
  BY <1>t, <1>o, <1>14
     DEF BrWrite, BrReturn, Fill, pyVars, brVars, Writing, Races, Big, PyDoc,
     BrDoc, PyBusy, BrBusy
<1>15. ASSUME NEW d \in Docs, BrWriteFails(d) PROVE e \in raced
  BY <1>t, <1>o, <1>15
     DEF BrWriteFails, BrReturn, LeavesCut, pyVars, brVars, Writing, Races, Big,
     PyDoc, BrDoc, PyBusy, BrBusy
<1>16. CASE PyEnd
  BY <1>t, <1>o, <1>16
     DEF PyEnd, pyVars, brVars, Writing, Races, Big, PyDoc, BrDoc, PyBusy,
     BrBusy
<1>17. CASE PyAbort
  BY <1>t, <1>o, <1>17
     DEF PyAbort, pyVars, brVars, Writing, Races, Big, PyDoc, BrDoc, PyBusy,
     BrBusy
<1>18. CASE BrEnd
  BY <1>t, <1>o, <1>18
     DEF BrEnd, pyVars, brVars, Writing, Races, Big, PyDoc, BrDoc, PyBusy,
     BrBusy
<1>19. CASE BrAbort
  BY <1>t, <1>o, <1>19
     DEF BrAbort, LeavesCut, pyVars, brVars, Writing, Races, Big, PyDoc, BrDoc,
     PyBusy, BrBusy
<1>20. CASE UNCHANGED vars
  BY <1>t, <1>o, <1>20
     DEF vars, pyVars, brVars, Writing, Races, Big, PyDoc, BrDoc, PyBusy, BrBusy
<1> QED
  BY <1>1, <1>2, <1>3, <1>4, <1>5, <1>6, <1>7, <1>8, <1>9, <1>10, <1>11, <1>12,
     <1>13, <1>14, <1>15, <1>16, <1>17, <1>18, <1>19, <1>20 DEF Next, PyStep, BrStep

\* An exit status of 0 is read off the progress of the loop.
LEMMA ProgressSucceeds == TypeOK /\ JunkExplained /\ Progress => SuccessMeansPresent
BY DEF TypeOK, Progress, SuccessMeansPresent

LEMMA CInvStep == CInv /\ [Next]_vars => CInv'
BY TypeStep, JunkStep, WritingStep, RacesStep, ProgressStep DEF CInv

LEMMA CInvAlways == Spec => []CInv
BY CInvInit, CInvStep, PTL DEF Spec

-----------------------------------------------------------------------------
\* Every variable of the two programs has its type.
THEOREM CorpusFilesTypes == Spec => []TypeOK
<1>1. CInv => TypeOK
  BY DEF CInv
<1> QED BY CInvAlways, <1>1, PTL

\* What is under a final name and is no body a server sent is the trace of a
\* write of the browser (download_via_browser.mjs:144).
THEOREM OnlyTheBrowserLeavesJunk == Spec => []JunkExplained
<1>1. CInv => JunkExplained
  BY DEF CInv
<1> QED BY CInvAlways, <1>1, PTL

\* A success is not reported of a document that is missing
\* (download_corpus.py:185-204, download_via_browser.mjs:171-187).
THEOREM SuccessIsPresence == Spec => []SuccessMeansPresent
<1>1. CInv => SuccessMeansPresent
  BY ProgressSucceeds DEF CInv
<1> QED BY CInvAlways, <1>1, PTL

\* A complete PDF is lost to a race of the two programs only
\* (download_corpus.py:104-134, download_via_browser.mjs:84-144).
THEOREM OnlyRacesDamage == Spec => CompleteIsKept
<1>1. CInv /\ [Next]_vars => [Kept]_vars
  BY KeptStep DEF CInv
<1>2. CompleteIsKept <=> [][Kept]_vars
  BY DEF CompleteIsKept, Kept
<1> QED BY CInvAlways, <1>1, <1>2, PTL DEF Spec
=============================================================================
