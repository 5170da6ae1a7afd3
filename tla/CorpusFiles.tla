---------------------------- MODULE CorpusFiles ----------------------------
(* data/pdfs and the two programs that fill it: scripts/download_corpus.py, *)
(* which asks with httpx, and scripts/download_via_browser.mjs, which drives*)
(* a browser.  An operator runs either, again and again and also at once;   *)
(* each walks manifest entries, skips what it takes to be present, fetches  *)
(* the rest, and may be interrupted anywhere.                               *)
(*                                                                          *)
(* The first writes to <doc_id>.pdf.tmp and renames; what an interrupted    *)
(* run leaves there nobody reads, and the next run overwrites it.  The      *)
(* second writes to <doc_id>.pdf itself.                                    *)
EXTENDS Naturals

CONSTANTS NumDocs,   \* entries of the manifest
          MaxAborts  \* bound: runs of the browser that are interrupted

ASSUME ConstantsAssumption == NumDocs \in Nat /\ MaxAborts \in Nat

\* Manifest entries are known by their position in the manifest.
Docs == 1 .. NumDocs

\* What a server answers with 200: a PDF of at least 60 KB, a page of that size
\* that is no PDF (a bot challenge, an error), or a smaller body, of which
\* neither program ever asks what it is.
Bodies == {"pdf", "bigpage", "small"}

\* What may be under a final name: a body, the first part of a PDF, or nothing.
Contents == Bodies \cup {"cut", "smallcut"}

\* Contents of at least MIN_PDF_BYTES.
Big == {"pdf", "bigpage", "cut"}

VARIABLES
    file,      \* file[d]: data/pdfs/<doc_id>.pdf
    pyAt,      \* where download_corpus.py is
    pyReq,     \* the entries of its command line
    pyTodo,    \* the entries its loop has not finished with
    pyBody,    \* what it has received into the .tmp file
    pyFailed,  \* is its list of failed entries empty?
    validate,  \* --validate
    brAt, brReq, brTodo, brFailed,  \* the same of download_via_browser.mjs
    linked,    \* is the file it writes to the one under the final name?
    cut,       \* history: the entries of which it was stopped while writing
    aborts,    \* how much of the bound is used up
    raced      \* history: the entries that both had found missing at a time

pyVars == <<pyAt, pyReq, pyTodo, pyBody, pyFailed, validate>>
brVars == <<brAt, brReq, brTodo, brFailed, linked>>
vars   == <<file, pyVars, brVars, cut, raced, aborts>>

PyBusy == {"fetch", "replace"}
BrBusy == {"fetch", "write"}

TypeOK ==
    /\ file \in [Docs -> Contents \cup {"none"}]
    /\ pyAt \in {"idle", "next", "ended"} \cup PyBusy
    /\ pyReq \in SUBSET Docs /\ pyTodo \in SUBSET pyReq
    /\ pyBody \in Bodies \cup {"none"}
    /\ validate \in BOOLEAN
    /\ brAt \in {"idle", "next", "ended"} \cup BrBusy
    /\ brReq \in SUBSET Docs /\ brTodo \in SUBSET brReq
    /\ pyFailed \in {"none", "some"} /\ brFailed \in {"none", "some"}
    /\ linked \in {"yes", "no"}
    /\ cut \in SUBSET Docs /\ raced \in SUBSET Docs /\ aborts \in Nat

Init ==
    /\ file = [d \in Docs |-> "none"]
    /\ pyAt = "idle" /\ pyReq = {} /\ pyTodo = {} /\ pyBody = "none"
    /\ pyFailed = "none" /\ validate = FALSE
    /\ brAt = "idle" /\ brReq = {} /\ brTodo = {} /\ brFailed = "none"
    /\ linked = "no"
    /\ cut = {} /\ raced = {} /\ aborts = 0

\* Both loops take the entries in manifest order.
First(S, d) == d \in S /\ \A e \in S : d <= e
PyDoc(d) == First(pyTodo, d)
BrDoc(d) == First(brTodo, d)

-----------------------------------------------------------------------------
(* download_corpus.py.                                                      *)

\* An unknown --doc ends the program before it begins.
PyStart(S, v) ==
    /\ pyAt \in {"idle", "ended"}
    /\ S # {}
    /\ pyReq' = S /\ pyTodo' = S
    /\ validate' = v /\ pyFailed' = "none" /\ pyBody' = "none"
    /\ pyAt' = "next"
    /\ UNCHANGED <<file, brVars, cut, raced, aborts>>

\* download_one has returned, and the loop goes on.
PyReturn(d, failed) ==
    /\ pyTodo' = pyTodo \ {d}
    /\ pyFailed' = failed
    /\ pyAt' = "next"
    /\ pyBody' = "none"
    /\ UNCHANGED <<pyReq, validate>>

\* out_path.exists().
Present(d) == file[d] # "none"

PySkip(d) ==
    /\ pyAt = "next" /\ PyDoc(d)
    /\ Present(d) /\ ~validate
    /\ PyReturn(d, pyFailed)
    /\ UNCHANGED <<file, brVars, cut, raced, aborts>>

PyBegin(d) ==
    /\ pyAt = "next" /\ PyDoc(d)
    /\ ~Present(d) \/ validate
    /\ pyAt' = "fetch"
    /\ raced' = IF ~validate /\ brAt \in BrBusy /\ BrDoc(d) THEN raced \cup {d} ELSE raced
    /\ UNCHANGED <<file, pyReq, pyTodo, pyBody, pyFailed, validate, brVars, cut, aborts>>

\* --validate asks for the header of the PDF and writes nothing.
PyHead(d) ==
    /\ pyAt = "fetch" /\ PyDoc(d)
    /\ validate
    /\ PyReturn(d, pyFailed)
    /\ UNCHANGED <<file, brVars, cut, raced, aborts>>

\* Mutant: the error is printed and counts as done.
MutPyFail(d) ==
    /\ pyAt = "fetch" /\ PyDoc(d)
    /\ PyReturn(d, pyFailed)
    /\ UNCHANGED <<file, brVars, cut, raced, aborts>>

\* _resolve_pdf_url finds no URL (an error, a challenge page, no link), or the
\* request for it fails.
PyFail(d) ==
    /\ pyAt = "fetch" /\ PyDoc(d)
    /\ PyReturn(d, "some")
    /\ UNCHANGED <<file, brVars, cut, raced, aborts>>

\* Mutant: the body is streamed to the final name.
MutPyReceive(d) ==
    /\ pyAt = "fetch" /\ PyDoc(d)
    /\ ~validate
    /\ pyBody' \in Bodies
    /\ pyAt' = "replace"
    /\ file' = [file EXCEPT ![d] = "smallcut"]
    /\ UNCHANGED <<pyReq, pyTodo, pyFailed, validate, brVars, cut, raced, aborts>>

\* A body has arrived in full in the .tmp file.  Nothing looks at it: a
\* challenge is known only on the page that was searched for a link.
PyReceive(d) ==
    /\ pyAt = "fetch" /\ PyDoc(d)
    /\ ~validate
    /\ pyBody' \in Bodies
    /\ pyAt' = "replace"
    /\ UNCHANGED <<file, pyReq, pyTodo, pyFailed, validate, brVars, cut, raced, aborts>>

\* tmp.replace: a file that the browser has open loses its name.
PyReplace(d) ==
    /\ pyAt = "replace" /\ PyDoc(d)
    /\ file' = [file EXCEPT ![d] = pyBody]
    /\ linked' = IF BrDoc(d) THEN "no" ELSE linked
    /\ PyReturn(d, pyFailed)
    /\ UNCHANGED <<brAt, brReq, brTodo, brFailed, cut, raced, aborts>>

PyEnd ==
    /\ pyAt = "next" /\ pyTodo = {}
    /\ pyAt' = "ended"
    /\ UNCHANGED <<file, pyReq, pyTodo, pyBody, pyFailed, validate, brVars, cut, raced, aborts>>

\* An exception that is no RequestError, or the operator, ends the program.
PyAbort ==
    /\ pyAt \notin {"idle", "ended"}
    /\ pyAt' = "idle" /\ pyReq' = {} /\ pyTodo' = {} /\ pyBody' = "none"
    /\ pyFailed' = "none" /\ validate' = FALSE
    /\ UNCHANGED <<file, brVars, cut, raced, aborts>>

-----------------------------------------------------------------------------
(* download_via_browser.mjs.                                                *)

\* An unknown --doc is dropped; a run without entries succeeds.
BrStart(S) ==
    /\ brAt \in {"idle", "ended"}
    /\ brReq' = S /\ brTodo' = S
    /\ brFailed' = "none" /\ linked' = "no"
    /\ brAt' = "next"
    /\ UNCHANGED <<file, pyVars, cut, raced, aborts>>

BrReturn(d, failed) ==
    /\ brTodo' = brTodo \ {d}
    /\ brFailed' = failed
    /\ brAt' = "next"
    /\ linked' = "no"
    /\ UNCHANGED brReq

\* Mutant: the comparison is the wrong way round.
MutBigEnough(d) == file[d] \in {"small", "smallcut"}

\* fileSize(outPath) >= MIN_PDF_BYTES.
BigEnough(d) == file[d] \in Big

BrSkip(d) ==
    /\ brAt = "next" /\ BrDoc(d)
    /\ BigEnough(d)
    /\ BrReturn(d, brFailed)
    /\ UNCHANGED <<file, pyVars, cut, raced, aborts>>

BrBegin(d) ==
    /\ brAt = "next" /\ BrDoc(d)
    /\ ~BigEnough(d)
    /\ brAt' = "fetch"
    /\ raced' = IF ~validate /\ pyAt \in PyBusy /\ PyDoc(d) THEN raced \cup {d} ELSE raced
    /\ UNCHANGED <<file, pyVars, brReq, brTodo, brFailed, linked, cut, aborts>>

\* A timeout, no link, an error status, or a body that is no PDF or too small.
BrFail(d) ==
    /\ brAt = "fetch" /\ BrDoc(d)
    /\ BrReturn(d, "some")
    /\ UNCHANGED <<file, pyVars, cut, raced, aborts>>

\* Mutant: the file is created, and must not be there.
MutBrFetch(d) ==
    /\ brAt = "fetch" /\ BrDoc(d)
    /\ file[d] = "none"
    /\ file' = [file EXCEPT ![d] = "smallcut"]
    /\ linked' = "yes"
    /\ brAt' = "write"
    /\ UNCHANGED <<pyVars, brReq, brTodo, brFailed, cut, raced, aborts>>

\* A PDF of at least the minimum is in memory, and writeFile empties the file.
BrFetch(d) ==
    /\ brAt = "fetch" /\ BrDoc(d)
    /\ file' = [file EXCEPT ![d] = "smallcut"]
    /\ linked' = "yes"
    /\ brAt' = "write"
    /\ UNCHANGED <<pyVars, brReq, brTodo, brFailed, cut, raced, aborts>>

\* What writeFile does shows only while its file has its name.
Fill(d, content) == file' = IF linked = "yes" THEN [file EXCEPT ![d] = content] ELSE file

BrFill(d) ==
    /\ brAt = "write" /\ BrDoc(d)
    /\ Fill(d, "cut")
    /\ UNCHANGED <<pyVars, brVars, cut, raced, aborts>>

BrWrite(d) ==
    /\ brAt = "write" /\ BrDoc(d)
    /\ Fill(d, "pdf")
    /\ BrReturn(d, brFailed)
    /\ UNCHANGED <<pyVars, cut, raced, aborts>>

\* The file that is open now stays as it is.
LeavesCut == IF brAt = "write" /\ linked = "yes" THEN {d \in Docs : BrDoc(d)} ELSE {}

\* writeFile rejects, and the catch returns false.
BrWriteFails(d) ==
    /\ brAt = "write" /\ BrDoc(d)
    /\ cut' = cut \cup LeavesCut
    /\ BrReturn(d, "some")
    /\ UNCHANGED <<file, pyVars, raced, aborts>>

BrEnd ==
    /\ brAt = "next" /\ brTodo = {}
    /\ brAt' = "ended"
    /\ UNCHANGED <<file, pyVars, brReq, brTodo, brFailed, linked, cut, raced, aborts>>

BrAbort ==
    /\ brAt \notin {"idle", "ended"}
    /\ aborts < MaxAborts /\ aborts' = aborts + 1
    /\ cut' = cut \cup LeavesCut
    /\ brAt' = "idle" /\ brReq' = {} /\ brTodo' = {} /\ linked' = "no"
    /\ brFailed' = "none"
    /\ UNCHANGED <<file, pyVars, raced>>

PyStep(d) ==
    \/ PySkip(d) \/ PyBegin(d) \/ PyHead(d)
    \/ PyFail(d) \/ PyReceive(d) \/ PyReplace(d)

BrStep(d) ==
    \/ BrSkip(d) \/ BrBegin(d) \/ BrFail(d) \/ BrFetch(d)
    \/ BrFill(d) \/ BrWrite(d) \/ BrWriteFails(d)

Next ==
    \/ \E S \in SUBSET Docs, v \in BOOLEAN : PyStart(S, v)
    \/ \E S \in SUBSET Docs : BrStart(S)
    \/ \E d \in Docs : PyStep(d) \/ BrStep(d)
    \/ PyEnd \/ PyAbort \/ BrEnd \/ BrAbort

Spec == Init /\ [][Next]_vars

\* The operator runs the browser for the whole manifest again and again, a run
\* that is not interrupted goes on to its end, and a document that is asked for
\* again and again is served, and written, at last.
FairSpec ==
    /\ Spec
    /\ SF_vars(BrStart(Docs))
    /\ WF_vars(BrEnd)
    /\ \A d \in Docs : /\ WF_vars(BrStep(d))
                       /\ SF_vars(BrFetch(d)) /\ SF_vars(BrWrite(d))

-----------------------------------------------------------------------------
(* Properties.                                                              *)

\* Whatever is under a final name and is no PDF of 60 KB is what a server gave
\* download_corpus.py, or the trace of a write of the browser that is going on
\* or was stopped (download_corpus.py:125-136, download_via_browser.mjs:144).
\* In particular no interruption of download_corpus.py shows.
JunkExplained ==
    \A d \in Docs :
        file[d] \in {"cut", "smallcut"} =>
            d \in cut \/ (brAt = "write" /\ BrDoc(d) /\ linked = "yes")

\* A PDF that is complete is never touched again, by reruns, repairs or the
\* other program, except when both were at work on that document at a time:
\* then the check of one of them was stale (download_corpus.py:104-134,
\* download_via_browser.mjs:84-144).
CompleteIsKept ==
    [][\A d \in Docs : file[d] = "pdf" /\ file'[d] # "pdf" => d \in raced]_vars

\* An exit status of 0 is not given for a document that is not there, nor by
\* the browser for one below its minimum: what is only part of one was cut off
\* in another run (download_corpus.py:185-204, download_via_browser.mjs:171-187).
SuccessMeansPresent ==
    /\ pyAt = "ended" /\ pyFailed = "none" /\ ~validate =>
           \A d \in pyReq : file[d] # "none"
    /\ brAt = "ended" /\ brFailed = "none" =>
           \A d \in brReq \ raced : file[d] = "pdf" \/ file[d] = "bigpage" \/ d \in cut

\* If the browser is run until it is done, no document stays missing, nor an
\* error page that download_corpus.py saved: in the end all are such as both
\* programs take for complete, for good (README.md:243-250).
EndsComplete == \A d \in Docs : <>[](file[d] \in Big)
=============================================================================
