------------------------------ MODULE CaseFile ------------------------------
(***************************************************************************)
(* Cases and their documents as the API serves them: cases.service.ts,     *)
(* documents.service.ts and their routes, policies and repositories.       *)
(*                                                                         *)
(* A request is cut at its awaits: each statement sees what is committed   *)
(* when it runs, while other requests are served and the worker treats the *)
(* documents.  The session (Sessions), an upload (DocumentUpload), a round *)
(* of the worker (DocumentScan, DocumentOcr) and a transaction whose rows  *)
(* become visible together are one step here.  A case has no transitions   *)
(* yet: it is a DRAFT for ever.                                            *)
(***************************************************************************)
EXTENDS Naturals, Sequences, FiniteSets

CONSTANTS
  Users,
  Admins,     \* the users that are ADMIN; the others are USER
  Cases,
  Docs,
  Requests,   \* requests that may be served at the same time
  MaxAsked,   \* bound: reprocessings asked for, per document
  MaxTexts,   \* bound: executions of the OCR, per document
  MaxShown,   \* bound: with this many lines answered, no request arrives
  None        \* no one, nothing

ASSUME CaseFileAssumption ==
  /\ Admins \subseteq Users
  /\ MaxAsked \in Nat /\ MaxTexts \in Nat /\ MaxShown \in Nat
  /\ None \notin Users \cup Cases \cup Docs

VARIABLES
  case,     \* the owner of each case, None while there is none
  doc,      \* of each document, its row and its executions of the OCR
  jobs,     \* how many reprocess jobs were sent for it, each with its event, by what is to be done again
  req,      \* the requests being served
  shown     \* what was answered: to whom, about which case and document

vars == <<case, doc, jobs, req, shown>>

-----------------------------------------------------------------------------
\* SCAN_FAILED of the treatment, FAILED of the OCR
Statuses    == {"PENDING_SCAN", "CLEAN", "INFECTED", "SCAN_FAILED"}
OcrStatuses == {"NOT_STARTED", "PENDING", "COMPLETED", "FAILED"}
Again       == {"scan", "ocr"}

Document == [case: Cases \cup {None}, image: BOOLEAN, status: Statuses, sanitized: BOOLEAN,
             ocr: OcrStatuses, results: Seq({"COMPLETED", "FAILED"})]
NoDoc == [case |-> None, image |-> FALSE, status |-> "PENDING_SCAN", sanitized |-> FALSE,
          ocr |-> "NOT_STARTED", results |-> <<>>]

\* The requests of a USER, those of them that name a case, and those of an ADMIN.
OwnerKinds == {"readCase", "listDocuments", "download", "readOcr"}
UserKinds  == {"createCase", "listCases"} \cup OwnerKinds
AdminKinds == {"reprocessScan", "reprocessOcr"}
Kinds      == UserKinds \cup AdminKinds

Request == [pc: {"idle", "first", "owning", "owned", "reading", "requesting"},
            kind: Kinds \cup {"none"}, user: Users \cup {None}, case: Cases \cup {None},
            doc: Docs \cup {None}]
NoRequest == [pc |-> "idle", kind |-> "none", user |-> None, case |-> None, doc |-> None]

\* One line of an answer: a case, a document's row, the URL of one of its objects, or the text
\* of its n-th execution.
Lines == [user: Users, what: {"listed", "case", "original", "sanitized", "text"}, case: Cases,
          doc: Docs \cup {None}, n: Nat]

Init ==
  /\ case = [c \in Cases |-> None]
  /\ doc = [d \in Docs |-> NoDoc]
  /\ jobs = [d \in Docs |-> [a \in Again |-> 0]]
  /\ req = [q \in Requests |-> NoRequest]
  /\ shown = {}

Done(q) == req' = [req EXCEPT ![q] = NoRequest]
Goto(q, pc) == req' = [req EXCEPT ![q].pc = pc]

-----------------------------------------------------------------------------
(***************************************************************************)
(* Around the requests                                                     *)
(***************************************************************************)

\* A user uploads an image or a PDF to a case of theirs.
Upload(d, c) ==
  /\ doc[d].case = None
  /\ case[c] # None
  /\ \E image \in BOOLEAN : doc' = [doc EXCEPT ![d].case = c, ![d].image = image]
  /\ UNCHANGED <<case, jobs, req, shown>>

\* A round of the treatment ends; with a CLEAN one the OCR, if it is on, is to begin.
Treat(d) ==
  /\ doc[d].case # None
  /\ doc[d].status = "PENDING_SCAN"
  /\ \/ \E ocr \in {"NOT_STARTED", "PENDING"} :
          doc' = [doc EXCEPT ![d].status = "CLEAN", ![d].sanitized = doc[d].image, ![d].ocr = ocr]
     \/ \E status \in {"INFECTED", "SCAN_FAILED"} : doc' = [doc EXCEPT ![d].status = status]
  /\ UNCHANGED <<case, jobs, req, shown>>

\* An execution of the OCR ends.
Recognise(d) ==
  /\ doc[d].ocr = "PENDING"
  /\ Len(doc[d].results) < MaxTexts
  /\ \E outcome \in {"COMPLETED", "FAILED"} :
       doc' = [doc EXCEPT ![d].ocr = outcome, ![d].results = Append(@, outcome)]
  /\ UNCHANGED <<case, jobs, req, shown>>

\* Mutant of OcrMayRestart: the state of the document is not looked at again.
OcrMayRestartAnyway(d) == doc[d].status = "CLEAN" /\ doc[d].ocr # "NOT_STARTED"

\* reprocessOcr() of the worker: on the locked row, only what is still FAILED.
OcrMayRestart(d) == doc[d].status = "CLEAN" /\ doc[d].ocr = "FAILED"

\* The worker takes up a reprocess job, which may come late and more than once.
Reprocess(d) ==
  /\ \/ /\ jobs[d]["scan"] > 0
        /\ doc[d].status = "SCAN_FAILED"
        /\ doc' = [doc EXCEPT ![d].status = "PENDING_SCAN"]
     \/ /\ jobs[d]["ocr"] > 0
        /\ OcrMayRestart(d)
        /\ doc' = [doc EXCEPT ![d].ocr = "PENDING"]
  /\ UNCHANGED <<case, jobs, req, shown>>

-----------------------------------------------------------------------------
(***************************************************************************)
(* The policies                                                            *)
(***************************************************************************)

\* can(): by the role; the owner is compared with the case that is loaded.
Can(u, kind) == kind \in (IF u \in Admins THEN AdminKinds ELSE UserKinds)

\* What the request names; the id of a new case is one that nobody else is creating.
Named(kind, c, d) ==
  CASE kind = "createCase" -> /\ d = None
                              /\ c \in Cases /\ case[c] = None
                              /\ \A q \in Requests : req[q].kind = "createCase" => req[q].case # c
    [] kind = "listCases"  -> c = None /\ d = None
    [] kind \in {"readCase", "listDocuments"} -> c \in Cases /\ d = None
    [] kind \in {"download", "readOcr"}       -> c \in Cases /\ d \in Docs
    [] OTHER -> c = None /\ d \in Docs

\* requireCurrentUser() and the policy; a denial answers 404.
Arrive(q, kind, u, c, d) ==
  /\ req[q].pc = "idle"
  /\ Cardinality(shown) < MaxShown
  /\ Can(u, kind)
  /\ Named(kind, c, d)
  /\ req' = [req EXCEPT ![q] =
               [NoRequest EXCEPT !.pc = IF kind \in OwnerKinds THEN "owning" ELSE "first",
                                 !.kind = kind, !.user = u, !.case = c, !.doc = d]]
  /\ UNCHANGED <<case, doc, jobs, shown>>

\* A statement or the COMMIT fails, or the process dies: the transaction leaves nothing.
Fail(q) ==
  /\ req[q].pc # "idle"
  /\ Done(q)
  /\ UNCHANGED <<case, doc, jobs, shown>>

Line(q, what, c, d, n) == [user |-> req[q].user, what |-> what, case |-> c, doc |-> d, n |-> n]

Answer(q, lines) ==
  /\ shown' = shown \cup lines
  /\ Done(q)

-----------------------------------------------------------------------------
(***************************************************************************)
(* POST /cases, GET /cases, /cases/:caseId and /cases/:caseId/documents    *)
(***************************************************************************)

\* createCase(): the case, its first history entry and its event.
CreateCase(q) ==
  /\ req[q].pc = "first"
  /\ req[q].kind = "createCase"
  /\ case' = [case EXCEPT ![req[q].case] = req[q].user]
  /\ Done(q)
  /\ UNCHANGED <<doc, jobs, shown>>

ListCases(q) ==
  /\ req[q].pc = "first"
  /\ req[q].kind = "listCases"
  /\ Answer(q, {Line(q, "listed", c, None, 0) : c \in {e \in Cases : case[e] = req[q].user}})
  /\ UNCHANGED <<case, doc, jobs>>

\* findOwnCase(): the caller's own case, or 404
OwnCase(q) ==
  /\ req[q].pc = "owning"
  /\ IF case[req[q].case] = req[q].user THEN Goto(q, "owned") ELSE Done(q)
  /\ UNCHANGED <<case, doc, jobs, shown>>

\* Its history comes with a statement of its own, by the case alone.
ReadHistory(q) ==
  /\ req[q].pc = "owned"
  /\ req[q].kind = "readCase"
  /\ Answer(q, {Line(q, "case", req[q].case, None, 0)})
  /\ UNCHANGED <<case, doc, jobs>>

\* Mutant of OwnDocument: by its id alone.
OwnDocumentById(d, c, u) == doc[d].case # None

\* findOwnDocument(): the id, the case and its owner
OwnDocument(d, c, u) == doc[d].case = c /\ case[c] = u

ListDocuments(q) ==
  /\ req[q].pc = "owned"
  /\ req[q].kind = "listDocuments"
  /\ Answer(q, {Line(q, "listed", req[q].case, d, 0) :
                  d \in {e \in Docs : OwnDocument(e, req[q].case, req[q].user)}})
  /\ UNCHANGED <<case, doc, jobs>>

-----------------------------------------------------------------------------
(***************************************************************************)
(* GET .../documents/:documentId/download and /ocr                         *)
(***************************************************************************)

\* downloadableKey(): what went through the treatment, if the document may be downloaded at all.
Downloadable(d) ==
  CASE doc[d].status # "CLEAN" -> {}
    [] doc[d].status = "CLEAN" /\ ~ doc[d].image -> {"original"}
    [] OTHER -> IF doc[d].sanitized THEN {"sanitized"} ELSE {}

\* The URL of its object is given out; 404 and 403 give nothing.
Download(q) ==
  LET d == req[q].doc IN
  /\ req[q].pc = "owned"
  /\ req[q].kind = "download"
  /\ Answer(q, {Line(q, object, req[q].case, d, 0) :
                  object \in IF OwnDocument(d, req[q].case, req[q].user) THEN Downloadable(d) ELSE {}})
  /\ UNCHANGED <<case, doc, jobs>>

\* findOwnDocumentOcr(), first statement: only a COMPLETED one is read on.
FindOcr(q) ==
  /\ req[q].pc = "owned"
  /\ req[q].kind = "readOcr"
  /\ IF OwnDocument(req[q].doc, req[q].case, req[q].user) /\ doc[req[q].doc].ocr = "COMPLETED"
     THEN Goto(q, "reading") ELSE Done(q)
  /\ UNCHANGED <<case, doc, jobs, shown>>

\* The latest COMPLETED execution of a document whose OCR is COMPLETED, 0 if there is none.
Current(d) ==
  LET completed == {i \in DOMAIN doc[d].results : doc[d].results[i] = "COMPLETED"} IN
  IF doc[d].ocr = "COMPLETED" /\ completed # {}
  THEN CHOOSE i \in completed : \A j \in completed : j <= i
  ELSE 0

\* Its second statement: the owner and the state are checked again, and the answer says COMPLETED.
ReadPages(q) ==
  LET d == req[q].doc IN
  /\ req[q].pc = "reading"
  /\ Answer(q, {Line(q, "text", req[q].case, d,
                     IF OwnDocument(d, req[q].case, req[q].user) THEN Current(d) ELSE 0)})
  /\ UNCHANGED <<case, doc, jobs>>

-----------------------------------------------------------------------------
(***************************************************************************)
(* POST /admin/documents/:documentId/reprocess and /ocr/reprocess          *)
(***************************************************************************)
AgainOf(kind) == IF kind = "reprocessScan" THEN "scan" ELSE "ocr"

\* findDocumentForAdministration(): only what failed
FindForAdministration(q) ==
  LET d == req[q].doc
      failed == IF req[q].kind = "reprocessScan" THEN doc[d].status = "SCAN_FAILED"
                ELSE doc[d].status = "CLEAN" /\ doc[d].ocr = "FAILED" IN
  /\ req[q].pc = "first"
  /\ req[q].kind \in AdminKinds
  /\ jobs[d][AgainOf(req[q].kind)] < MaxAsked
  /\ IF doc[d].case # None /\ failed THEN Goto(q, "requesting") ELSE Done(q)
  /\ UNCHANGED <<case, doc, jobs, shown>>

\* requestReprocess(), requestOcrReprocess(): the event and the job.
Enqueue(q) ==
  /\ req[q].pc = "requesting"
  /\ jobs' = [jobs EXCEPT ![req[q].doc][AgainOf(req[q].kind)] = @ + 1]
  /\ Done(q)
  /\ UNCHANGED <<case, doc, shown>>

-----------------------------------------------------------------------------
Serve(q) ==
  \/ CreateCase(q) \/ ListCases(q) \/ OwnCase(q) \/ ReadHistory(q) \/ ListDocuments(q)
  \/ Download(q) \/ FindOcr(q) \/ ReadPages(q)
  \/ FindForAdministration(q) \/ Enqueue(q) \/ Fail(q)

Next ==
  \/ \E d \in Docs : Treat(d) \/ Recognise(d) \/ Reprocess(d)
  \/ \E d \in Docs, c \in Cases : Upload(d, c)
  \/ \E q \in Requests :
       \/ \E kind \in Kinds, u \in Users, c \in Cases \cup {None}, d \in Docs \cup {None} :
            Arrive(q, kind, u, c, d)
       \/ Serve(q)

Spec == Init /\ [][Next]_vars

-----------------------------------------------------------------------------
TypeOK ==
  /\ case \in [Cases -> Users \cup {None}]
  /\ doc \in [Docs -> Document]
  /\ jobs \in [Docs -> [Again -> Nat]]
  /\ req \in [Requests -> Request]
  /\ shown \subseteq Lines

(***************************************************************************)
(* Whatever a request names, and whatever else goes on while it is served, *)
(* it is answered only with what belongs to who asked; and a URL, which    *)
(* outlives the request, only ever leads to an object that passed the      *)
(* treatment, for an image to its copy without metadata, whatever the      *)
(* worker does with the document later (ownCase(), findOwnDocument(),      *)
(* createDownloadUrl(), downloadableKey()).                                *)
(***************************************************************************)
OnlyOwnShown ==
  \A s \in shown :
    /\ case[s.case] = s.user
    /\ s.doc # None => doc[s.doc].case = s.case
    /\ s.what \in {"original", "sanitized"} =>
         /\ doc[s.doc].status = "CLEAN"
         /\ s.what = IF doc[s.doc].image THEN "sanitized" ELSE "original"

(***************************************************************************)
(* An answer that says COMPLETED carries a text, and it is and stays the   *)
(* text of the last execution: the state and the text are read by two      *)
(* statements, and the requests to do the OCR again, which may be taken up *)
(* much later than they were accepted, never touch a COMPLETED one         *)
(* (findOwnDocumentOcr(), requestOcrReprocess(), reprocessOcr()).          *)
(***************************************************************************)
CompletedHasText ==
  \A s \in shown : s.what = "text" =>
    /\ doc[s.doc].ocr = "COMPLETED"
    /\ s.n = Len(doc[s.doc].results)
    /\ s.n > 0

=============================================================================
