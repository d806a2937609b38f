--------------------------- MODULE CaseFileProofs ---------------------------
(***************************************************************************)
(* Type correctness of CaseFile, and its two invariants, for any users,    *)
(* cases, documents and concurrent requests.                               *)
(*                                                                         *)
(* What was answered stays true because what it speaks of never changes    *)
(* again (Settled); what is answered is true because a request on its way  *)
(* has seen nothing else (ReqOK).                                          *)
(***************************************************************************)
EXTENDS CaseFile, TLAPS

(***************************************************************************)
(* Types                                                                   *)
(***************************************************************************)
LEMMA NoRequestType == NoRequest \in Request
BY DEF NoRequest, Request

LEMMA InitTypes == Init => TypeOK
<1>1. NoDoc \in Document
  BY DEF NoDoc, Document, Statuses, OcrStatuses
<1> QED
  BY <1>1, NoRequestType DEF Init, TypeOK

\* The documents, whatever the worker and the uploads do.
LEMMA DocTypes ==
  ASSUME TypeOK, NEW d \in Docs,
         Treat(d) \/ Recognise(d) \/ Reprocess(d) \/ \E c \in Cases : Upload(d, c)
  PROVE  doc' \in [Docs -> Document]
<1>1. doc[d] \in Document
  BY DEF TypeOK
<1>2. CASE Treat(d)
  <2>1. ASSUME NEW ocr \in {"NOT_STARTED", "PENDING"},
               doc' = [doc EXCEPT ![d].status = "CLEAN", ![d].sanitized = doc[d].image, ![d].ocr = ocr]
        PROVE  doc' \in [Docs -> Document]
    <3>1. [doc[d] EXCEPT !.status = "CLEAN", !.sanitized = doc[d].image, !.ocr = ocr] \in Document
      BY <1>1 DEF Document, Statuses, OcrStatuses
    <3> QED
      BY <2>1, <3>1 DEF TypeOK
  <2>2. ASSUME NEW status \in {"INFECTED", "SCAN_FAILED"}, doc' = [doc EXCEPT ![d].status = status]
        PROVE  doc' \in [Docs -> Document]
    <3>1. [doc[d] EXCEPT !.status = status] \in Document
      BY <1>1 DEF Document, Statuses
    <3> QED
      BY <2>2, <3>1 DEF TypeOK
  <2> QED
    BY <1>2, <2>1, <2>2 DEF Treat
<1>3. CASE Recognise(d)
  <2>1. PICK outcome \in {"COMPLETED", "FAILED"} :
          doc' = [doc EXCEPT ![d].ocr = outcome, ![d].results = Append(@, outcome)]
    BY <1>3 DEF Recognise
  <2>2. Append(doc[d].results, outcome) \in Seq({"COMPLETED", "FAILED"})
    BY <1>1 DEF Document
  <2>3. [doc[d] EXCEPT !.ocr = outcome, !.results = Append(doc[d].results, outcome)] \in Document
    BY <1>1, <2>2 DEF Document, OcrStatuses
  <2> QED
    BY <2>1, <2>3 DEF TypeOK
<1>4. CASE Reprocess(d)
  <2>1. [doc[d] EXCEPT !.status = "PENDING_SCAN"] \in Document /\ [doc[d] EXCEPT !.ocr = "PENDING"] \in Document
    BY <1>1 DEF Document, Statuses, OcrStatuses
  <2> QED
    BY <1>4, <2>1 DEF Reprocess, TypeOK
<1>5. CASE \E c \in Cases : Upload(d, c)
  <2>1. PICK c \in Cases, image \in BOOLEAN : doc' = [doc EXCEPT ![d].case = c, ![d].image = image]
    BY <1>5 DEF Upload
  <2>2. [doc[d] EXCEPT !.case = c, !.image = image] \in Document
    BY <1>1 DEF Document
  <2> QED
    BY <2>1, <2>2 DEF TypeOK
<1> QED
  BY <1>2, <1>3, <1>4, <1>5

(***************************************************************************)
(* The invariant                                                           *)
(***************************************************************************)
\* A request on its way: what it is about is there, and what it has checked still holds.
ReqOK(q) ==
  LET r == req[q] IN
  /\ r.pc # "idle" => r.user \in Users
  /\ r.pc = "first" => r.kind \in {"createCase", "listCases"} \cup AdminKinds
  /\ r.pc \in {"owning", "owned"} => r.kind \in OwnerKinds /\ r.case \in Cases
  /\ r.pc = "reading" => r.kind = "readOcr" /\ r.case \in Cases
  /\ r.pc = "requesting" => r.kind \in AdminKinds
  /\ r.kind \in {"download", "readOcr"} \cup AdminKinds => r.doc \in Docs
  /\ r.pc \in {"owned", "reading"} => case[r.case] = r.user
  /\ r.pc = "reading" => doc[r.doc].case = r.case /\ doc[r.doc].ocr = "COMPLETED"
  /\ r.kind = "createCase" => /\ r.case \in Cases
                              /\ case[r.case] = None

\* Two requests never create the same case.
NewCasesDiffer ==
  \A p, q \in Requests :
    p # q /\ req[p].kind = "createCase" /\ req[q].kind = "createCase" => req[p].case # req[q].case

DocOK(d) ==
  /\ doc[d].ocr # "NOT_STARTED" => doc[d].status = "CLEAN"
  /\ doc[d].ocr = "COMPLETED" => /\ Len(doc[d].results) > 0
                                 /\ doc[d].results[Len(doc[d].results)] = "COMPLETED"

\* A line about an object or a text names its document.
LineNamed(s) == s.what \in {"original", "sanitized", "text"} => s.doc \in Docs

IInv ==
  /\ TypeOK
  /\ \A q \in Requests : ReqOK(q)
  /\ NewCasesDiffer
  /\ \A d \in Docs : DocOK(d)
  /\ \A s \in shown : LineNamed(s)
  /\ OnlyOwnShown
  /\ CompletedHasText

\* What one line of an answer promises.
LineOK(s) ==
  /\ LineNamed(s)
  /\ case[s.case] = s.user
  /\ s.doc # None => doc[s.doc].case = s.case
  /\ s.what \in {"original", "sanitized"} =>
       /\ doc[s.doc].status = "CLEAN"
       /\ s.what = IF doc[s.doc].image THEN "sanitized" ELSE "original"
  /\ s.what = "text" => /\ doc[s.doc].ocr = "COMPLETED"
                        /\ s.n = Len(doc[s.doc].results)
                        /\ s.n > 0

\* What never changes again.
Settled ==
  /\ \A c \in Cases : case[c] # None => case'[c] = case[c]
  /\ \A d \in Docs : doc[d].case # None => doc'[d].case = doc[d].case /\ doc'[d].image = doc[d].image
  /\ \A d \in Docs : doc[d].status = "CLEAN" => doc'[d].status = "CLEAN"
  /\ \A d \in Docs : doc[d].ocr = "COMPLETED"
                       => doc'[d].ocr = "COMPLETED" /\ doc'[d].results = doc[d].results

LEMMA InitIInv == Init => IInv
<1> SUFFICES ASSUME Init PROVE IInv
  OBVIOUS
<1>1. TypeOK
  BY InitTypes
<1>2. \A q \in Requests : ReqOK(q)
  BY DEF Init, ReqOK, NoRequest, OwnerKinds, AdminKinds
<1>3. NewCasesDiffer
  BY DEF Init, NewCasesDiffer, NoRequest
<1>4. \A d \in Docs : DocOK(d)
  BY DEF Init, DocOK, NoDoc
<1>5. OnlyOwnShown /\ CompletedHasText /\ \A s \in shown : LineNamed(s)
  BY DEF Init, OnlyOwnShown, CompletedHasText
<1> QED
  BY <1>1, <1>2, <1>3, <1>4, <1>5 DEF IInv

(***************************************************************************)
(* Steps of the worker and of an upload                                    *)
(***************************************************************************)
LEMMA DocSettled ==
  ASSUME IInv, NEW d \in Docs,
         Treat(d) \/ Recognise(d) \/ Reprocess(d) \/ \E c \in Cases : Upload(d, c)
  PROVE  Settled /\ \A e \in Docs : DocOK(e)'
<1>1. doc[d] \in Document /\ doc \in [Docs -> Document] /\ DocOK(d) /\ \A e \in Docs : DocOK(e)
  BY DEF IInv, TypeOK
<1>2. case' = case
  BY DEF Treat, Recognise, Reprocess, Upload
<1>3. \A e \in Docs \ {d} : doc'[e] = doc[e]
  BY <1>1 DEF Treat, Recognise, Reprocess, Upload
<1> DEFINE Kept == /\ doc[d].case # None => doc'[d].case = doc[d].case /\ doc'[d].image = doc[d].image
                   /\ doc[d].status = "CLEAN" => doc'[d].status = "CLEAN"
                   /\ doc[d].ocr = "COMPLETED" => doc'[d].ocr = "COMPLETED" /\ doc'[d].results = doc[d].results
<1>4. Kept /\ DocOK(d)'
  <2>1. CASE Treat(d)
    <3>1. ASSUME NEW ocr \in {"NOT_STARTED", "PENDING"},
                 doc' = [doc EXCEPT ![d].status = "CLEAN", ![d].sanitized = doc[d].image, ![d].ocr = ocr]
          PROVE  Kept /\ DocOK(d)'
      <4>1. doc'[d] = [doc[d] EXCEPT !.status = "CLEAN", !.sanitized = doc[d].image, !.ocr = ocr]
        BY <1>1, <3>1
      <4> QED
        BY <1>1, <2>1, <4>1 DEF Treat, Document, DocOK
    <3>2. ASSUME NEW status \in {"INFECTED", "SCAN_FAILED"}, doc' = [doc EXCEPT ![d].status = status]
          PROVE  Kept /\ DocOK(d)'
      <4>1. doc'[d] = [doc[d] EXCEPT !.status = status]
        BY <1>1, <3>2
      <4> QED
        BY <1>1, <2>1, <4>1 DEF Treat, Document, DocOK
    <3> QED
      BY <2>1, <3>1, <3>2 DEF Treat
  <2>2. CASE Recognise(d)
    <3>1. PICK outcome \in {"COMPLETED", "FAILED"} :
            doc' = [doc EXCEPT ![d].ocr = outcome, ![d].results = Append(@, outcome)]
      BY <2>2 DEF Recognise
    <3>2. doc'[d] = [doc[d] EXCEPT !.ocr = outcome, !.results = Append(doc[d].results, outcome)]
      BY <1>1, <3>1
    <3>3. doc[d].results \in Seq({"COMPLETED", "FAILED"})
      BY <1>1 DEF Document
    <3>4. /\ Len(Append(doc[d].results, outcome)) = Len(doc[d].results) + 1
          /\ Len(doc[d].results) \in Nat
          /\ Append(doc[d].results, outcome)[Len(doc[d].results) + 1] = outcome
      BY <3>3
    <3>5. /\ doc'[d].ocr = outcome /\ doc'[d].results = Append(doc[d].results, outcome)
          /\ doc'[d].status = doc[d].status /\ doc'[d].case = doc[d].case /\ doc'[d].image = doc[d].image
      BY <1>1, <3>2 DEF Document
    <3>6. DocOK(d)'
      BY <1>1, <2>2, <3>4, <3>5 DEF Recognise, DocOK
    <3>7. Kept
      BY <2>2, <3>5 DEF Recognise
    <3> QED
      BY <3>6, <3>7
  <2>3. CASE Reprocess(d)
    <3>1. ASSUME doc[d].status = "SCAN_FAILED", doc' = [doc EXCEPT ![d].status = "PENDING_SCAN"]
          PROVE  Kept /\ DocOK(d)'
      <4>1. doc'[d] = [doc[d] EXCEPT !.status = "PENDING_SCAN"]
        BY <1>1, <3>1
      <4> QED
        BY <1>1, <3>1, <4>1 DEF Document, DocOK
    <3>2. ASSUME OcrMayRestart(d), doc' = [doc EXCEPT ![d].ocr = "PENDING"]
          PROVE  Kept /\ DocOK(d)'
      <4>1. doc'[d] = [doc[d] EXCEPT !.ocr = "PENDING"]
        BY <1>1, <3>2
      <4> QED
        BY <1>1, <3>2, <4>1 DEF OcrMayRestart, Document, DocOK
    <3> QED
      BY <2>3, <3>1, <3>2 DEF Reprocess
  <2>4. CASE \E c \in Cases : Upload(d, c)
    <3>1. PICK c \in Cases, image \in BOOLEAN :
            doc[d].case = None /\ doc' = [doc EXCEPT ![d].case = c, ![d].image = image]
      BY <2>4 DEF Upload
    <3>2. doc'[d] = [doc[d] EXCEPT !.case = c, !.image = image]
      BY <1>1, <3>1
    <3> QED
      BY <1>1, <3>1, <3>2 DEF Document, DocOK
  <2> QED
    BY <2>1, <2>2, <2>3, <2>4
<1> HIDE DEF Kept
<1>5. \A e \in Docs : DocOK(e)'
  BY <1>1, <1>3, <1>4 DEF DocOK
<1>6. Settled
  BY <1>2, <1>3, <1>4 DEF Settled, Kept
<1> QED
  BY <1>5, <1>6

(***************************************************************************)
(* What was answered, and the requests that do not move                    *)
(***************************************************************************)
LEMMA LinesAreTheInvariants ==
  (\A s \in shown : LineOK(s)) <=> OnlyOwnShown /\ CompletedHasText /\ \A s \in shown : LineNamed(s)
BY DEF LineOK, OnlyOwnShown, CompletedHasText

LEMMA ShownStays ==
  ASSUME IInv, Settled, NEW s \in shown
  PROVE  LineOK(s)'
<1>1. LineOK(s) /\ s \in Lines
  BY LinesAreTheInvariants DEF IInv, TypeOK
<1>2. case'[s.case] = s.user
  BY <1>1, CaseFileAssumption DEF LineOK, Lines, Settled
<1>3. s.case \in Cases /\ s.case # None /\ s.doc \in Docs \cup {None} /\ None \notin Docs
  BY <1>1, CaseFileAssumption DEF Lines
<1>4. ASSUME s.doc # None
      PROVE  doc'[s.doc].case = s.case /\ doc'[s.doc].image = doc[s.doc].image
  BY <1>1, <1>3, <1>4 DEF LineOK, Settled
<1>5. ASSUME s.what \in {"original", "sanitized"}
      PROVE  /\ doc'[s.doc].status = "CLEAN"
             /\ s.what = IF doc'[s.doc].image THEN "sanitized" ELSE "original"
  <2>1. s.doc \in Docs
    BY <1>1, <1>5 DEF LineOK, LineNamed
  <2> QED
    BY <1>1, <1>3, <1>4, <1>5, <2>1 DEF LineOK, Settled
<1>6. ASSUME s.what = "text"
      PROVE  doc'[s.doc].ocr = "COMPLETED" /\ s.n = Len(doc'[s.doc].results) /\ s.n > 0
  <2>1. s.doc \in Docs
    BY <1>1, <1>6 DEF LineOK, LineNamed
  <2> QED
    BY <1>1, <1>6, <2>1 DEF LineOK, Settled
<1> QED
  BY <1>1, <1>2, <1>4, <1>5, <1>6 DEF LineOK, LineNamed

LEMMA ReqStays ==
  ASSUME IInv, Settled, NEW p \in Requests, req'[p] = req[p],
         req[p].kind = "createCase" => case'[req[p].case] = None
  PROVE  ReqOK(p)'
<1>1. ReqOK(p) /\ req[p] \in Request /\ None \notin Users \cup Cases \cup Docs
  BY CaseFileAssumption DEF IInv, TypeOK
<1>2. ASSUME req[p].pc \in {"owned", "reading"} PROVE case'[req[p].case] = req[p].user
  BY <1>1, <1>2 DEF ReqOK, Settled
<1>3. ASSUME req[p].pc = "reading"
      PROVE  doc'[req[p].doc].case = req[p].case /\ doc'[req[p].doc].ocr = "COMPLETED"
  BY <1>1, <1>3 DEF ReqOK, Settled
<1> QED
  BY <1>1, <1>2, <1>3 DEF ReqOK

LEMMA IdleReqOK ==
  ASSUME NEW q \in Requests, req'[q] = NoRequest
  PROVE  ReqOK(q)'
BY DEF ReqOK, NoRequest, OwnerKinds, AdminKinds

\* One request moves, and may be answered.
LEMMA Moved ==
  ASSUME IInv, Settled, NEW q \in Requests,
         case' \in [Cases -> Users \cup {None}], UNCHANGED doc, jobs' \in [Docs -> [Again -> Nat]],
         req' \in [Requests -> Request],
         \A p \in Requests \ {q} :
           req'[p] = req[p] /\ (req[p].kind = "createCase" => case'[req[p].case] = None),
         ReqOK(q)', NewCasesDiffer',
         \A s \in shown' : s \in shown \/ (s \in Lines /\ LineOK(s)')
  PROVE  IInv'
<1>1. TypeOK'
  BY DEF IInv, TypeOK
<1>2. \A p \in Requests : ReqOK(p)'
  BY ReqStays
<1>3. \A d \in Docs : DocOK(d)'
  BY DEF IInv, DocOK
<1>4. \A s \in shown' : LineOK(s)'
  BY ShownStays
<1>5. (OnlyOwnShown /\ CompletedHasText /\ \A s \in shown : LineNamed(s))'
  BY <1>4 DEF LineOK, OnlyOwnShown, CompletedHasText
<1> QED
  BY <1>1, <1>2, <1>3, <1>5 DEF IInv

\* It changes no case and no document.
LEMMA MovedQuietly ==
  ASSUME IInv, NEW q \in Requests,
         UNCHANGED <<case, doc>>, jobs' \in [Docs -> [Again -> Nat]],
         req' \in [Requests -> Request], \A p \in Requests \ {q} : req'[p] = req[p],
         ReqOK(q)', NewCasesDiffer',
         \A s \in shown' : s \in shown \/ (s \in Lines /\ LineOK(s)')
  PROVE  IInv'
<1>1. Settled
  BY DEF Settled
<1>2. \A p \in Requests \ {q} : req[p].kind = "createCase" => case'[req[p].case] = None
  BY DEF IInv, ReqOK
<1>3. case' \in [Cases -> Users \cup {None}]
  BY DEF IInv, TypeOK
<1> QED
  BY <1>1, <1>2, <1>3, Moved

\* It ends.
LEMMA Ended ==
  ASSUME IInv, NEW q \in Requests, Done(q)
  PROVE  /\ req' \in [Requests -> Request]
         /\ \A p \in Requests \ {q} : req'[p] = req[p]
         /\ ReqOK(q)'
         /\ NewCasesDiffer'
<1>1. req' = [req EXCEPT ![q] = NoRequest] /\ req \in [Requests -> Request]
  BY DEF Done, IInv, TypeOK
<1>2. req'[q] = NoRequest
  BY <1>1
<1>3. NoRequest.kind # "createCase"
  BY DEF NoRequest
<1>4. NewCasesDiffer'
  BY <1>1, <1>3 DEF IInv, NewCasesDiffer
<1> QED
  BY <1>1, <1>2, <1>4, IdleReqOK, NoRequestType

\* It goes on with the same case and document, one more thing checked.
LEMMA GoesOn ==
  ASSUME IInv, NEW q \in Requests, NEW pc \in {"owned", "reading", "requesting"}, Goto(q, pc),
         UNCHANGED <<case, doc>>,
         req[q].pc # "idle", req[q].kind # "createCase",
         pc = "owned" => req[q].kind \in OwnerKinds /\ req[q].case \in Cases,
         pc = "reading" => /\ req[q].kind = "readOcr" /\ req[q].case \in Cases
                           /\ doc[req[q].doc].case = req[q].case
                           /\ doc[req[q].doc].ocr = "COMPLETED",
         pc \in {"owned", "reading"} => case[req[q].case] = req[q].user,
         pc = "requesting" => req[q].kind \in AdminKinds
  PROVE  /\ req' \in [Requests -> Request]
         /\ \A p \in Requests \ {q} : req'[p] = req[p]
         /\ ReqOK(q)'
         /\ NewCasesDiffer'
<1>1. req' = [req EXCEPT ![q].pc = pc] /\ req \in [Requests -> Request] /\ req[q] \in Request
  BY DEF Goto, IInv, TypeOK
<1>2. req'[q] = [req[q] EXCEPT !.pc = pc]
  BY <1>1
<1>3. /\ req'[q].pc = pc /\ req'[q].kind = req[q].kind /\ req'[q].user = req[q].user
      /\ req'[q].case = req[q].case /\ req'[q].doc = req[q].doc
  BY <1>1, <1>2 DEF Request
<1>4. [req[q] EXCEPT !.pc = pc] \in Request
  BY <1>1 DEF Request
<1>5. ReqOK(q)'
  BY <1>3 DEF IInv, ReqOK
<1>6. NewCasesDiffer'
  BY <1>1, <1>3 DEF IInv, NewCasesDiffer
<1> QED
  BY <1>1, <1>4, <1>5, <1>6

(***************************************************************************)
(* The steps of a request                                                  *)
(***************************************************************************)
LEMMA ArriveIInv ==
  ASSUME IInv, NEW q \in Requests, NEW kind \in Kinds, NEW u \in Users,
         NEW c \in Cases \cup {None}, NEW d \in Docs \cup {None}, Arrive(q, kind, u, c, d)
  PROVE  IInv'
<1> DEFINE pc == IF kind \in OwnerKinds THEN "owning" ELSE "first"
<1>1. req \in [Requests -> Request] /\ None \notin Users \cup Cases \cup Docs
  BY CaseFileAssumption DEF IInv, TypeOK
<1>2. /\ req' = [req EXCEPT ![q] = [NoRequest EXCEPT !.pc = pc, !.kind = kind, !.user = u,
                                                      !.case = c, !.doc = d]]
      /\ pc \in {"owning", "first"}
  BY DEF Arrive
<1>3. /\ req'[q].pc = pc /\ req'[q].kind = kind /\ req'[q].user = u
      /\ req'[q].case = c /\ req'[q].doc = d
  BY <1>1, <1>2 DEF NoRequest
<1>4. [NoRequest EXCEPT !.pc = pc, !.kind = kind, !.user = u, !.case = c, !.doc = d] \in Request
  BY <1>2, NoRequestType DEF Request
<1>5. Named(kind, c, d) /\ UNCHANGED <<case, doc, jobs, shown>>
  BY DEF Arrive
<1>6. /\ kind \in OwnerKinds => c \in Cases
      /\ kind \in {"download", "readOcr"} \cup AdminKinds => d \in Docs
      /\ kind = "createCase" => /\ c \in Cases /\ case[c] = None
                                /\ \A p \in Requests : req[p].kind = "createCase" => req[p].case # c
  BY <1>5 DEF Named, OwnerKinds, AdminKinds, UserKinds, Kinds
<1>7. ReqOK(q)'
  BY <1>3, <1>5, <1>6 DEF ReqOK, OwnerKinds, AdminKinds, UserKinds, Kinds
<1>8. NewCasesDiffer'
  BY <1>1, <1>2, <1>3, <1>6 DEF IInv, NewCasesDiffer
<1> HIDE DEF pc
<1>9. req' \in [Requests -> Request] /\ \A p \in Requests \ {q} : req'[p] = req[p]
  <2>1. PICK r \in Request :
          r = [NoRequest EXCEPT !.pc = pc, !.kind = kind, !.user = u, !.case = c, !.doc = d]
    BY <1>4
  <2> QED
    BY <1>1, <1>2, <2>1
<1>10. jobs' \in [Docs -> [Again -> Nat]]
  BY <1>5 DEF IInv, TypeOK
<1> QED
  BY <1>5, <1>7, <1>8, <1>9, <1>10, MovedQuietly

LEMMA CreateCaseIInv ==
  ASSUME IInv, NEW q \in Requests, CreateCase(q)
  PROVE  IInv'
<1>1. /\ req[q].kind = "createCase" /\ req[q].case \in Cases /\ case[req[q].case] = None
      /\ req[q].user \in Users
  BY DEF CreateCase, IInv, ReqOK
<1>2. case' = [case EXCEPT ![req[q].case] = req[q].user] /\ case \in [Cases -> Users \cup {None}]
  BY DEF CreateCase, IInv, TypeOK
<1>3. \A e \in Cases \ {req[q].case} : case'[e] = case[e]
  BY <1>2
<1>4. case' \in [Cases -> Users \cup {None}]
  BY <1>1, <1>2
<1>5. UNCHANGED <<doc, jobs, shown>> /\ Done(q)
  BY DEF CreateCase
<1>6. Settled
  BY <1>1, <1>3, <1>5 DEF Settled
<1>7. ASSUME NEW p \in Requests \ {q}, req[p].kind = "createCase" PROVE case'[req[p].case] = None
  BY <1>1, <1>3, <1>7 DEF IInv, ReqOK, NewCasesDiffer
<1>8. jobs' \in [Docs -> [Again -> Nat]]
  BY <1>5 DEF IInv, TypeOK
<1> QED
  BY <1>4, <1>5, <1>6, <1>7, <1>8, Ended, Moved

\* A request that ends with an answer, every line of which is true.
LEMMA Answered ==
  ASSUME IInv, NEW q \in Requests, UNCHANGED <<case, doc, jobs>>, Done(q),
         \A s \in shown' : s \in shown \/ (s \in Lines /\ LineOK(s)')
  PROVE  IInv'
<1>1. jobs' \in [Docs -> [Again -> Nat]]
  BY DEF IInv, TypeOK
<1> QED
  BY <1>1, Ended, MovedQuietly

\* What an owner may be shown.
LEMMA OwnLine ==
  ASSUME IInv, NEW q \in Requests, UNCHANGED <<case, doc>>, req[q].user \in Users,
         NEW what \in {"listed", "case", "original", "sanitized", "text"},
         NEW c \in Cases, NEW d \in Docs \cup {None}, NEW n \in Nat,
         case[c] = req[q].user,
         d = None => what \in {"listed", "case"},
         d # None => doc[d].case = c,
         what \in {"original", "sanitized"} =>
           doc[d].status = "CLEAN" /\ what = IF doc[d].image THEN "sanitized" ELSE "original",
         what = "text" => doc[d].ocr = "COMPLETED" /\ n = Len(doc[d].results) /\ n > 0,
         NEW s, s = Line(q, what, c, d, n)
  PROVE  s \in Lines /\ LineOK(s)'
<1>1. s \in Lines
  <2>1. PICK u \in Users : u = req[q].user
    OBVIOUS
  <2>2. [user |-> u, what |-> what, case |-> c, doc |-> d, n |-> n] \in Lines
    BY DEF Lines
  <2> QED
    BY <2>1, <2>2 DEF Line
<1>2. s.user = req[q].user /\ s.what = what /\ s.case = c /\ s.doc = d /\ s.n = n
  BY DEF Line
<1>3. LineOK(s)'
  BY <1>2 DEF LineOK, LineNamed
<1> QED
  BY <1>1, <1>3

LEMMA ListCasesIInv ==
  ASSUME IInv, NEW q \in Requests, ListCases(q)
  PROVE  IInv'
<1>1. Done(q) /\ UNCHANGED <<case, doc, jobs>> /\ req[q].user \in Users
  BY DEF ListCases, Answer, IInv, ReqOK
<1>2. ASSUME NEW s \in shown', s \notin shown PROVE s \in Lines /\ LineOK(s)'
  <2>1. shown' = shown \cup {Line(q, "listed", c, None, 0) : c \in {e \in Cases : case[e] = req[q].user}}
    BY DEF ListCases, Answer
  <2>2. PICK c \in Cases : case[c] = req[q].user /\ s = Line(q, "listed", c, None, 0)
    BY <1>2, <2>1
  <2> QED
    BY <1>1, <2>2, OwnLine
<1> QED
  BY <1>1, <1>2, Answered

\* What a request that has found its case has checked.
LEMMA Owns ==
  ASSUME IInv, NEW q \in Requests, req[q].pc \in {"owned", "reading"}
  PROVE  /\ req[q].user \in Users /\ req[q].case \in Cases /\ case[req[q].case] = req[q].user
         /\ req[q].kind \in OwnerKinds
         /\ req[q].kind \in {"download", "readOcr"} => req[q].doc \in Docs
         /\ None \notin Docs
BY CaseFileAssumption DEF IInv, ReqOK, OwnerKinds

LEMMA ReadHistoryIInv ==
  ASSUME IInv, NEW q \in Requests, ReadHistory(q)
  PROVE  IInv'
<1>1. Done(q) /\ UNCHANGED <<case, doc, jobs>> /\ req[q].pc = "owned"
  BY DEF ReadHistory, Answer
<1>2. ASSUME NEW s \in shown', s \notin shown PROVE s \in Lines /\ LineOK(s)'
  <2>1. s = Line(q, "case", req[q].case, None, 0)
    BY <1>2 DEF ReadHistory, Answer
  <2>2. PICK c \in Cases : c = req[q].case
    BY <1>1, Owns
  <2> QED
    BY <1>1, <2>1, <2>2, Owns, OwnLine
<1> QED
  BY <1>1, <1>2, Answered

LEMMA ListDocumentsIInv ==
  ASSUME IInv, NEW q \in Requests, ListDocuments(q)
  PROVE  IInv'
<1>1. Done(q) /\ UNCHANGED <<case, doc, jobs>> /\ req[q].pc = "owned"
  BY DEF ListDocuments, Answer
<1>2. ASSUME NEW s \in shown', s \notin shown PROVE s \in Lines /\ LineOK(s)'
  <2>1. shown' = shown \cup {Line(q, "listed", req[q].case, d, 0) :
                               d \in {e \in Docs : OwnDocument(e, req[q].case, req[q].user)}}
    BY DEF ListDocuments, Answer
  <2>2. PICK d \in Docs : /\ OwnDocument(d, req[q].case, req[q].user)
                          /\ s = Line(q, "listed", req[q].case, d, 0)
    BY <1>2, <2>1
  <2>3. PICK c \in Cases : c = req[q].case
    BY <1>1, Owns
  <2> QED
    BY <1>1, <2>2, <2>3, Owns, OwnLine DEF OwnDocument
<1> QED
  BY <1>1, <1>2, Answered

LEMMA DownloadIInv ==
  ASSUME IInv, NEW q \in Requests, Download(q)
  PROVE  IInv'
<1>1. Done(q) /\ UNCHANGED <<case, doc, jobs>> /\ req[q].pc = "owned" /\ req[q].kind = "download"
  BY DEF Download, Answer
<1>2. ASSUME NEW s \in shown', s \notin shown PROVE s \in Lines /\ LineOK(s)'
  <2>1. PICK d \in Docs : d = req[q].doc
    BY <1>1, Owns
  <2>2. shown' = shown \cup {Line(q, object, req[q].case, d, 0) :
                   object \in IF OwnDocument(d, req[q].case, req[q].user) THEN Downloadable(d) ELSE {}}
    BY <2>1 DEF Download, Answer
  <2>3. PICK object \in Downloadable(d) : /\ OwnDocument(d, req[q].case, req[q].user)
                                          /\ s = Line(q, object, req[q].case, d, 0)
    BY <1>2, <2>2
  <2>4. /\ object \in {"original", "sanitized"}
        /\ doc[d].status = "CLEAN" /\ object = IF doc[d].image THEN "sanitized" ELSE "original"
    <3>1. doc[d].image \in BOOLEAN
      BY DEF IInv, TypeOK, Document
    <3> QED
      BY <2>3, <3>1 DEF Downloadable
  <2>5. PICK c \in Cases : c = req[q].case
    BY <1>1, Owns
  <2> QED
    BY <1>1, <2>3, <2>4, <2>5, Owns, OwnLine DEF OwnDocument
<1> QED
  BY <1>1, <1>2, Answered

\* The latest COMPLETED execution of a COMPLETED document is its last one.
LEMMA CurrentIsLast ==
  ASSUME IInv, NEW d \in Docs, doc[d].ocr = "COMPLETED"
  PROVE  Current(d) = Len(doc[d].results) /\ Current(d) \in Nat /\ Current(d) > 0
<1> DEFINE completed == {i \in DOMAIN doc[d].results : doc[d].results[i] = "COMPLETED"}
<1>1. /\ doc[d].results \in Seq({"COMPLETED", "FAILED"})
      /\ Len(doc[d].results) > 0 /\ doc[d].results[Len(doc[d].results)] = "COMPLETED"
  BY DEF IInv, TypeOK, Document, DocOK
<1>2. PICK n \in Nat : n = Len(doc[d].results) /\ DOMAIN doc[d].results = 1 .. n
  BY <1>1
<1>3. n \in completed /\ \A i \in completed : i \in 1 .. n
  BY <1>1, <1>2
<1>4. Current(d) = CHOOSE i \in completed : \A j \in completed : j <= i
  BY <1>3 DEF Current
<1> HIDE DEF completed
<1>5. \A i \in completed : (\A j \in completed : j <= i) => i = n
  BY <1>2, <1>3
<1>6. \A j \in completed : j <= n
  BY <1>2, <1>3
<1>7. Current(d) = n
  BY <1>3, <1>4, <1>5, <1>6
<1> QED
  BY <1>1, <1>2, <1>7

LEMMA ReadPagesIInv ==
  ASSUME IInv, NEW q \in Requests, ReadPages(q)
  PROVE  IInv'
<1>1. Done(q) /\ UNCHANGED <<case, doc, jobs>> /\ req[q].pc = "reading"
  BY DEF ReadPages, Answer
<1>2. /\ req[q].kind = "readOcr" /\ req[q].doc \in Docs
      /\ doc[req[q].doc].case = req[q].case /\ doc[req[q].doc].ocr = "COMPLETED"
  BY <1>1 DEF IInv, ReqOK
<1>3. ASSUME NEW s \in shown', s \notin shown PROVE s \in Lines /\ LineOK(s)'
  <2>1. PICK d \in Docs : d = req[q].doc
    BY <1>2
  <2>2. PICK c \in Cases : c = req[q].case
    BY <1>1, Owns
  <2>3. PICK n \in Nat : n = Current(d) /\ n = Len(doc[d].results) /\ n > 0
    BY <1>2, <2>1, CurrentIsLast
  <2>4. s = Line(q, "text", req[q].case, d, n)
    BY <1>1, <1>2, <1>3, <2>1, <2>3, Owns DEF ReadPages, Answer, OwnDocument
  <2> QED
    BY <1>1, <1>2, <2>1, <2>2, <2>3, <2>4, Owns, OwnLine
<1> QED
  BY <1>1, <1>3, Answered

\* A request that ends without an answer, or goes on.
LEMMA MovedUnanswered ==
  ASSUME IInv, NEW q \in Requests, UNCHANGED <<case, doc, jobs, shown>>,
         req' \in [Requests -> Request], \A p \in Requests \ {q} : req'[p] = req[p],
         ReqOK(q)', NewCasesDiffer'
  PROVE  IInv'
<1>1. jobs' \in [Docs -> [Again -> Nat]]
  BY DEF IInv, TypeOK
<1> QED
  BY <1>1, MovedQuietly

LEMMA OwnCaseIInv ==
  ASSUME IInv, NEW q \in Requests, OwnCase(q)
  PROVE  IInv'
<1>1. CASE case[req[q].case] = req[q].user
  <2>1. req[q].kind \in OwnerKinds /\ req[q].case \in Cases /\ req[q].pc = "owning"
    BY DEF OwnCase, IInv, ReqOK
  <2>2. Goto(q, "owned") /\ UNCHANGED <<case, doc, jobs, shown>>
    BY <1>1 DEF OwnCase
  <2> QED
    BY <1>1, <2>1, <2>2, GoesOn, MovedUnanswered DEF OwnerKinds
<1>2. CASE case[req[q].case] # req[q].user
  BY <1>2, Ended, MovedUnanswered DEF OwnCase
<1> QED
  BY <1>1, <1>2

LEMMA FindOcrIInv ==
  ASSUME IInv, NEW q \in Requests, FindOcr(q)
  PROVE  IInv'
<1> DEFINE found == OwnDocument(req[q].doc, req[q].case, req[q].user) /\ doc[req[q].doc].ocr = "COMPLETED"
<1>1. CASE found
  <2>1. Goto(q, "reading") /\ UNCHANGED <<case, doc, jobs, shown>>
        /\ req[q].kind = "readOcr" /\ req[q].pc = "owned"
    BY <1>1 DEF FindOcr
  <2> QED
    BY <1>1, <2>1, Owns, GoesOn, MovedUnanswered DEF OwnDocument
<1>2. CASE ~ found
  BY <1>2, Ended, MovedUnanswered DEF FindOcr
<1> QED
  BY <1>1, <1>2

LEMMA FindForAdministrationIInv ==
  ASSUME IInv, NEW q \in Requests, FindForAdministration(q)
  PROVE  IInv'
<1>1. /\ req[q].pc = "first" /\ req[q].kind \in AdminKinds /\ UNCHANGED <<case, doc, jobs, shown>>
      /\ Goto(q, "requesting") \/ Done(q)
  BY DEF FindForAdministration
<1>2. CASE Goto(q, "requesting")
  BY <1>1, <1>2, GoesOn, MovedUnanswered DEF AdminKinds
<1>3. CASE Done(q)
  BY <1>1, <1>3, Ended, MovedUnanswered
<1> QED
  BY <1>1, <1>2, <1>3

LEMMA EnqueueIInv ==
  ASSUME IInv, NEW q \in Requests, Enqueue(q)
  PROVE  IInv'
<1>1. Done(q) /\ UNCHANGED <<case, doc, shown>>
  BY DEF Enqueue
<1>2. jobs' \in [Docs -> [Again -> Nat]]
  <2>1. PICK a \in Again : jobs' = [jobs EXCEPT ![req[q].doc][a] = @ + 1]
    BY DEF Enqueue, AgainOf, Again
  <2>2. req[q].doc \in Docs
    BY DEF Enqueue, IInv, ReqOK
  <2> QED
    BY <2>1, <2>2 DEF IInv, TypeOK
<1> QED
  BY <1>1, <1>2, Ended, MovedQuietly

LEMMA NextIInv == IInv /\ [Next]_vars => IInv'
<1> SUFFICES ASSUME IInv, [Next]_vars PROVE IInv'
  OBVIOUS
<1>1. ASSUME NEW d \in Docs,
             Treat(d) \/ Recognise(d) \/ Reprocess(d) \/ \E c \in Cases : Upload(d, c)
      PROVE  IInv'
  <2>1. Settled /\ (\A e \in Docs : DocOK(e)') /\ doc' \in [Docs -> Document]
    BY <1>1, DocSettled, DocTypes DEF IInv
  <2>2. UNCHANGED <<case, jobs, req, shown>>
    BY <1>1 DEF Treat, Recognise, Reprocess, Upload
  <2>3. \A q \in Requests : ReqOK(q)'
    BY <2>1, <2>2, ReqStays DEF IInv, ReqOK
  <2>4. \A s \in shown' : LineOK(s)'
    BY <2>1, <2>2, ShownStays
  <2>5. (OnlyOwnShown /\ CompletedHasText /\ \A s \in shown : LineNamed(s))'
    BY <2>4 DEF LineOK, OnlyOwnShown, CompletedHasText
  <2>6. TypeOK' /\ NewCasesDiffer'
    BY <2>1, <2>2 DEF IInv, TypeOK, NewCasesDiffer
  <2> QED
    BY <2>1, <2>3, <2>5, <2>6 DEF IInv
<1>2. ASSUME NEW q \in Requests, Serve(q) PROVE IInv'
  <2>1. CASE Fail(q)
    BY <2>1, Ended, MovedUnanswered DEF Fail
  <2> QED
    BY <1>2, <2>1, CreateCaseIInv, ListCasesIInv, OwnCaseIInv, ReadHistoryIInv, ListDocumentsIInv,
       DownloadIInv, FindOcrIInv, ReadPagesIInv, FindForAdministrationIInv, EnqueueIInv DEF Serve
<1>3. CASE UNCHANGED vars
  <2>1. Settled /\ UNCHANGED <<case, doc, jobs, req, shown>>
    BY <1>3 DEF vars, Settled
  <2> QED
    BY <2>1 DEF IInv, TypeOK, ReqOK, NewCasesDiffer, DocOK, LineNamed, OnlyOwnShown, CompletedHasText,
                OwnDocument
<1> QED
  BY <1>1, <1>2, <1>3, ArriveIInv DEF Next

(***************************************************************************)
(* The theorems                                                            *)
(***************************************************************************)
LEMMA Invariance == Spec => []IInv
BY InitIInv, NextIInv, PTL DEF Spec

\* Every reachable state of the cases, the documents and the requests is well typed.
THEOREM CaseFileTypeCorrect == Spec => []TypeOK
<1>1. IInv => TypeOK
  BY DEF IInv
<1> QED
  BY <1>1, Invariance, PTL

\* Nobody is ever answered with another's case or document, nor given the URL of an object that did
\* not pass the treatment, and it stays so (ownCase(), findOwnDocument(), downloadableKey()).
THEOREM OnlyOwnCorrect == Spec => []OnlyOwnShown
<1>1. IInv => OnlyOwnShown
  BY DEF IInv
<1> QED
  BY <1>1, Invariance, PTL

\* An answer that says COMPLETED has the text of the last execution, for any number of late
\* reprocessings (findOwnDocumentOcr(), reprocessOcr()).
THEOREM CompletedCorrect == Spec => []CompletedHasText
<1>1. IInv => CompletedHasText
  BY DEF IInv
<1> QED
  BY <1>1, Invariance, PTL
=============================================================================
