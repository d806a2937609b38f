------------------------- MODULE DocumentScanProofs -------------------------
(***************************************************************************)
(* The security treatment of documents: its type, its safety invariants,   *)
(* that a live claim is ended by its holder only, that it implements       *)
(* DocumentLifecycle, and that the sweep of DocumentSweep, statement by    *)
(* statement, implements it; for any number of documents, handlers, jobs,  *)
(* requests and sweeping workers, any limits and any faults, except where  *)
(* a theorem says which.                                                   *)
(***************************************************************************)
EXTENDS DocumentSweep, TLAPS

-----------------------------------------------------------------------------
(***************************************************************************)
(* A handler at work has a document; one with a claim remembers a token.   *)
(***************************************************************************)
HandlersOK ==
  \A w \in Executions :
    /\ exec[w].pc # "idle" => exec[w].doc \in Docs
    /\ exec[w].pc \in Claimed => exec[w].token \in Tokens

TypeInv == TypeOK /\ HandlersOK

\* What clock_timestamp() gives is a token that neither the row nor a handler remembers.
LEMMA NowIsNew ==
  ASSUME NEW d, ~(Tokens \subseteq Remembered(d))
  PROVE  Now(d) \in Tokens /\ Now(d) \notin Remembered(d)
  BY DEF Now

\* An audit row of a result keeps the counters counters.
LEMMA AuditedType ==
  ASSUME NEW a \in Audit, NEW status \in Results
  PROVE  Audited(a, status) \in Audit
  BY DEF Audited, Audit, Results

(***************************************************************************)
(* What a step makes of a row, a job or a request is a row, a job, a       *)
(* request.                                                                *)
(***************************************************************************)
LEMMA RowClaimed ==
  ASSUME NEW row \in Row, NEW n \in Nat, NEW t \in Tokens
  PROVE  [row EXCEPT !.status = "SCANNING", !.attempts = n, !.startedAt = t] \in Row
  BY DEF Row, Statuses

LEMMA RowFinished ==
  ASSUME NEW row \in Row, NEW status \in Results, NEW b \in BOOLEAN, NEW c \in BOOLEAN
  PROVE  [row EXCEPT !.status = status, !.scannedAt = TRUE,
                     !.signature = b, !.sanitizedKey = c] \in Row
  BY DEF Row, Statuses

LEMMA RowPending ==
  ASSUME NEW row \in Row
  PROVE  [row EXCEPT !.status = "PENDING_SCAN", !.startedAt = None] \in Row
  BY DEF Row, Statuses

LEMMA RowFailed ==
  ASSUME NEW row \in Row
  PROVE  [row EXCEPT !.status = "SCAN_FAILED", !.scannedAt = TRUE] \in Row
  BY DEF Row, Statuses, Results

LEMMA RowNew == NewRow("PENDING_SCAN") \in Row
  BY DEF NewRow, Row, Statuses

LEMMA JobTypes ==
  /\ NewJob \in Job
  /\ IdleJob \in Job
  /\ \A j \in Job : /\ Refused(j) \in Job
                    /\ [state |-> "active", deliveries |-> j.deliveries + 1] \in Job
  BY DEF NewJob, IdleJob, Refused, Job

LEMMA RequestTypes ==
  ASSUME NEW q \in Request
  PROVE  /\ [q EXCEPT !.deliveries = @ + 1] \in Request
         /\ \A s \in {"queued", "answered", "done"} : [q EXCEPT !.state = s] \in Request
         /\ RefusedRequest(q) \in Request
  BY DEF Request, RefusedRequest

LEMMA TypeInit == Init => TypeInv
  BY ScanAssumption
  DEF Init, TypeInv, TypeOK, HandlersOK, Row, NewRow, Statuses, Results, Job, IdleJob, NewJob,
      Request, Exec, IdleExec, Claimed, Audit, NoAudit

(***************************************************************************)
(* What a step does to a handler.                                          *)
(***************************************************************************)
Places == {"idle", "claiming", "skipped", "removing", "returning", "throwing"} \cup Claimed

LEMMA HandlerMoves ==
  ASSUME TypeInv, NEW w \in Executions, NEW e \in Exec,
         e.pc # "idle" => e.doc \in Docs,
         e.pc \in Claimed => e.token \in Tokens,
         exec' = [exec EXCEPT ![w] = e]
  PROVE  exec' \in [Executions -> Exec] /\ HandlersOK'
  <1>1. exec' \in [Executions -> Exec]
    BY DEF TypeInv, TypeOK
  <1>2. ASSUME NEW v \in Executions
        PROVE  /\ exec'[v].pc # "idle" => exec'[v].doc \in Docs
               /\ exec'[v].pc \in Claimed => exec'[v].token \in Tokens
    <2>1. exec'[v] = IF v = w THEN e ELSE exec[v]
      BY DEF TypeInv, TypeOK
    <2>. QED  BY <2>1 DEF TypeInv, HandlersOK
  <1>. QED  BY <1>1, <1>2 DEF HandlersOK

LEMMA IdleType == IdleExec \in Exec
  BY DEF IdleExec, Exec

LEMMA GotoMoves ==
  ASSUME TypeInv, NEW w \in Executions, NEW pc \in Places, Goto(w, pc),
         exec[w].pc # "idle", pc \in Claimed => exec[w].pc \in Claimed
  PROVE  exec' \in [Executions -> Exec] /\ HandlersOK'
  <1> DEFINE e == [exec[w] EXCEPT !.pc = pc]
  <1>1. exec[w] \in Exec
    BY DEF TypeInv, TypeOK
  <1>2. e \in Exec /\ e.pc = pc /\ e.doc = exec[w].doc /\ e.token = exec[w].token
    BY <1>1 DEF Exec, Places
  <1>3. exec' = [exec EXCEPT ![w] = e]
    BY DEF Goto
  <1> HIDE DEF e
  <1>4. /\ e.pc # "idle" => e.doc \in Docs
        /\ e.pc \in Claimed => e.token \in Tokens
    BY <1>2 DEF TypeInv, HandlersOK
  <1>. QED  BY <1>2, <1>3, <1>4, HandlerMoves

LEMMA LeaveMoves ==
  ASSUME TypeInv, NEW w \in Executions, NEW pc \in {"removing", "returning", "throwing"},
         Leave(w, pc), exec[w].pc # "idle"
  PROVE  exec' \in [Executions -> Exec] /\ HandlersOK'
  <1> DEFINE e == [exec[w] EXCEPT !.pc = pc, !.attempts = 0, !.token = None]
  <1>1. exec[w] \in Exec
    BY DEF TypeInv, TypeOK
  <1>2. e \in Exec /\ e.pc = pc /\ e.doc = exec[w].doc
    BY <1>1 DEF Exec
  <1>3. exec' = [exec EXCEPT ![w] = e]
    BY DEF Leave
  <1> HIDE DEF e
  <1>4. /\ e.pc # "idle" => e.doc \in Docs
        /\ e.pc \in Claimed => e.token \in Tokens
    BY <1>2 DEF TypeInv, HandlersOK, Claimed
  <1>. QED  BY <1>2, <1>3, <1>4, HandlerMoves

(***************************************************************************)
(* What a statement or a transaction makes of the tables.                  *)
(***************************************************************************)
LEMMA ClaimTypes ==
  ASSUME TypeInv, NEW d \in Docs, TakeClaim(d)
  PROVE  /\ Now(d) \in Tokens
         /\ doc[d].attempts + 1 \in Nat
         /\ doc' \in [Docs -> Row]
         /\ lapsed' \in SUBSET Docs
  <1>1. Now(d) \in Tokens
    BY NowIsNew DEF TakeClaim
  <1>2. doc[d] \in Row
    BY DEF TypeInv, TypeOK
  <1>3. doc[d].attempts + 1 \in Nat
    BY <1>2 DEF Row
  <1>4. [doc[d] EXCEPT !.status = "SCANNING",
                       !.attempts = doc[d].attempts + 1,
                       !.startedAt = Now(d)] \in Row
    BY <1>1, <1>2, <1>3, RowClaimed
  <1>5. doc' \in [Docs -> Row]
    BY <1>4 DEF TakeClaim, TypeInv, TypeOK
  <1>6. lapsed' \in SUBSET Docs
    BY DEF TakeClaim, TypeInv, TypeOK
  <1>. QED  BY <1>1, <1>3, <1>5, <1>6

LEMMA FinishTypes ==
  ASSUME TypeInv, NEW w \in Executions, exec[w].doc \in Docs, NEW status \in Results,
         Finish(w, status)
  PROVE  /\ doc' \in [Docs -> Row]
         /\ lapsed' \in SUBSET Docs
         /\ audit' \in [Docs -> Audit]
  <1> DEFINE d == exec[w].doc
             row == [doc[d] EXCEPT !.status = status,
                                   !.scannedAt = TRUE,
                                   !.signature = (status = "INFECTED"),
                                   !.sanitizedKey = (status = "CLEAN" /\ d \in Images)]
  <1>1. doc[d] \in Row /\ audit[d] \in Audit
    BY DEF TypeInv, TypeOK
  <1>2. row \in Row
    BY <1>1, RowFinished
  <1>3. doc' = [doc EXCEPT ![d] = row]
    BY DEF Finish
  <1> HIDE DEF row
  <1>4. doc' \in [Docs -> Row]
    BY <1>2, <1>3 DEF TypeInv, TypeOK
  <1>5. audit' \in [Docs -> Audit]
    BY <1>1, AuditedType DEF Finish, TypeInv, TypeOK
  <1>6. lapsed' \in SUBSET Docs
    BY DEF Finish, TypeInv, TypeOK
  <1>. QED  BY <1>4, <1>5, <1>6

LEMMA ReleaseTypes ==
  ASSUME TypeInv, NEW d \in Docs,
         doc' = [doc EXCEPT ![d] = [@ EXCEPT !.status = "PENDING_SCAN", !.startedAt = None]]
  PROVE  doc' \in [Docs -> Row]
  <1>1. doc[d] \in Row
    BY DEF TypeInv, TypeOK
  <1>2. [doc[d] EXCEPT !.status = "PENDING_SCAN", !.startedAt = None] \in Row
    BY <1>1, RowPending
  <1>. QED  BY <1>2 DEF TypeInv, TypeOK

LEMMA RoundTypes ==
  ASSUME TypeInv, NEW d \in Docs, NEW k \in Jobs, NewRound(d, k)
  PROVE  /\ doc' \in [Docs -> Row]
         /\ job' \in [Docs -> [Jobs -> Job]]
         /\ audit' \in [Docs -> Audit]
  <1>1. doc[d] \in Row /\ audit[d] \in Audit
    BY DEF TypeInv, TypeOK
  <1> DEFINE a == [audit[d] EXCEPT !.reprocessed = audit[d].reprocessed + 1]
  <1>2. a \in Audit
    BY <1>1 DEF Audit
  <1>3. audit' = [audit EXCEPT ![d] = a]
    BY DEF NewRound
  <1> HIDE DEF a
  <1>4. doc' \in [Docs -> Row]
    BY RowNew DEF NewRound, TypeInv, TypeOK
  <1>5. audit' \in [Docs -> Audit]
    BY <1>2, <1>3 DEF TypeInv, TypeOK
  <1>6. job' \in [Docs -> [Jobs -> Job]]
    BY JobTypes DEF NewRound, TypeInv, TypeOK
  <1>. QED  BY <1>4, <1>5, <1>6

LEMMA SweepTypes ==
  ASSUME TypeInv, Sweep
  PROVE  /\ doc' \in [Docs -> Row]
         /\ lapsed' \in SUBSET Docs
         /\ job' \in [Docs -> [Jobs -> Job]]
         /\ audit' \in [Docs -> Audit]
  <1>1. ASSUME NEW d \in Docs
        PROVE  /\ doc[d] \in Row
               /\ audit[d] \in Audit
               /\ job[d] \in [Jobs -> Job]
    BY DEF TypeInv, TypeOK
  <1>2. PICK failed \in SUBSET Docs, requeued \in SUBSET Docs :
          /\ doc' = [d \in Docs |->
               IF d \in failed
               THEN [doc[d] EXCEPT !.status = "SCAN_FAILED", !.scannedAt = TRUE]
               ELSE IF d \in requeued
               THEN [doc[d] EXCEPT !.status = "PENDING_SCAN", !.startedAt = None]
               ELSE doc[d]]
          /\ audit' = [d \in Docs |-> IF d \in failed
                                      THEN Audited(audit[d], "SCAN_FAILED")
                                      ELSE audit[d]]
          /\ \E new \in [requeued -> Jobs] :
               job' = [d \in Docs |-> IF d \in requeued
                                      THEN [job[d] EXCEPT ![new[d]] = NewJob]
                                      ELSE job[d]]
          /\ lapsed' = lapsed \ (failed \cup requeued)
    <2>1. /\ {d \in Docs : Exhausted(d)} \in SUBSET Docs
          /\ {d \in Docs : Requeueable(d)} \in SUBSET Docs
      OBVIOUS
    <2>. QED  BY <2>1, Zenon DEF Sweep, Recover
  <1>3. doc' \in [Docs -> Row]
    <2>1. ASSUME NEW d \in Docs
          PROVE  /\ [doc[d] EXCEPT !.status = "SCAN_FAILED", !.scannedAt = TRUE] \in Row
                 /\ [doc[d] EXCEPT !.status = "PENDING_SCAN", !.startedAt = None] \in Row
      BY <1>1, RowFailed, RowPending
    <2>. QED  BY <1>1, <1>2, <2>1
  <1>4. audit' \in [Docs -> Audit]
    BY <1>1, <1>2, AuditedType DEF Results
  <1>5. job' \in [Docs -> [Jobs -> Job]]
    <2>1. PICK new \in [requeued -> Jobs] :
            job' = [d \in Docs |-> IF d \in requeued THEN [job[d] EXCEPT ![new[d]] = NewJob]
                                   ELSE job[d]]
      BY <1>2
    <2>2. ASSUME NEW d \in Docs, d \in requeued
          PROVE  [job[d] EXCEPT ![new[d]] = NewJob] \in [Jobs -> Job]
      BY <1>1, <2>2, JobTypes
    <2>. QED  BY <1>1, <2>1, <2>2
  <1>6. lapsed' \in SUBSET Docs
    BY <1>2 DEF TypeInv, TypeOK
  <1>. QED  BY <1>3, <1>4, <1>5, <1>6

LEMMA TypeStep == TypeInv /\ [Next]_vars => TypeInv'
  <1> SUFFICES ASSUME TypeInv, [Next]_vars
               PROVE  TypeInv'
      OBVIOUS
  <1>0. /\ TypeOK /\ HandlersOK
        /\ \A w \in Executions : exec[w] \in Exec
        /\ \A d \in Docs : doc[d] \in Row /\ audit[d] \in Audit
        /\ \A d \in Docs, k \in Jobs : job[d][k] \in Job
        /\ \A d \in Docs, r \in Requests : request[d][r] \in Request
    BY DEF TypeInv, TypeOK
  <1>a. ASSUME NEW w \in Executions, exec[w].pc \in {"claiming", "treating"}
        PROVE  exec[w].doc \in Docs /\ exec[w].pc # "idle"
    BY <1>0, <1>a DEF HandlersOK
  <1>1. ASSUME NEW w \in Executions, Claim(w)
        PROVE  TypeInv'
    <2> DEFINE d == exec[w].doc
    <2>1. d \in Docs /\ exec[w].pc = "claiming"
      BY <1>1, <1>a DEF Claim
    <2>2. CASE TakeClaim(d)
      <3>1. /\ Now(d) \in Tokens
            /\ doc[d].attempts + 1 \in Nat
            /\ doc' \in [Docs -> Row]
            /\ lapsed' \in SUBSET Docs
        BY <2>1, <2>2, ClaimTypes
      <3>2. CASE exec' = [exec EXCEPT ![w] = [@ EXCEPT !.pc = "treating",
                                                       !.attempts = doc[d].attempts + 1,
                                                       !.token = Now(d)]]
        <4> DEFINE e == [exec[w] EXCEPT !.pc = "treating",
                                        !.attempts = doc[d].attempts + 1,
                                        !.token = Now(d)]
        <4>1. e \in Exec /\ e.doc = d /\ e.token \in Tokens
          <5>1. Now(d) \in Tokens /\ doc[d].attempts + 1 \in Nat /\ exec[w] \in Exec
            BY <1>0, <3>1
          <5> HIDE DEF d
          <5>2. e \in Exec /\ e.doc = exec[w].doc /\ e.token \in Tokens
            BY <5>1 DEF Exec, Claimed
          <5>. QED  BY <5>2 DEF d
        <4>2. exec' = [exec EXCEPT ![w] = e]
          BY <3>2
        <4> HIDE DEF e
        <4>. QED  BY <1>0, <1>1, <2>1, <3>1, <4>1, <4>2, HandlerMoves
                  DEF Claim, TypeInv, TypeOK
      <3>3. CASE Goto(w, "throwing")
        BY <1>0, <1>1, <2>1, <3>1, <3>3, GotoMoves DEF Claim, Places, Claimed, TypeInv, TypeOK
      <3>. QED  BY <1>1, <2>2, <3>2, <3>3 DEF Claim, TakeClaim
    <2>3. CASE UNCHANGED <<doc, lapsed>>
      <3>1. Goto(w, "throwing") \/ Goto(w, "skipped")
            \/ TakeClaim(d)
        BY <1>1, <2>3 DEF Claim
      <3>. QED  BY <1>0, <1>1, <2>1, <2>2, <2>3, <3>1, GotoMoves
                DEF Claim, Places, Claimed, TypeInv, TypeOK
    <2>. QED  BY <1>1, <2>2, <2>3 DEF Claim
  <1>2. ASSUME NEW w \in Executions, Treat(w)
        PROVE  TypeInv'
    <2>1. PICK pc \in Claimed : Goto(w, pc)
      BY <1>2 DEF Treat, Claimed
    <2>. QED  BY <1>0, <1>2, <2>1, GotoMoves DEF Treat, Places, Claimed, TypeInv, TypeOK
  <1>3. ASSUME NEW w \in Executions, StoreCopy(w)
        PROVE  TypeInv'
    <2>1. copy' \in SUBSET Docs
      BY <1>0, <1>3 DEF StoreCopy, TypeOK, HandlersOK
    <2>2. PICK pc \in Claimed : Goto(w, pc)
      BY <1>3 DEF StoreCopy, Claimed
    <2>. QED  BY <1>0, <1>3, <2>1, <2>2, GotoMoves
              DEF StoreCopy, Places, Claimed, TypeInv, TypeOK
  <1>4. ASSUME NEW w \in Executions, NEW pc \in Claimed, NEW status \in Results,
               Mark(w, pc, status)
        PROVE  TypeInv'
    <2>1. exec[w].pc = pc /\ exec[w].pc \in Claimed /\ exec[w].pc # "idle"
          /\ exec[w].doc \in Docs
      BY <1>0, <1>4 DEF Mark, Claimed, HandlersOK
    <2>2. doc' \in [Docs -> Row] /\ lapsed' \in SUBSET Docs /\ audit' \in [Docs -> Audit]
      <3>1. Finish(w, status) \/ NoWrite
        BY <1>4 DEF Mark
      <3>2. CASE Finish(w, status)
        BY <2>1, <3>2, FinishTypes
      <3>3. CASE NoWrite
        BY <1>0, <3>3 DEF NoWrite, TypeOK
      <3>. QED  BY <3>1, <3>2, <3>3
    <2>3. Leave(w, "returning") \/ Goto(w, "failing")
      BY <1>4 DEF Mark
    <2>4. exec' \in [Executions -> Exec] /\ HandlersOK'
      BY <2>1, <2>3, LeaveMoves, GotoMoves DEF Places, Claimed
    <2>. QED  BY <1>0, <1>4, <2>2, <2>4 DEF Mark, TypeInv, TypeOK
  <1>5. ASSUME NEW w \in Executions, MarkFailed(w)
        PROVE  TypeInv'
    <2>1. exec[w].pc # "idle" /\ exec[w].doc \in Docs /\ "SCAN_FAILED" \in Results
      BY <1>0, <1>5 DEF MarkFailed, Results, HandlersOK
    <2>2. doc' \in [Docs -> Row] /\ lapsed' \in SUBSET Docs /\ audit' \in [Docs -> Audit]
      <3>1. Finish(w, "SCAN_FAILED") \/ NoWrite
        BY <1>5 DEF MarkFailed
      <3>2. CASE Finish(w, "SCAN_FAILED")
        BY <2>1, <3>2, FinishTypes
      <3>3. CASE NoWrite
        BY <1>0, <3>3 DEF NoWrite, TypeOK
      <3>. QED  BY <3>1, <3>2, <3>3
    <2>3. PICK pc \in {"removing", "returning", "throwing"} : Leave(w, pc)
      BY <1>5 DEF MarkFailed
    <2>. QED  BY <1>0, <1>5, <2>1, <2>2, <2>3, LeaveMoves DEF MarkFailed, TypeInv, TypeOK
  <1>6. ASSUME NEW w \in Executions, RemoveCopy(w)
        PROVE  TypeInv'
    BY <1>0, <1>6, LeaveMoves DEF RemoveCopy, TypeInv, TypeOK
  <1>7. ASSUME NEW w \in Executions, Release(w)
        PROVE  TypeInv'
    <2>1. exec[w].doc \in Docs
      BY <1>0, <1>7 DEF Release, HandlersOK
    <2>2. doc' \in [Docs -> Row] /\ lapsed' \in SUBSET Docs
      BY <1>0, <1>7, <2>1, ReleaseTypes DEF Release, TypeOK
    <2>. QED  BY <1>0, <1>7, <2>2, LeaveMoves DEF Release, TypeInv, TypeOK
  <1>c. ASSUME NEW w \in Executions, exec' = [exec EXCEPT ![w] = IdleExec]
        PROVE  exec' \in [Executions -> Exec] /\ HandlersOK'
    BY <1>c, IdleType, HandlerMoves DEF IdleExec, Claimed
  <1>d. ASSUME NEW d, NEW k, NEW j, job' = [job EXCEPT ![d][k] = j],
               d \in Docs /\ k \in Jobs => j \in Job
        PROVE  job' \in [Docs -> [Jobs -> Job]]
    BY <1>0, <1>d DEF TypeOK
  <1>8. ASSUME NEW w \in Executions, Complete(w)
        PROVE  TypeInv'
    <2>1. job' \in [Docs -> [Jobs -> Job]]
      BY <1>0, <1>8, <1>d, JobTypes DEF Complete, TypeOK
    <2>. QED  BY <1>0, <1>8, <1>c, <2>1 DEF Complete, TypeInv, TypeOK
  <1>9. ASSUME NEW w \in Executions, Reject(w)
        PROVE  TypeInv'
    <2>1. job' \in [Docs -> [Jobs -> Job]]
      BY <1>0, <1>9, <1>d, JobTypes DEF Reject, TypeOK
    <2>. QED  BY <1>0, <1>9, <1>c, <2>1 DEF Reject, TypeInv, TypeOK
  <1>10. ASSUME NEW w \in Executions, Crash(w)
         PROVE  TypeInv'
    BY <1>0, <1>10, <1>c DEF Crash, TypeInv, TypeOK
  <1>11. ASSUME NEW w \in Executions, NEW d \in Docs, NEW k \in Jobs, Deliver(w, d, k)
         PROVE  TypeInv'
    <2> DEFINE e == [IdleExec EXCEPT !.pc = "claiming", !.doc = d, !.job = k]
    <2>1. job' \in [Docs -> [Jobs -> Job]]
      BY <1>0, <1>11, <1>d, JobTypes DEF Deliver
    <2>2. e \in Exec /\ e.doc = d /\ e.pc = "claiming"
      BY DEF IdleExec, Exec
    <2>3. exec' = [exec EXCEPT ![w] = e]
      BY <1>11 DEF Deliver
    <2> HIDE DEF e
    <2>. QED  BY <1>0, <1>11, <2>1, <2>2, <2>3, HandlerMoves
              DEF Deliver, TypeInv, TypeOK, Claimed
  <1>12. ASSUME NEW d \in Docs, LeaseExpires(d)
         PROVE  TypeInv'
    BY <1>0, <1>12 DEF LeaseExpires, TypeInv, TypeOK, HandlersOK
  <1>13. ASSUME NEW d \in Docs, NEW k \in Jobs, JobExpires(d, k)
         PROVE  TypeInv'
    <2>1. job' \in [Docs -> [Jobs -> Job]]
      BY <1>0, <1>13, <1>d, JobTypes DEF JobExpires
    <2>2. ASSUME NEW w \in Executions
          PROVE  /\ exec'[w] \in Exec
                 /\ exec'[w].pc = exec[w].pc
                 /\ exec'[w].doc = exec[w].doc
                 /\ exec'[w].token = exec[w].token
      BY <1>0, <1>13 DEF JobExpires, Exec
    <2>3. exec' \in [Executions -> Exec]
      BY <1>13, <2>2 DEF JobExpires
    <2>4. HandlersOK'
      BY <1>0, <2>2 DEF HandlersOK
    <2>. QED  BY <1>0, <1>13, <2>1, <2>3, <2>4 DEF JobExpires, TypeInv, TypeOK
  <1>f. ASSUME NEW d \in Docs, NEW r \in Requests, NEW q \in Request,
               request' = [request EXCEPT ![d][r] = q]
        PROVE  request' \in [Docs -> [Requests -> Request]]
    BY <1>0, <1>f DEF TypeOK
  <1>14. ASSUME NEW d \in Docs, NEW r \in Requests, RequestReprocess(d, r)
         PROVE  TypeInv'
    <2>1. [request[d][r] EXCEPT !.state = "queued"] \in Request
      BY <1>0, RequestTypes
    <2>2. request' \in [Docs -> [Requests -> Request]]
      BY <1>14, <1>f, <2>1 DEF RequestReprocess
    <2>. QED  BY <1>0, <1>14, <2>2 DEF RequestReprocess, TypeInv, TypeOK, HandlersOK
  <1>15. ASSUME NEW d \in Docs, NEW r \in Requests, Reprocess(d, r)
         PROVE  TypeInv'
    <2> DEFINE delivered == [request[d][r] EXCEPT !.deliveries = @ + 1]
               answered  == [delivered EXCEPT !.state = "answered"]
    <2>1. delivered \in Request /\ answered \in Request
      <3>1. delivered \in Request
        BY <1>0, RequestTypes
      <3> HIDE DEF delivered
      <3>. QED  BY <3>1, RequestTypes
    <2>2. \/ request' = [request EXCEPT ![d][r] = answered]
          \/ request' = [request EXCEPT ![d][r] = RefusedRequest(delivered)]
      BY <1>15 DEF Reprocess
    <2> HIDE DEF delivered, answered
    <2>3. request' \in [Docs -> [Requests -> Request]]
      BY <1>f, RequestTypes, <2>1, <2>2
    <2>4. doc' \in [Docs -> Row] /\ job' \in [Docs -> [Jobs -> Job]]
          /\ audit' \in [Docs -> Audit]
      BY <1>0, <1>15, RoundTypes DEF Reprocess, TypeOK
    <2>. QED  BY <1>0, <1>15, <2>3, <2>4 DEF Reprocess, TypeInv, TypeOK, HandlersOK
  <1>16. ASSUME NEW d \in Docs, NEW r \in Requests, SettleRequest(d, r)
         PROVE  TypeInv'
    <2>1. [request[d][r] EXCEPT !.state = "done"] \in Request
      BY <1>0, RequestTypes
    <2>2. request' \in [Docs -> [Requests -> Request]]
      BY <1>0, <1>16, <1>f, RequestTypes, <2>1 DEF SettleRequest
    <2>. QED  BY <1>0, <1>16, <2>2 DEF SettleRequest, TypeInv, TypeOK, HandlersOK
  <1>17. CASE Sweep
    BY <1>0, <1>17, SweepTypes DEF Sweep, Recover, TypeInv, TypeOK, HandlersOK
  <1>18. CASE UNCHANGED vars
    BY <1>0, <1>18 DEF vars, TypeInv, TypeOK, HandlersOK
  <1>. QED
    BY <1>1, <1>2, <1>3, <1>4, <1>5, <1>6, <1>7, <1>8, <1>9, <1>10, <1>11, <1>12, <1>13,
       <1>14, <1>15, <1>16, <1>17, <1>18
    DEF Next, Elsewhere, Handler, MarkClean, MarkInfected, Claimed, Results

\* The state of the treatment is always well formed, whatever fails (the columns and queues that
\* scan.repository.ts and queue.ts write).
THEOREM TypeCorrect == Spec => []TypeOK
  <1>1. Spec => []TypeInv
    BY TypeInit, TypeStep, PTL DEF Spec
  <1>2. TypeInv => TypeOK
    BY DEF TypeInv
  <1>. QED  BY <1>1, <1>2, PTL

-----------------------------------------------------------------------------
(***************************************************************************)
(* What a step does to one row: every statement of the handler, the sweep  *)
(* and the reprocessing, seen from the document it is about.               *)
(***************************************************************************)
Kept(d) ==
  /\ doc'[d] = doc[d]
  /\ audit'[d] = audit[d]
  /\ d \in lapsed => d \in lapsed'
  /\ d \in lapsed' => d \in lapsed \/ doc[d].status = "SCANNING"

Taken(d) ==
  /\ Claimable(d)
  /\ \E w \in Executions : exec[w].pc = "claiming"
  /\ Now(d) \in Tokens /\ Now(d) \notin Remembered(d)
  /\ doc'[d] = [doc[d] EXCEPT !.status = "SCANNING",
                              !.attempts = doc[d].attempts + 1,
                              !.startedAt = Now(d)]
  /\ audit'[d] = audit[d]
  /\ d \notin lapsed'

Ended(d, status) ==
  /\ \E w \in Executions :
       /\ exec[w].pc \in Claimed /\ exec[w].doc = d /\ Holds(w)
       /\ status = "SCAN_FAILED" => exec[w].attempts >= MaxAttempts
       /\ status = "CLEAN" => exec[w].pc = "markingClean"
  /\ doc'[d] = [doc[d] EXCEPT !.status = status,
                              !.scannedAt = TRUE,
                              !.signature = (status = "INFECTED"),
                              !.sanitizedKey = (status = "CLEAN" /\ d \in Images)]
  /\ audit'[d] = Audited(audit[d], status)
  /\ d \notin lapsed'

Returned(d) ==
  /\ doc[d].status \in {"UPLOADED", "SCANNING"}
  /\ doc'[d] = [doc[d] EXCEPT !.status = "PENDING_SCAN", !.startedAt = None]
  /\ audit'[d] = audit[d]
  /\ d \notin lapsed'

GivenUp(d) ==
  /\ Exhausted(d)
  /\ doc'[d] = [doc[d] EXCEPT !.status = "SCAN_FAILED", !.scannedAt = TRUE]
  /\ audit'[d] = Audited(audit[d], "SCAN_FAILED")
  /\ d \notin lapsed'

Reopened(d) ==
  /\ Requests # {}
  /\ doc[d].status = "SCAN_FAILED"
  /\ doc'[d] = NewRow("PENDING_SCAN")
  /\ audit'[d] = [audit[d] EXCEPT !.reprocessed = audit[d].reprocessed + 1]
  /\ d \in lapsed' => d \in lapsed

RowStep(d) ==
  \/ Kept(d) \/ Taken(d) \/ Returned(d) \/ GivenUp(d) \/ Reopened(d)
  \/ \E status \in Results : Ended(d, status)

LEMMA ClaimOfARow ==
  ASSUME TypeInv, NEW e \in Docs, TakeClaim(e), UNCHANGED audit, NEW d \in Docs,
         NEW w \in Executions, exec[w].pc = "claiming"
  PROVE  Kept(d) \/ Taken(d)
  <1>1. CASE d = e
    <2>1. Now(d) \in Tokens /\ Now(d) \notin Remembered(d)
      BY <1>1, NowIsNew DEF TakeClaim
    <2>2. Taken(d)
      BY <1>1, <2>1 DEF TakeClaim, Taken, TypeInv, TypeOK
    <2>. QED  BY <2>2
  <1>2. CASE d # e
    BY <1>2 DEF TakeClaim, Kept, TypeInv, TypeOK
  <1>. QED  BY <1>1, <1>2

LEMMA FinishOfARow ==
  ASSUME TypeInv, NEW w \in Executions, NEW status \in Results, exec[w].pc \in Claimed,
         status = "SCAN_FAILED" => exec[w].attempts >= MaxAttempts,
         status = "CLEAN" => exec[w].pc = "markingClean",
         Finish(w, status), NEW d \in Docs
  PROVE  Kept(d) \/ Ended(d, status)
  <1>1. CASE d = exec[w].doc
    <2>1. doc'[d] = [doc[d] EXCEPT !.status = status,
                                   !.scannedAt = TRUE,
                                   !.signature = (status = "INFECTED"),
                                   !.sanitizedKey = (status = "CLEAN" /\ d \in Images)]
      BY <1>1 DEF Finish, TypeInv, TypeOK
    <2>2. audit'[d] = Audited(audit[d], status) /\ d \notin lapsed' /\ Holds(w)
      BY <1>1 DEF Finish, TypeInv, TypeOK
    <2>. QED  BY <1>1, <2>1, <2>2 DEF Ended
  <1>2. CASE d # exec[w].doc
    BY <1>2 DEF Finish, Kept, TypeInv, TypeOK
  <1>. QED  BY <1>1, <1>2

LEMMA SweepOfARow ==
  ASSUME TypeInv, Sweep, NEW d \in Docs
  PROVE  Kept(d) \/ Returned(d) \/ GivenUp(d)
  <1>1. PICK failed \in SUBSET {e \in Docs : Exhausted(e)},
             requeued \in SUBSET {e \in Docs : Requeueable(e)} :
          /\ doc' = [e \in Docs |->
               IF e \in failed
               THEN [doc[e] EXCEPT !.status = "SCAN_FAILED", !.scannedAt = TRUE]
               ELSE IF e \in requeued
               THEN [doc[e] EXCEPT !.status = "PENDING_SCAN", !.startedAt = None]
               ELSE doc[e]]
          /\ audit' = [e \in Docs |-> IF e \in failed
                                      THEN Audited(audit[e], "SCAN_FAILED")
                                      ELSE audit[e]]
          /\ lapsed' = lapsed \ (failed \cup requeued)
    BY Zenon DEF Sweep, Recover
  <1>2. CASE d \in failed
    BY <1>1, <1>2 DEF GivenUp
  <1>3. CASE d \notin failed /\ d \in requeued
    BY <1>1, <1>3 DEF Returned, Requeueable, Abandoned
  <1>4. CASE d \notin failed /\ d \notin requeued
    BY <1>1, <1>4 DEF Kept
  <1>. QED  BY <1>2, <1>3, <1>4

LEMMA RoundOfARow ==
  ASSUME TypeInv, NEW e \in Docs, NEW k, NewRound(e, k), UNCHANGED lapsed, NEW d \in Docs,
         Requests # {}
  PROVE  Kept(d) \/ Reopened(d)
  <1>1. CASE d = e
    BY <1>1 DEF NewRound, Reopened, TypeInv, TypeOK
  <1>2. CASE d # e
    BY <1>2 DEF NewRound, Kept, TypeInv, TypeOK
  <1>. QED  BY <1>1, <1>2

LEMMA StepOfARow ==
  ASSUME TypeInv, [Next]_vars, NEW d \in Docs
  PROVE  RowStep(d)
  <1>a. ASSUME UNCHANGED <<doc, lapsed, audit>>
        PROVE  Kept(d)
    BY <1>a DEF Kept
  <1>b. ASSUME NEW w \in Executions, exec[w].pc # "idle"
        PROVE  exec[w].doc \in Docs
    BY <1>b DEF TypeInv, HandlersOK
  <1>1. ASSUME NEW w \in Executions, Claim(w)
        PROVE  Kept(d) \/ Taken(d)
    <2>1. exec[w].doc \in Docs
      BY <1>1, <1>b DEF Claim
    <2>2. TakeClaim(exec[w].doc) \/ UNCHANGED <<doc, lapsed>>
      BY <1>1 DEF Claim
    <2>. QED  BY <1>1, <1>a, <2>1, <2>2, ClaimOfARow DEF Claim
  <1>2. ASSUME NEW w \in Executions, NEW pc \in Claimed, NEW status \in Results \ {"SCAN_FAILED"},
               status = "CLEAN" => pc = "markingClean", Mark(w, pc, status)
        PROVE  Kept(d) \/ Ended(d, status)
    BY <1>2, <1>a, FinishOfARow DEF Mark, NoWrite
  <1>3. ASSUME NEW w \in Executions, MarkFailed(w)
        PROVE  Kept(d) \/ Ended(d, "SCAN_FAILED")
    <2>1. exec[w].pc \in Claimed /\ "SCAN_FAILED" \in Results /\ exec[w].attempts >= MaxAttempts
      BY <1>3 DEF MarkFailed, Claimed, Results
    <2>. QED  BY <1>3, <1>a, <2>1, FinishOfARow DEF MarkFailed, NoWrite
  <1>4. ASSUME NEW w \in Executions, Release(w)
        PROVE  Kept(d) \/ Returned(d)
    <2>1. CASE UNCHANGED <<doc, lapsed>>
      BY <1>4, <1>a, <2>1 DEF Release
    <2>2. CASE /\ Holds(w)
               /\ doc' = [doc EXCEPT ![exec[w].doc] =
                            [@ EXCEPT !.status = "PENDING_SCAN", !.startedAt = None]]
               /\ lapsed' = lapsed \ {exec[w].doc}
      <3>1. CASE d = exec[w].doc
        BY <1>4, <2>2, <3>1 DEF Release, Returned, Holds, TypeInv, TypeOK
      <3>2. CASE d # exec[w].doc
        BY <1>4, <2>2, <3>2 DEF Release, Kept, TypeInv, TypeOK
      <3>. QED  BY <3>1, <3>2
    <2>. QED  BY <1>4, <2>1, <2>2 DEF Release
  <1>5. ASSUME NEW e \in Docs, LeaseExpires(e)
        PROVE  Kept(d)
    BY <1>5 DEF LeaseExpires, Kept
  <1>6. ASSUME NEW e \in Docs, NEW r \in Requests, Reprocess(e, r)
        PROVE  Kept(d) \/ Reopened(d)
    BY <1>6, <1>a, RoundOfARow DEF Reprocess
  <1>7. CASE Sweep
    BY <1>7, SweepOfARow DEF RowStep
  <1>8. ASSUME \/ \E w \in Executions :
                    \/ Treat(w) \/ StoreCopy(w) \/ RemoveCopy(w)
                    \/ Complete(w) \/ Reject(w) \/ Crash(w)
                    \/ \E e \in Docs, k \in Jobs : Deliver(w, e, k)
               \/ \E e \in Docs : \/ \E k \in Jobs : JobExpires(e, k)
                                  \/ \E r \in Requests : \/ RequestReprocess(e, r)
                                                         \/ SettleRequest(e, r)
               \/ UNCHANGED vars
        PROVE  Kept(d)
    BY <1>8, <1>a
    DEF Treat, StoreCopy, RemoveCopy, Complete, Reject, Crash, Deliver, JobExpires,
        RequestReprocess, SettleRequest, vars
  <1>9. "markingClean" \in Claimed /\ "markingInfected" \in Claimed
        /\ "CLEAN" \in Results \ {"SCAN_FAILED"} /\ "INFECTED" \in Results \ {"SCAN_FAILED"}
        /\ "SCAN_FAILED" \in Results
    BY DEF Claimed, Results
  <1>. QED
    BY <1>1, <1>2, <1>3, <1>4, <1>5, <1>6, <1>7, <1>8, <1>9
    DEF Next, Elsewhere, Handler, MarkClean, MarkInfected, RowStep

-----------------------------------------------------------------------------
(***************************************************************************)
(* What a step does to a handler with a claim: it keeps the claim, or it   *)
(* has just taken it.                                                      *)
(***************************************************************************)
KeepsClaim(w) ==
  /\ exec[w].pc \in Claimed
  /\ exec'[w].doc = exec[w].doc
  /\ exec'[w].token = exec[w].token
  /\ exec'[w].attempts = exec[w].attempts

TakesClaim(w) ==
  LET d == exec[w].doc
  IN  /\ d \in Docs
      /\ exec[w].pc = "claiming"
      /\ exec'[w].pc = "treating"
      /\ exec'[w].job = exec[w].job
      /\ exec'[w].doc = d
      /\ exec'[w].token = Now(d)
      /\ exec'[w].attempts = doc[d].attempts + 1
      /\ doc'[d].attempts = doc[d].attempts + 1
      /\ Now(d) \notin Remembered(d)
      /\ \A v \in Executions \ {w} : exec'[v] = exec[v]

LEMMA StepOfAHandler ==
  ASSUME TypeInv, [Next]_vars, NEW v \in Executions, exec'[v].pc \in Claimed
  PROVE  KeepsClaim(v) \/ TakesClaim(v)
  <1>a. /\ exec \in [Executions -> Exec]
        /\ \A w \in Executions : exec[w] \in Exec
    BY DEF TypeInv, TypeOK
  <1>b. ASSUME NEW w \in Executions, NEW pc \in Claimed, Goto(w, pc),
               exec[w].pc \in Claimed
        PROVE  KeepsClaim(v)
    BY <1>a, <1>b DEF Goto, KeepsClaim, Exec
  <1>c. ASSUME NEW w \in Executions, NEW pc \in {"skipped", "removing", "returning", "throwing"},
               Leave(w, pc) \/ Goto(w, pc)
        PROVE  KeepsClaim(v)
    <2>1. pc \notin Claimed
      BY DEF Claimed
    <2>2. CASE Leave(w, pc)
      <3>1. exec'[w] = [exec[w] EXCEPT !.pc = pc, !.attempts = 0, !.token = None]
        BY <1>a, <2>2 DEF Leave
      <3>2. v # w
        BY <1>a, <2>1, <3>1 DEF Exec
      <3>. QED  BY <1>a, <2>2, <3>2 DEF Leave, KeepsClaim
    <2>3. CASE Goto(w, pc)
      <3>1. exec'[w] = [exec[w] EXCEPT !.pc = pc]
        BY <1>a, <2>3 DEF Goto
      <3>2. v # w
        BY <1>a, <2>1, <3>1 DEF Exec
      <3>. QED  BY <1>a, <2>3, <3>2 DEF Goto, KeepsClaim
    <2>. QED  BY <1>c, <2>2, <2>3
  <1>d. ASSUME NEW w \in Executions, NEW e, exec' = [exec EXCEPT ![w] = e],
               e.pc \notin Claimed
        PROVE  KeepsClaim(v)
    BY <1>a, <1>d DEF KeepsClaim
  <1>e. ASSUME UNCHANGED exec
        PROVE  KeepsClaim(v)
    BY <1>e DEF KeepsClaim
  <1>1. ASSUME NEW w \in Executions, Claim(w)
        PROVE  KeepsClaim(v) \/ TakesClaim(v)
    <2> DEFINE d == exec[w].doc
    <2>1. CASE /\ TakeClaim(d)
               /\ exec' = [exec EXCEPT ![w] = [@ EXCEPT !.pc = "treating",
                                                       !.attempts = doc[d].attempts + 1,
                                                       !.token = Now(d)]]
      <3>1. CASE v = w
        <4>1. d \in Docs
          BY <1>1 DEF Claim, TypeInv, HandlersOK
        <4>2. Now(d) \notin Remembered(d)
          BY <2>1, NowIsNew DEF TakeClaim
        <4>3. doc'[d] = [doc[d] EXCEPT !.status = "SCANNING",
                                       !.attempts = doc[d].attempts + 1,
                                       !.startedAt = Now(d)]
          BY <2>1, <4>1 DEF TakeClaim, TypeInv, TypeOK
        <4>4. doc'[d].attempts = doc[d].attempts + 1
          BY <4>1, <4>3 DEF TypeInv, TypeOK, Row
        <4>5. exec'[w] = [exec[w] EXCEPT !.pc = "treating",
                                         !.attempts = doc[d].attempts + 1,
                                         !.token = Now(d)]
          BY <1>a, <2>1
        <4>6. /\ exec'[w].doc = d
              /\ exec'[w].token = Now(d)
              /\ exec'[w].attempts = doc[d].attempts + 1
              /\ exec'[w].job = exec[w].job
              /\ exec'[w].pc = "treating"
          BY <1>a, <4>5 DEF Exec
        <4>7. \A u \in Executions \ {w} : exec'[u] = exec[u]
          BY <1>a, <2>1
        <4>. QED  BY <1>1, <3>1, <4>1, <4>2, <4>4, <4>6, <4>7 DEF TakesClaim, Claim
      <3>2. CASE v # w
        BY <1>a, <2>1, <3>2 DEF KeepsClaim
      <3>. QED  BY <3>1, <3>2
    <2>2. CASE \E pc \in {"skipped", "throwing"} : Goto(w, pc)
      BY <1>c, <2>2
    <2>. QED  BY <1>1, <2>1, <2>2 DEF Claim
  <1>2. ASSUME NEW w \in Executions, Treat(w) \/ StoreCopy(w)
        PROVE  KeepsClaim(v)
    BY <1>2, <1>b DEF Treat, StoreCopy, Claimed
  <1>3. ASSUME NEW w \in Executions, NEW pc \in Claimed, NEW status, Mark(w, pc, status)
        PROVE  KeepsClaim(v)
    <2>1. "failing" \in Claimed
      BY DEF Claimed
    <2>. QED  BY <1>3, <1>b, <1>c, <2>1 DEF Mark
  <1>4. ASSUME NEW w \in Executions, MarkFailed(w) \/ RemoveCopy(w) \/ Release(w)
        PROVE  KeepsClaim(v)
    BY <1>4, <1>c DEF MarkFailed, RemoveCopy, Release
  <1>5. ASSUME NEW w \in Executions, Complete(w) \/ Reject(w) \/ Crash(w)
        PROVE  KeepsClaim(v)
    <2>1. IdleExec.pc \notin Claimed
      BY DEF IdleExec, Claimed
    <2>. QED  BY <1>5, <1>d, <2>1 DEF Complete, Reject, Crash
  <1>6. ASSUME NEW w \in Executions, NEW d \in Docs, NEW k \in Jobs, Deliver(w, d, k)
        PROVE  KeepsClaim(v)
    <2>1. [IdleExec EXCEPT !.pc = "claiming", !.doc = d, !.job = k].pc \notin Claimed
      BY DEF IdleExec, Claimed
    <2>. QED  BY <1>6, <1>d, <2>1 DEF Deliver
  <1>7. ASSUME NEW d \in Docs, NEW k \in Jobs, JobExpires(d, k)
        PROVE  KeepsClaim(v)
    <2>1. exec'[v] = exec[v] \/ exec'[v] = [exec[v] EXCEPT !.job = None]
      BY <1>7 DEF JobExpires
    <2>. QED  BY <1>a, <2>1 DEF KeepsClaim, Exec
  <1>8. ASSUME \/ \E d \in Docs : \/ LeaseExpires(d)
                                 \/ \E r \in Requests : \/ RequestReprocess(d, r)
                                                        \/ Reprocess(d, r)
                                                        \/ SettleRequest(d, r)
               \/ Sweep
               \/ UNCHANGED vars
        PROVE  KeepsClaim(v)
    BY <1>8, <1>e DEF LeaseExpires, RequestReprocess, Reprocess, SettleRequest, Sweep, Recover, vars
  <1>9. "markingClean" \in Claimed /\ "markingInfected" \in Claimed
    BY DEF Claimed
  <1>. QED
    BY <1>1, <1>2, <1>3, <1>4, <1>5, <1>6, <1>7, <1>8, <1>9
    DEF Next, Elsewhere, Handler, MarkClean, MarkInfected

-----------------------------------------------------------------------------
(***************************************************************************)
(* The inductive invariant.  The fencing of stale handlers rests on two    *)
(* facts the code never states: no two handlers remember the same claim,   *)
(* and the attempts that the holder of a claim remembers are still those   *)
(* of the row, because every later claim of the row takes a new token.     *)
(***************************************************************************)
DistinctTokens ==
  \A v, w \in Executions :
    /\ exec[v].pc \in Claimed
    /\ exec[w].pc \in Claimed
    /\ exec[v].doc = exec[w].doc
    /\ exec[v].token = exec[w].token
    => v = w

HolderAttempts ==
  \A w \in Executions :
    exec[w].pc \in Claimed /\ Holds(w) => exec[w].attempts = doc[exec[w].doc].attempts

RowInv(d) ==
  LET row == doc[d]
      log == audit[d]
  IN  /\ log.clean = (IF row.status = "CLEAN" THEN 1 ELSE 0)
      /\ log.infected = (IF row.status = "INFECTED" THEN 1 ELSE 0)
      /\ log.failed = log.reprocessed + (IF row.status = "SCAN_FAILED" THEN 1 ELSE 0)
      /\ row.scannedAt <=> row.status \in Results
      /\ row.signature <=> row.status = "INFECTED"
      /\ row.sanitizedKey <=> row.status = "CLEAN" /\ d \in Images
      /\ row.status \in {"UPLOADED", "PENDING_SCAN"} => row.startedAt = None
      /\ row.status = "SCANNING" => row.startedAt # None
      /\ d \in lapsed => row.status = "SCANNING"
      /\ row.status = "SCAN_FAILED" => row.attempts >= MaxAttempts

IInv == /\ TypeInv
        /\ DistinctTokens
        /\ HolderAttempts
        /\ \A d \in Docs : RowInv(d)

LEMMA SafetyInit == Init => IInv
  <1> SUFFICES ASSUME Init
               PROVE  IInv
      OBVIOUS
  <1>1. TypeInv
    BY TypeInit
  <1>2. \A w \in Executions : exec[w].pc \notin Claimed
    BY DEF Init, IdleExec, Claimed
  <1>3. ASSUME NEW d \in Docs
        PROVE  RowInv(d)
    <2>1. PICK status \in {"UPLOADED", "PENDING_SCAN"} : doc[d] = NewRow(status)
      BY DEF Init
    <2>2. audit[d] = NoAudit /\ lapsed = {}
      BY DEF Init
    <2>. QED  BY <2>1, <2>2 DEF RowInv, NewRow, NoAudit, Results
  <1>. QED  BY <1>1, <1>2, <1>3 DEF IInv, DistinctTokens, HolderAttempts

LEMMA DistinctTokensStep == IInv /\ [Next]_vars => DistinctTokens'
  <1> SUFFICES ASSUME IInv, [Next]_vars,
                      NEW v \in Executions, NEW w \in Executions,
                      exec'[v].pc \in Claimed, exec'[w].pc \in Claimed,
                      exec'[v].doc = exec'[w].doc, exec'[v].token = exec'[w].token
               PROVE  v = w
      BY DEF DistinctTokens
  <1>1. /\ KeepsClaim(v) \/ TakesClaim(v)
        /\ KeepsClaim(w) \/ TakesClaim(w)
    BY StepOfAHandler DEF IInv
  <1>2. CASE KeepsClaim(v) /\ KeepsClaim(w)
    BY <1>2 DEF KeepsClaim, IInv, DistinctTokens
  <1>3. ASSUME NEW x \in Executions, NEW y \in Executions, TakesClaim(x),
               KeepsClaim(y) \/ TakesClaim(y),
               exec'[x].doc = exec'[y].doc, exec'[x].token = exec'[y].token
        PROVE  x = y
    <2> SUFFICES ASSUME x # y
                 PROVE  FALSE
        OBVIOUS
    <2>1. exec'[y] = exec[y]
      BY <1>3 DEF TakesClaim
    <2>2. exec[y].token \in Remembered(exec[x].doc)
      BY DEF Remembered
    <2>. QED  BY <1>3, <2>1, <2>2 DEF TakesClaim
  <1>. QED  BY <1>1, <1>2, <1>3

\* Whoever still holds a claim after a step held it before, and the step left the row alone.
LEMMA ClaimKept ==
  ASSUME TypeInv, [Next]_vars, NEW w \in Executions, KeepsClaim(w), Holds(w)'
  PROVE  exec[w].doc \in Docs /\ Kept(exec[w].doc) /\ Holds(w)
  <1> DEFINE d == exec[w].doc
  <1>1. d \in Docs /\ exec'[w].doc = d
    <2>1. exec[w].pc # "idle"
      BY DEF KeepsClaim, Claimed
    <2>. QED  BY <2>1 DEF KeepsClaim, TypeInv, HandlersOK
  <1>2. doc'[d].status = "SCANNING" /\ doc'[d].startedAt = exec[w].token
    BY DEF KeepsClaim, Holds
  <1>3. doc[d] \in Row /\ RowStep(d)
    BY <1>1, StepOfARow DEF TypeInv, TypeOK
  <1>4. CASE Kept(d)
    BY <1>1, <1>2, <1>4 DEF Kept, Holds
  <1>5. CASE Taken(d)
    <2>1. doc'[d].startedAt = Now(d)
      BY <1>3, <1>5 DEF Taken, Row
    <2>2. exec[w].token \in Remembered(d)
      BY DEF Remembered
    <2>. QED  BY <1>2, <1>5, <2>1, <2>2 DEF Taken
  <1>6. CASE Returned(d)
    BY <1>2, <1>3, <1>6 DEF Returned, Row
  <1>7. CASE GivenUp(d)
    BY <1>2, <1>3, <1>7 DEF GivenUp, Row
  <1>8. CASE Reopened(d)
    BY <1>2, <1>8 DEF Reopened, NewRow
  <1>9. ASSUME NEW status \in Results, Ended(d, status)
        PROVE  FALSE
    BY <1>2, <1>3, <1>9 DEF Ended, Row, Results
  <1>. QED  BY <1>3, <1>4, <1>5, <1>6, <1>7, <1>8, <1>9 DEF RowStep

LEMMA HolderAttemptsStep == IInv /\ [Next]_vars => HolderAttempts'
  <1> SUFFICES ASSUME IInv, [Next]_vars, NEW w \in Executions,
                      exec'[w].pc \in Claimed, Holds(w)'
               PROVE  exec'[w].attempts = doc'[exec'[w].doc].attempts
      BY DEF HolderAttempts
  <1>1. KeepsClaim(w) \/ TakesClaim(w)
    BY StepOfAHandler DEF IInv
  <1>2. CASE TakesClaim(w)
    BY <1>2 DEF TakesClaim
  <1>3. CASE KeepsClaim(w)
    BY <1>3, ClaimKept DEF KeepsClaim, Kept, IInv, HolderAttempts
  <1>. QED  BY <1>1, <1>2, <1>3

LEMMA RowInvStep ==
  ASSUME IInv, [Next]_vars, NEW d \in Docs
  PROVE  RowInv(d)'
  <1> DEFINE row == doc[d]
             log == audit[d]
  <1>1. /\ row \in Row /\ log \in Audit /\ RowInv(d) /\ RowStep(d)
        /\ None \notin Tokens /\ MaxAttempts \in Nat
    BY StepOfARow, ScanAssumption DEF IInv, TypeInv, TypeOK
  <1>2. CASE Kept(d)
    BY <1>1, <1>2 DEF Kept, RowInv
  <1>3. CASE Taken(d)
    <2>1. row.status \in {"PENDING_SCAN", "SCANNING"}
      BY <1>3 DEF Taken, Claimable, Abandoned
    <2>2. /\ doc'[d].status = "SCANNING"
          /\ doc'[d].startedAt \in Tokens
          /\ doc'[d].scannedAt = row.scannedAt
          /\ doc'[d].signature = row.signature
          /\ doc'[d].sanitizedKey = row.sanitizedKey
      BY <1>1, <1>3 DEF Taken, Row
    <2>. QED  BY <1>1, <1>3, <2>1, <2>2 DEF Taken, RowInv, Results
  <1>4. CASE Returned(d)
    <2>1. /\ doc'[d].status = "PENDING_SCAN"
          /\ doc'[d].startedAt = None
          /\ doc'[d].scannedAt = row.scannedAt
          /\ doc'[d].signature = row.signature
          /\ doc'[d].sanitizedKey = row.sanitizedKey
      BY <1>1, <1>4 DEF Returned, Row
    <2>. QED  BY <1>1, <1>4, <2>1 DEF Returned, RowInv, Results
  <1>5. CASE GivenUp(d)
    <2>1. /\ doc'[d].status = "SCAN_FAILED"
          /\ doc'[d].attempts = row.attempts
          /\ doc'[d].scannedAt = TRUE
          /\ doc'[d].signature = row.signature
          /\ doc'[d].sanitizedKey = row.sanitizedKey
      BY <1>1, <1>5 DEF GivenUp, Row
    <2>2. row.status = "SCANNING" /\ row.attempts >= MaxAttempts
      BY <1>5 DEF GivenUp, Exhausted, Abandoned
    <2>3. /\ audit'[d].failed = log.failed + 1
          /\ audit'[d].clean = log.clean
          /\ audit'[d].infected = log.infected
          /\ audit'[d].reprocessed = log.reprocessed
      BY <1>1, <1>5 DEF GivenUp, Audited, Audit
    <2>4. log.failed \in Nat /\ log.reprocessed \in Nat
      BY <1>1 DEF Audit
    <2>5. d \notin lapsed'
      BY <1>5 DEF GivenUp
    <2>. QED  BY <1>1, <2>1, <2>2, <2>3, <2>4, <2>5 DEF RowInv, Results
  <1>6. CASE Reopened(d)
    <2>1. /\ doc'[d] = NewRow("PENDING_SCAN")
          /\ row.status = "SCAN_FAILED"
          /\ d \in lapsed' => d \in lapsed
      BY <1>6 DEF Reopened
    <2>2. /\ audit'[d].failed = log.failed
          /\ audit'[d].clean = log.clean
          /\ audit'[d].infected = log.infected
          /\ audit'[d].reprocessed = log.reprocessed + 1
      BY <1>1, <1>6 DEF Reopened, Audit
    <2>3. log.failed \in Nat /\ log.reprocessed \in Nat
      BY <1>1 DEF Audit
    <2>. QED  BY <1>1, <2>1, <2>2, <2>3 DEF RowInv, Results, NewRow
  <1>7. ASSUME NEW status \in Results, Ended(d, status)
        PROVE  RowInv(d)'
    <2>1. /\ doc'[d].status = status
          /\ doc'[d].attempts = row.attempts
          /\ doc'[d].scannedAt = TRUE
          /\ doc'[d].signature <=> status = "INFECTED"
          /\ doc'[d].sanitizedKey <=> status = "CLEAN" /\ d \in Images
      BY <1>1, <1>7 DEF Ended, Row
    <2>2. PICK w \in Executions :
            /\ exec[w].pc \in Claimed /\ exec[w].doc = d /\ Holds(w)
            /\ status = "SCAN_FAILED" => exec[w].attempts >= MaxAttempts
      BY <1>7 DEF Ended
    <2>3. /\ row.status = "SCANNING"
          /\ status = "SCAN_FAILED" => row.attempts >= MaxAttempts
      BY <2>2 DEF Holds, IInv, HolderAttempts
    <2>4. /\ audit'[d].failed = log.failed + (IF status = "SCAN_FAILED" THEN 1 ELSE 0)
          /\ audit'[d].clean = log.clean + (IF status = "CLEAN" THEN 1 ELSE 0)
          /\ audit'[d].infected = log.infected + (IF status = "INFECTED" THEN 1 ELSE 0)
          /\ audit'[d].reprocessed = log.reprocessed
      BY <1>1, <1>7 DEF Ended, Audited, Audit, Results
    <2>5. log.failed \in Nat /\ log.reprocessed \in Nat /\ d \notin lapsed'
      BY <1>1, <1>7 DEF Audit, Ended
    <2>6. /\ log.clean = 0
          /\ log.infected = 0
          /\ log.failed = log.reprocessed
      BY <1>1, <2>3, <2>5 DEF RowInv
    <2>7. CASE status = "CLEAN"
      BY <2>1, <2>4, <2>5, <2>6, <2>7 DEF RowInv, Results
    <2>8. CASE status = "INFECTED"
      BY <2>1, <2>4, <2>5, <2>6, <2>8 DEF RowInv, Results
    <2>9. CASE status = "SCAN_FAILED"
      BY <2>1, <2>3, <2>4, <2>5, <2>6, <2>9 DEF RowInv, Results
    <2>. QED  BY <2>7, <2>8, <2>9 DEF Results
  <1>. QED  BY <1>1, <1>2, <1>3, <1>4, <1>5, <1>6, <1>7 DEF RowStep

LEMMA SafetyStep == IInv /\ [Next]_vars => IInv'
  BY TypeStep, DistinctTokensStep, HolderAttemptsStep, RowInvStep DEF IInv

LEMMA Safety == Spec => []IInv
  BY SafetyInit, SafetyStep, PTL DEF Spec

-----------------------------------------------------------------------------
(***************************************************************************)
(* The theorems.                                                           *)
(***************************************************************************)

\* At any moment at most one handler can still write the result of a document: the token check
\* of finish() and release() fences every handler whose claim was taken over.
THEOREM OneHolderCorrect == Spec => []OneHolder
  <1>1. IInv => OneHolder
    BY DEF IInv, DistinctTokens, OneHolder, Holders
  <1>. QED  BY <1>1, Safety, PTL

\* The audit trail has exactly one event per result and per reopening (finish(), the sweep and
\* reprocessDocument() write them in the transaction that changes the row).
THEOREM AuditCorrect == Spec => []AuditMatchesStatus
  <1>1. IInv => AuditMatchesStatus
    BY DEF IInv, RowInv, AuditMatchesStatus
  <1>. QED  BY <1>1, Safety, PTL

\* The scan columns of a row agree with its status after any statement of the worker.
THEOREM ColumnsCorrect == Spec => []ColumnsMatchStatus
  <1>1. ASSUME IInv
        PROVE  ColumnsMatchStatus
    <2>1. ASSUME NEW d \in Docs
          PROVE  RowInv(d) /\ doc[d] \in Row
      BY <1>1 DEF IInv, TypeInv, TypeOK
    <2>. QED  BY <2>1 DEF RowInv, ColumnsMatchStatus
  <1>. QED  BY <1>1, Safety, PTL

\* SCAN_FAILED means that SCAN_MAX_ATTEMPTS treatments were started, although markFailed() decides
\* on the count that the claim returned.
THEOREM FailedCorrect == Spec => []FailedWhenExhausted
  <1>1. IInv => FailedWhenExhausted
    BY DEF IInv, RowInv, FailedWhenExhausted
  <1>. QED  BY <1>1, Safety, PTL

LEMMA LiveClaimStep ==
  ASSUME IInv, [Next]_vars, NEW d \in Docs,
         doc[d].status = "SCANNING", d \notin lapsed, doc'[d] # doc[d]
  PROVE  \E w \in Holders(d) : exec'[w] # exec[w]
  <1>a. /\ doc \in [Docs -> Row]
        /\ exec \in [Executions -> Exec]
        /\ \A w \in Executions : exec[w] \in Exec
    BY DEF IInv, TypeInv, TypeOK
  <1>b. ASSUME NEW w \in Executions, NEW pc, exec[w].pc # pc, Leave(w, pc)
        PROVE  exec'[w] # exec[w]
    <2>1. exec'[w] = [exec[w] EXCEPT !.pc = pc, !.attempts = 0, !.token = None]
      BY <1>a, <1>b DEF Leave
    <2>2. exec'[w].pc = pc
      BY <1>a, <2>1 DEF Exec
    <2>. QED  BY <1>b, <2>2
  <1>c. ASSUME NEW w \in Executions, NEW pc, exec[w].pc # pc, Goto(w, pc)
        PROVE  exec'[w] # exec[w]
    <2>1. exec'[w] = [exec[w] EXCEPT !.pc = pc]
      BY <1>a, <1>c DEF Goto
    <2>2. exec'[w].pc = pc
      BY <1>a, <2>1 DEF Exec
    <2>. QED  BY <1>c, <2>2
  <1>d. ASSUME NEW w \in Executions, NEW status, Finish(w, status), exec[w].pc \in Claimed
        PROVE  w \in Holders(d)
    <2>1. exec[w].doc = d
      BY <1>a, <1>d DEF Finish
    <2>. QED  BY <1>d, <2>1 DEF Finish, Holds, Holders
  <1>1. ASSUME NEW w \in Executions, Claim(w)
        PROVE  FALSE
    <2>1. TakeClaim(exec[w].doc)
      BY <1>1 DEF Claim
    <2>2. exec[w].doc = d
      BY <1>a, <2>1 DEF TakeClaim
    <2>. QED  BY <2>1, <2>2 DEF TakeClaim, Claimable, Abandoned
  <1>2. ASSUME NEW w \in Executions, NEW status,
               NEW pc \in {"markingClean", "markingInfected"}, Mark(w, pc, status)
        PROVE  w \in Holders(d) /\ exec'[w] # exec[w]
    <2>1. Finish(w, status) /\ exec[w].pc \in Claimed /\ exec[w].pc \notin {"returning", "failing"}
      BY <1>2 DEF Mark, NoWrite, Claimed
    <2>2. Leave(w, "returning") \/ Goto(w, "failing")
      BY <1>2 DEF Mark
    <2>. QED  BY <1>b, <1>c, <1>d, <2>1, <2>2
  <1>3. ASSUME NEW w \in Executions, MarkFailed(w)
        PROVE  w \in Holders(d) /\ exec'[w] # exec[w]
    <2>1. Finish(w, "SCAN_FAILED") /\ exec[w].pc = "failing" /\ exec[w].pc \in Claimed
      BY <1>3 DEF MarkFailed, NoWrite, Claimed
    <2>2. Leave(w, "removing") \/ Leave(w, "returning") \/ Leave(w, "throwing")
      BY <1>3 DEF MarkFailed
    <2>. QED  BY <1>b, <1>d, <2>1, <2>2
  <1>4. ASSUME NEW w \in Executions, Release(w)
        PROVE  w \in Holders(d) /\ exec'[w] # exec[w]
    <2>1. /\ Holds(w) /\ Leave(w, "throwing") /\ exec[w].pc = "failing"
          /\ doc' = [doc EXCEPT ![exec[w].doc] =
                       [@ EXCEPT !.status = "PENDING_SCAN", !.startedAt = None]]
      BY <1>4 DEF Release
    <2>2. exec[w].doc = d
      BY <1>a, <2>1
    <2>. QED  BY <1>b, <2>1, <2>2 DEF Holds, Holders, Claimed
  <1>5. ASSUME NEW e \in Docs, NEW r \in Requests, Reprocess(e, r)
        PROVE  FALSE
    <2>1. PICK k \in Jobs : NewRound(e, k)
      BY <1>5 DEF Reprocess
    <2>2. e = d
      BY <1>a, <2>1 DEF NewRound
    <2>. QED  BY <2>1, <2>2 DEF NewRound
  <1>6. ASSUME Sweep
        PROVE  FALSE
    <2>1. ~Exhausted(d) /\ ~Requeueable(d)
      BY DEF Exhausted, Requeueable, Abandoned
    <2>. QED  BY <1>6, <2>1, SweepOfARow DEF IInv, Kept, GivenUp, Sweep, Recover
  <1>7. ASSUME \/ \E w \in Executions :
                    \/ Treat(w) \/ StoreCopy(w) \/ RemoveCopy(w)
                    \/ Complete(w) \/ Reject(w) \/ Crash(w)
                    \/ \E e \in Docs, k \in Jobs : Deliver(w, e, k)
               \/ \E e \in Docs : \/ LeaseExpires(e)
                                  \/ \E k \in Jobs : JobExpires(e, k)
                                  \/ \E r \in Requests : \/ RequestReprocess(e, r)
                                                         \/ SettleRequest(e, r)
               \/ UNCHANGED vars
        PROVE  FALSE
    BY <1>7
    DEF Treat, StoreCopy, RemoveCopy, Complete, Reject, Crash, Deliver, LeaseExpires, JobExpires,
        RequestReprocess, SettleRequest, vars
  <1>. QED
    BY <1>1, <1>2, <1>3, <1>4, <1>5, <1>6, <1>7
    DEF Next, Elsewhere, Handler, MarkClean, MarkInfected

\* A claim within its lease is ended by the handler that holds it and by nobody else.
THEOREM LiveClaimCorrect == Spec => LiveClaimEndsByItsHolder
  <1> DEFINE P == \A d \in Docs :
                    /\ doc[d].status = "SCANNING"
                    /\ d \notin lapsed
                    /\ doc'[d] # doc[d]
                    => \E w \in Holders(d) : exec'[w] # exec[w]
  <1>1. IInv /\ [Next]_vars => [P]_vars
    BY LiveClaimStep
  <1>. QED  BY <1>1, Safety, PTL DEF Spec, LiveClaimEndsByItsHolder

-----------------------------------------------------------------------------
(***************************************************************************)
(* The treatment implements DocumentLifecycle.                             *)
(***************************************************************************)
LEMMA RefinementInit == Init => Lifecycle!Init
  <1> SUFFICES ASSUME Init
               PROVE  Lifecycle!Init
      OBVIOUS
  <1>1. ASSUME NEW d \in Docs
        PROVE  Outcome(doc[d].status) = "pending"
    <2>1. PICK status \in {"UPLOADED", "PENDING_SCAN"} : doc[d] = NewRow(status)
      BY DEF Init
    <2>. QED  BY <2>1 DEF NewRow, Outcome
  <1>. QED  BY <1>1 DEF Init, Outcomes, NoAudit, Lifecycle!Init

LEMMA FinishRefines ==
  ASSUME IInv, NEW w \in Executions, NEW status \in Results, exec[w].pc \in Claimed,
         Finish(w, status)
  PROVE  Lifecycle!Next
  <1> DEFINE d == exec[w].doc
             row == [doc[d] EXCEPT !.status = status,
                                   !.scannedAt = TRUE,
                                   !.signature = (status = "INFECTED"),
                                   !.sanitizedKey = (status = "CLEAN" /\ d \in Images)]
  <1>1. d \in Docs
    <2>1. exec[w].pc # "idle"
      BY DEF Claimed
    <2>. QED  BY <2>1 DEF IInv, TypeInv, HandlersOK
  <1>2. /\ doc \in [Docs -> Row] /\ audit \in [Docs -> Audit]
        /\ doc[d] \in Row
    BY <1>1 DEF IInv, TypeInv, TypeOK
  <1>3. doc[d].status = "SCANNING"
    BY DEF Finish, Holds
  <1>4. doc' = [doc EXCEPT ![d] = row] /\ audit' = [audit EXCEPT ![d] = Audited(audit[d], status)]
    BY DEF Finish
  <1>5. row.status = status
    BY <1>2 DEF Row
  <1> HIDE DEF d, row
  <1>6. Outcomes[d] = "pending" /\ Outcomes' = [Outcomes EXCEPT ![d] = Outcome(status)]
    <2>1. Outcome("SCANNING") = "pending"
      BY DEF Outcome
    <2>2. ASSUME NEW e \in Docs
          PROVE  Outcome(doc'[e].status) = IF e = d THEN Outcome(status)
                                                    ELSE Outcome(doc[e].status)
      BY <1>2, <1>4, <1>5
    <2>. QED  BY <1>1, <1>3, <2>1, <2>2 DEF Outcomes
  <1>7. CASE status = "CLEAN"
    <2>1. Outcome(status) = "clean" /\ Audited(audit[d], status) = [audit[d] EXCEPT !.clean = @ + 1]
      BY <1>7 DEF Outcome, Audited
    <2>2. Lifecycle!Pass(d)
      BY <1>4, <1>6, <2>1 DEF Lifecycle!Pass
    <2>. QED  BY <1>1, <2>2 DEF Lifecycle!Next, Elsewhere
  <1>8. CASE status = "INFECTED"
    <2>1. Outcome(status) = "infected"
          /\ Audited(audit[d], status) = [audit[d] EXCEPT !.infected = @ + 1]
      BY <1>8 DEF Outcome, Audited
    <2>2. Lifecycle!Condemn(d)
      BY <1>4, <1>6, <2>1 DEF Lifecycle!Condemn
    <2>. QED  BY <1>1, <2>2 DEF Lifecycle!Next, Elsewhere
  <1>9. CASE status = "SCAN_FAILED"
    <2>1. Outcome(status) = "failed"
          /\ Audited(audit[d], status) = [audit[d] EXCEPT !.failed = @ + 1]
      BY <1>9 DEF Outcome, Audited
    <2>2. Outcomes' = [e \in Docs |-> IF e \in {d} THEN "failed" ELSE Outcomes[e]]
      BY <1>6, <2>1 DEF Outcomes
    <2>3. audit' = [e \in Docs |-> IF e \in {d} THEN [audit[e] EXCEPT !.failed = @ + 1]
                                                ELSE audit[e]]
      BY <1>2, <1>4, <2>1
    <2>4. Lifecycle!GiveUp({d})
      BY <1>6, <2>2, <2>3 DEF Lifecycle!GiveUp
    <2>. QED  BY <1>1, <2>4 DEF Lifecycle!Next, Elsewhere
  <1>. QED  BY <1>7, <1>8, <1>9 DEF Results

LEMMA RoundRefines ==
  ASSUME IInv, NEW d \in Docs, NEW k, NewRound(d, k)
  PROVE  Lifecycle!Next
  <1>1. doc \in [Docs -> Row] /\ audit \in [Docs -> Audit]
    BY DEF IInv, TypeInv, TypeOK
  <1>2. /\ doc[d].status = "SCAN_FAILED"
        /\ doc' = [doc EXCEPT ![d] = NewRow("PENDING_SCAN")]
        /\ audit' = [audit EXCEPT ![d] =
                       [audit[d] EXCEPT !.reprocessed = audit[d].reprocessed + 1]]
    BY DEF NewRound
  <1>3. /\ NewRow("PENDING_SCAN").status = "PENDING_SCAN"
        /\ Outcome("PENDING_SCAN") = "pending"
        /\ Outcome("SCAN_FAILED") = "failed"
    BY DEF NewRow, Outcome
  <1>4. Outcomes[d] = "failed" /\ Outcomes' = [Outcomes EXCEPT ![d] = "pending"]
    <2>1. ASSUME NEW e \in Docs
          PROVE  Outcome(doc'[e].status) = IF e = d THEN "pending"
                                                    ELSE Outcome(doc[e].status)
      BY <1>1, <1>2, <1>3
    <2>. QED  BY <1>2, <1>3, <2>1 DEF Outcomes
  <1>5. Lifecycle!Reopen(d)
    BY <1>2, <1>4 DEF Lifecycle!Reopen
  <1>. QED  BY <1>5 DEF Lifecycle!Next, Elsewhere

LEMMA SweepRefines ==
  ASSUME IInv, Sweep
  PROVE  Lifecycle!Next
  <1>1. PICK failed \in SUBSET {e \in Docs : Exhausted(e)},
             requeued \in SUBSET {e \in Docs : Requeueable(e)} :
          /\ doc' = [e \in Docs |->
               IF e \in failed
               THEN [doc[e] EXCEPT !.status = "SCAN_FAILED", !.scannedAt = TRUE]
               ELSE IF e \in requeued
               THEN [doc[e] EXCEPT !.status = "PENDING_SCAN", !.startedAt = None]
               ELSE doc[e]]
          /\ audit' = [e \in Docs |-> IF e \in failed
                                      THEN Audited(audit[e], "SCAN_FAILED")
                                      ELSE audit[e]]
    BY Zenon DEF Sweep, Recover
  <1>2. ASSUME NEW e \in Docs
        PROVE  /\ e \in failed => Outcome(doc[e].status) = "pending"
               /\ Outcome(doc'[e].status) = IF e \in failed THEN "failed"
                                                            ELSE Outcome(doc[e].status)
               /\ audit'[e] = IF e \in failed THEN [audit[e] EXCEPT !.failed = @ + 1]
                                              ELSE audit[e]
    <2>1. doc[e] \in Row
      BY DEF IInv, TypeInv, TypeOK
    <2>2. CASE e \in failed
      <3>1. doc'[e].status = "SCAN_FAILED"
        BY <1>1, <2>1, <2>2 DEF Row
      <3>2. doc[e].status = "SCANNING"
        BY <2>2 DEF Exhausted, Abandoned
      <3>. QED  BY <1>1, <2>2, <3>1, <3>2 DEF Outcome, Audited
    <2>3. CASE e \notin failed /\ e \in requeued
      <3>1. doc'[e].status = "PENDING_SCAN"
        BY <1>1, <2>1, <2>3 DEF Row
      <3>2. doc[e].status \in {"UPLOADED", "SCANNING"}
        BY <2>3 DEF Requeueable, Abandoned
      <3>. QED  BY <1>1, <2>3, <3>1, <3>2 DEF Outcome
    <2>4. CASE e \notin failed /\ e \notin requeued
      BY <1>1, <2>4
    <2>. QED  BY <2>2, <2>3, <2>4
  <1>3. Lifecycle!GiveUp(failed)
    <2>1. Outcomes' = [e \in Docs |-> IF e \in failed THEN "failed" ELSE Outcomes[e]]
      BY <1>2 DEF Outcomes
    <2>2. audit' = [e \in Docs |-> IF e \in failed THEN [audit[e] EXCEPT !.failed = @ + 1]
                                                   ELSE audit[e]]
      BY <1>1, <1>2
    <2>3. \A e \in failed : Outcomes[e] = "pending"
      BY <1>2 DEF Outcomes
    <2>. QED  BY <2>1, <2>2, <2>3 DEF Lifecycle!GiveUp
  <1>. QED  BY <1>3 DEF Lifecycle!Next, Elsewhere

LEMMA RefinementStep ==
  IInv /\ [Next]_vars => [Lifecycle!Next]_<<Outcomes, audit>>
  <1> SUFFICES ASSUME IInv, [Next]_vars
               PROVE  Lifecycle!Next \/ UNCHANGED <<Outcomes, audit>>
      OBVIOUS
  <1>a. doc \in [Docs -> Row] /\ \A d \in Docs : doc[d] \in Row
    BY DEF IInv, TypeInv, TypeOK
  <1>b. ASSUME NEW d, NEW row,
               doc' = [doc EXCEPT ![d] = row], Outcome(row.status) = "pending",
               Outcome(doc[d].status) = "pending", UNCHANGED audit
        PROVE  UNCHANGED <<Outcomes, audit>>
    <2>1. ASSUME NEW e \in Docs
          PROVE  Outcome(doc'[e].status) = Outcome(doc[e].status)
      BY <1>a, <1>b
    <2>. QED  BY <1>b, <2>1 DEF Outcomes
  <1>c. ASSUME UNCHANGED <<doc, audit>>
        PROVE  UNCHANGED <<Outcomes, audit>>
    BY <1>c DEF Outcomes
  <1>d. ASSUME NEW w \in Executions, exec[w].pc \in Claimed \cup {"claiming"}
        PROVE  exec[w].doc \in Docs
    BY <1>d DEF IInv, TypeInv, HandlersOK, Claimed
  <1>e. \A s \in {"PENDING_SCAN", "SCANNING"} : Outcome(s) = "pending"
    BY DEF Outcome
  <1>1. ASSUME NEW w \in Executions, Claim(w)
        PROVE  UNCHANGED <<Outcomes, audit>>
    <2> DEFINE d == exec[w].doc
    <2>1. CASE TakeClaim(d)
      <3>1. d \in Docs
        BY <1>1, <1>d DEF Claim
      <3> DEFINE row == [doc[d] EXCEPT !.status = "SCANNING",
                                       !.attempts = doc[d].attempts + 1,
                                       !.startedAt = Now(d)]
      <3>2. row.status = "SCANNING"
        BY <1>a, <3>1 DEF Row
      <3>3. doc[d].status \in {"PENDING_SCAN", "SCANNING"} /\ doc' = [doc EXCEPT ![d] = row]
        BY <2>1 DEF TakeClaim, Claimable, Abandoned
      <3> HIDE DEF row
      <3>4. UNCHANGED audit
        BY <1>1 DEF Claim
      <3>. QED  BY <1>b, <1>e, <3>2, <3>3, <3>4
    <2>2. CASE UNCHANGED <<doc, lapsed>>
      BY <1>1, <1>c, <2>2 DEF Claim
    <2>. QED  BY <1>1, <2>1, <2>2 DEF Claim
  <1>2. ASSUME NEW w \in Executions, NEW pc \in Claimed, NEW status \in Results,
               Mark(w, pc, status)
        PROVE  Lifecycle!Next \/ UNCHANGED <<Outcomes, audit>>
    <2>1. exec[w].pc \in Claimed
      BY <1>2 DEF Mark
    <2>. QED  BY <1>2, <1>c, <2>1, FinishRefines DEF Mark, NoWrite
  <1>3. ASSUME NEW w \in Executions, MarkFailed(w)
        PROVE  Lifecycle!Next \/ UNCHANGED <<Outcomes, audit>>
    <2>1. exec[w].pc \in Claimed /\ "SCAN_FAILED" \in Results
      BY <1>3 DEF MarkFailed, Claimed, Results
    <2>. QED  BY <1>3, <1>c, <2>1, FinishRefines DEF MarkFailed, NoWrite
  <1>4. ASSUME NEW w \in Executions, Release(w)
        PROVE  UNCHANGED <<Outcomes, audit>>
    <2> DEFINE d == exec[w].doc
               row == [doc[d] EXCEPT !.status = "PENDING_SCAN", !.startedAt = None]
    <2>1. CASE Holds(w) /\ doc' = [doc EXCEPT ![d] = row]
      <3>1. d \in Docs
        BY <1>4, <1>d DEF Release, Claimed
      <3>2. row.status = "PENDING_SCAN"
        BY <1>a, <3>1 DEF Row
      <3>3. doc[d].status = "SCANNING" /\ UNCHANGED audit
        BY <1>4, <2>1 DEF Holds, Release
      <3> HIDE DEF row
      <3>. QED  BY <1>b, <1>e, <2>1, <3>2, <3>3
    <2>2. CASE UNCHANGED <<doc, lapsed>>
      BY <1>4, <1>c, <2>2 DEF Release
    <2>. QED  BY <1>4, <2>1, <2>2 DEF Release
  <1>5. ASSUME NEW d \in Docs, NEW r \in Requests, Reprocess(d, r)
        PROVE  Lifecycle!Next \/ UNCHANGED <<Outcomes, audit>>
    BY <1>5, <1>c, RoundRefines DEF Reprocess
  <1>6. CASE Sweep
    BY <1>6, SweepRefines
  <1>7. ASSUME \/ \E w \in Executions :
                    \/ Treat(w) \/ StoreCopy(w) \/ RemoveCopy(w)
                    \/ Complete(w) \/ Reject(w) \/ Crash(w)
                    \/ \E d \in Docs, k \in Jobs : Deliver(w, d, k)
               \/ \E d \in Docs : \/ LeaseExpires(d)
                                  \/ \E k \in Jobs : JobExpires(d, k)
                                  \/ \E r \in Requests : \/ RequestReprocess(d, r)
                                                         \/ SettleRequest(d, r)
               \/ UNCHANGED vars
        PROVE  UNCHANGED <<Outcomes, audit>>
    BY <1>7, <1>c
    DEF Treat, StoreCopy, RemoveCopy, Complete, Reject, Crash, Deliver, LeaseExpires, JobExpires,
        RequestReprocess, SettleRequest, vars
  <1>8. /\ "markingClean" \in Claimed /\ "markingInfected" \in Claimed
        /\ "CLEAN" \in Results /\ "INFECTED" \in Results
    BY DEF Claimed, Results
  <1>. QED
    BY <1>1, <1>2, <1>3, <1>4, <1>5, <1>6, <1>7, <1>8
    DEF Next, Elsewhere, Handler, MarkClean, MarkInfected

\* The statements of the worker, under any interleaving and any fault, do to the rows and to the
\* audit trail only what DocumentLifecycle allows.
THEOREM LifecycleImplemented == Spec => ImplementsLifecycle
  <1>. QED  BY RefinementInit, RefinementStep, Safety, PTL
            DEF Spec, ImplementsLifecycle, Lifecycle!Spec

-----------------------------------------------------------------------------
(***************************************************************************)
(* Jobs.  A handler has the job it was given for itself while it has it,   *)
(* so that neither its end nor an expiry ever wakes up a job that is       *)
(* finished: a job comes to life only where one is sent.                   *)
(***************************************************************************)
HasJob(w) ==
  exec[w].job # None => /\ exec[w].doc \in Docs
                        /\ job[exec[w].doc][exec[w].job].state = "active"

OneRunner ==
  \A v, w \in Executions :
    exec[v].job # None /\ exec[v].job = exec[w].job /\ exec[v].doc = exec[w].doc => v = w

JobsInv == (\A w \in Executions : HasJob(w)) /\ OneRunner

KeepsJob(w) == exec'[w].job = exec[w].job /\ exec'[w].doc = exec[w].doc
DropsJob(w) == exec'[w].job = None

LEMMA JobsInit == Init => JobsInv
  BY DEF Init, JobsInv, HasJob, OneRunner, IdleExec

\* Handlers keep or drop their jobs, and the jobs they keep stay active.
LEMMA JobsKept ==
  ASSUME JobsInv, \A w \in Executions : KeepsJob(w) \/ DropsJob(w),
         \A w \in Executions : exec[w].job # None /\ exec'[w].job # None =>
           job'[exec[w].doc][exec[w].job].state = "active"
  PROVE  JobsInv'
  <1>1. ASSUME NEW w \in Executions
        PROVE  HasJob(w)'
    BY <1>1 DEF JobsInv, HasJob, KeepsJob, DropsJob
  <1>2. OneRunner'
    BY DEF JobsInv, OneRunner, KeepsJob, DropsJob
  <1>. QED  BY <1>1, <1>2 DEF JobsInv

LEMMA ActiveJobsKept ==
  ASSUME JobsInv, \A w \in Executions : KeepsJob(w) \/ DropsJob(w),
         \A w \in Executions : exec[w].job # None =>
           job'[exec[w].doc][exec[w].job] = job[exec[w].doc][exec[w].job]
  PROVE  JobsInv'
  BY JobsKept DEF JobsInv, HasJob

\* A handler on its way through the treatment keeps its job.
LEMMA OnItsWay ==
  ASSUME TypeInv, NEW w \in Executions, NEW pc, Goto(w, pc) \/ Leave(w, pc)
  PROVE  \A v \in Executions : KeepsJob(v)
  <1>1. /\ exec \in [Executions -> Exec]
        /\ \A v \in Executions : exec[v] \in Exec
    BY DEF TypeInv, TypeOK
  <1>2. ASSUME NEW v \in Executions, v # w
        PROVE  exec'[v] = exec[v]
    BY <1>1, <1>2 DEF Goto, Leave
  <1>3. \/ exec'[w] = [exec[w] EXCEPT !.pc = pc]
        \/ exec'[w] = [exec[w] EXCEPT !.pc = pc, !.attempts = 0, !.token = None]
    BY <1>1 DEF Goto, Leave
  <1>4. KeepsJob(w)
    BY <1>1, <1>3 DEF KeepsJob, Exec
  <1>. QED  BY <1>2, <1>4 DEF KeepsJob

Works(w) == \/ Claim(w) \/ Treat(w) \/ StoreCopy(w) \/ MarkClean(w) \/ MarkInfected(w)
            \/ MarkFailed(w) \/ RemoveCopy(w) \/ Release(w)

LEMMA WorkKeepsJobs ==
  ASSUME TypeInv, NEW w \in Executions, Works(w)
  PROVE  job' = job /\ \A v \in Executions : KeepsJob(v)
  <1>1. CASE Claim(w)
    <2>1. CASE exec' = [exec EXCEPT ![w] = [@ EXCEPT !.pc = "treating",
                                                     !.attempts = doc[exec[w].doc].attempts + 1,
                                                     !.token = Now(exec[w].doc)]]
      <3>1. /\ exec \in [Executions -> Exec]
            /\ \A v \in Executions : exec[v] \in Exec
        BY DEF TypeInv, TypeOK
      <3>2. \A v \in Executions : v # w => exec'[v] = exec[v]
        BY <2>1, <3>1
      <3>3. exec'[w] = [exec[w] EXCEPT !.pc = "treating",
                                       !.attempts = doc[exec[w].doc].attempts + 1,
                                       !.token = Now(exec[w].doc)]
        BY <2>1, <3>1
      <3>4. KeepsJob(w)
        BY <3>1, <3>3 DEF KeepsJob, Exec
      <3>. QED  BY <1>1, <3>2, <3>4 DEF KeepsJob, Claim
    <2>2. CASE \E pc \in {"skipped", "throwing"} : Goto(w, pc)
      BY <1>1, <2>2, OnItsWay DEF Claim
    <2>. QED  BY <1>1, <2>1, <2>2 DEF Claim
  <1>2. CASE Treat(w) \/ StoreCopy(w)
    BY <1>2, OnItsWay DEF Treat, StoreCopy
  <1>3. CASE MarkClean(w) \/ MarkInfected(w)
    BY <1>3, OnItsWay DEF MarkClean, MarkInfected, Mark
  <1>4. CASE MarkFailed(w)
    BY <1>4, OnItsWay DEF MarkFailed
  <1>5. CASE RemoveCopy(w) \/ Release(w)
    BY <1>5, OnItsWay DEF RemoveCopy, Release
  <1>. QED  BY <1>1, <1>2, <1>3, <1>4, <1>5 DEF Works

\* What the sending of jobs does to the jobs of a document: only idle ones change.
LEMMA SweepOfJobs ==
  ASSUME TypeInv, Sweep, NEW d \in Docs
  PROVE  \/ job'[d] = job[d] /\ (doc'[d] = doc[d] \/ doc'[d].status = "SCAN_FAILED")
         \/ /\ Requeueable(d) /\ doc'[d].status = "PENDING_SCAN"
            /\ \E k \in Jobs : job[d][k].state = "idle" /\ job'[d] = [job[d] EXCEPT ![k] = NewJob]
  <1>1. PICK failed \in SUBSET {e \in Docs : Exhausted(e)},
             requeued \in SUBSET {e \in Docs : Requeueable(e)} :
          /\ doc' = [e \in Docs |->
               IF e \in failed
               THEN [doc[e] EXCEPT !.status = "SCAN_FAILED", !.scannedAt = TRUE]
               ELSE IF e \in requeued
               THEN [doc[e] EXCEPT !.status = "PENDING_SCAN", !.startedAt = None]
               ELSE doc[e]]
          /\ \E new \in [requeued -> Jobs] :
               /\ \A e \in requeued : job[e][new[e]].state = "idle"
               /\ job' = [e \in Docs |-> IF e \in requeued
                                         THEN [job[e] EXCEPT ![new[e]] = NewJob]
                                         ELSE job[e]]
    BY Zenon DEF Sweep, Recover
  <1>2. doc[d] \in Row
    BY DEF TypeInv, TypeOK
  <1>3. PICK new \in [requeued -> Jobs] :
          /\ \A e \in requeued : job[e][new[e]].state = "idle"
          /\ job' = [e \in Docs |-> IF e \in requeued
                                    THEN [job[e] EXCEPT ![new[e]] = NewJob]
                                    ELSE job[e]]
    BY <1>1
  <1>4. CASE d \in requeued
    <2>1. d \notin failed
      BY <1>2, <1>4, ScanAssumption DEF Exhausted, Requeueable, Abandoned, Row
    <2>2. doc'[d] = [doc[d] EXCEPT !.status = "PENDING_SCAN", !.startedAt = None]
      BY <1>1, <1>4, <2>1
    <2>3. doc'[d].status = "PENDING_SCAN"
      BY <1>2, <2>2 DEF Row
    <2>. QED  BY <1>3, <1>4, <2>3
  <1>5. CASE d \in failed /\ d \notin requeued
    <2>1. doc'[d] = [doc[d] EXCEPT !.status = "SCAN_FAILED", !.scannedAt = TRUE]
      BY <1>1, <1>5
    <2>2. doc'[d].status = "SCAN_FAILED"
      BY <1>2, <2>1 DEF Row
    <2>. QED  BY <1>3, <1>5, <2>2
  <1>6. CASE d \notin failed /\ d \notin requeued
    BY <1>1, <1>3, <1>6
  <1>. QED  BY <1>4, <1>5, <1>6

LEMMA JobsStep == TypeInv /\ JobsInv /\ [Next]_vars => JobsInv'
  <1> SUFFICES ASSUME TypeInv, JobsInv, [Next]_vars
               PROVE  JobsInv'
    OBVIOUS
  <1>a. /\ exec \in [Executions -> Exec]
        /\ \A w \in Executions : exec[w] \in Exec
        /\ job \in [Docs -> [Jobs -> Job]]
    BY DEF TypeInv, TypeOK
  <1>b. ASSUME UNCHANGED <<exec, job>>
        PROVE  JobsInv'
    BY <1>b DEF JobsInv, HasJob, OneRunner
  <1>c. ASSUME NEW w \in Executions, exec' = [exec EXCEPT ![w] = IdleExec]
        PROVE  /\ \A v \in Executions : KeepsJob(v) \/ DropsJob(v)
               /\ exec'[w].job = None
    BY <1>a, <1>c DEF KeepsJob, DropsJob, IdleExec
  <1>1. ASSUME NEW w \in Executions, Works(w)
        PROVE  JobsInv'
    BY <1>1, WorkKeepsJobs, ActiveJobsKept
  <1>2. ASSUME NEW w \in Executions, Complete(w) \/ Reject(w)
        PROVE  JobsInv'
    <2>1. exec' = [exec EXCEPT ![w] = IdleExec]
      BY <1>2 DEF Complete, Reject
    <2>2. CASE exec[w].job = None
      <3>1. job' = job
        BY <1>2, <2>2 DEF Complete, Reject
      <3>. QED  BY <1>c, <2>1, <3>1, ActiveJobsKept
    <2>3. CASE exec[w].job # None
      <3>1. PICK j : job' = [job EXCEPT ![exec[w].doc][exec[w].job] = j]
        BY <1>2, <2>3 DEF Complete, Reject
      <3>2. ASSUME NEW v \in Executions, exec[v].job # None, exec'[v].job # None
            PROVE  job'[exec[v].doc][exec[v].job] = job[exec[v].doc][exec[v].job]
        <4>1. v # w
          BY <1>c, <2>1, <3>2
        <4>2. exec[v].doc # exec[w].doc \/ exec[v].job # exec[w].job
          BY <2>3, <4>1 DEF JobsInv, OneRunner
        <4>3. exec[v].doc \in Docs /\ exec[w].doc \in Docs
          BY <2>3, <3>2 DEF JobsInv, HasJob
        <4>. QED  BY <1>a, <3>1, <4>2, <4>3
      <3>. QED  BY <1>c, <2>1, <3>2, JobsKept DEF JobsInv, HasJob
    <2>. QED  BY <2>2, <2>3
  <1>3. ASSUME NEW w \in Executions, Crash(w)
        PROVE  JobsInv'
    BY <1>3, <1>c, ActiveJobsKept DEF Crash
  <1>4. ASSUME NEW w \in Executions, NEW d \in Docs, NEW k \in Jobs, Deliver(w, d, k)
        PROVE  JobsInv'
    <2>1. /\ exec'[w].doc = d /\ exec'[w].job = k
          /\ \A v \in Executions : v # w => exec'[v] = exec[v]
      BY <1>a, <1>4 DEF Deliver, IdleExec
    <2>2. /\ job[d][k].state = "queued"
          /\ job'[d][k].state = "active"
          /\ \A e \in Docs, i \in Jobs : e # d \/ i # k => job'[e][i] = job[e][i]
      BY <1>a, <1>4 DEF Deliver
    <2>3. ASSUME NEW v \in Executions, v # w, exec[v].job # None
          PROVE  exec[v].doc # d \/ exec[v].job # k
      BY <2>2, <2>3 DEF JobsInv, HasJob
    <2>4. ASSUME NEW v \in Executions
          PROVE  HasJob(v)'
      <3>1. CASE v = w
        BY <2>1, <2>2, <3>1 DEF HasJob
      <3>2. CASE v # w /\ exec[v].job # None
        <4>1. exec[v].doc \in Docs /\ exec[v].job \in Jobs
          BY <1>a, <3>2 DEF JobsInv, HasJob, Exec
        <4>. QED  BY <2>1, <2>2, <2>3, <3>2, <4>1 DEF JobsInv, HasJob
      <3>3. CASE v # w /\ exec[v].job = None
        BY <2>1, <3>3 DEF HasJob
      <3>. QED  BY <3>1, <3>2, <3>3
    <2>5. OneRunner'
      BY <2>1, <2>3 DEF JobsInv, OneRunner
    <2>. QED  BY <2>4, <2>5 DEF JobsInv
  <1>5. ASSUME NEW d \in Docs, NEW k \in Jobs, JobExpires(d, k)
        PROVE  JobsInv'
    <2>1. ASSUME NEW v \in Executions
          PROVE  IF v \in Running(d, k) THEN DropsJob(v) ELSE KeepsJob(v)
      <3>1. exec'[v] = IF v \in Running(d, k) THEN [exec[v] EXCEPT !.job = None] ELSE exec[v]
        BY <1>5 DEF JobExpires
      <3>. QED  BY <1>a, <3>1 DEF DropsJob, KeepsJob, Exec
    <2>2. ASSUME NEW v \in Executions, exec[v].job # None, exec'[v].job # None
          PROVE  job'[exec[v].doc][exec[v].job] = job[exec[v].doc][exec[v].job]
      <3>1. exec[v].doc # d \/ exec[v].job # k
        BY <2>1, <2>2 DEF Running, DropsJob
      <3>2. exec[v].doc \in Docs
        BY <2>2 DEF JobsInv, HasJob
      <3>. QED  BY <1>a, <1>5, <3>1, <3>2 DEF JobExpires
    <2>3. \A v \in Executions : KeepsJob(v) \/ DropsJob(v)
      BY <2>1
    <2>. QED  BY <2>2, <2>3, JobsKept DEF JobsInv, HasJob
  <1>d. ASSUME UNCHANGED exec,
               \A d \in Docs, k \in Jobs : job[d][k].state # "idle" => job'[d][k] = job[d][k]
        PROVE  JobsInv'
    <2>1. \A w \in Executions : KeepsJob(w)
      BY <1>d DEF KeepsJob
    <2>2. ASSUME NEW w \in Executions, exec[w].job # None
          PROVE  job'[exec[w].doc][exec[w].job] = job[exec[w].doc][exec[w].job]
      <3>1. /\ exec[w].doc \in Docs /\ exec[w].job \in Jobs
            /\ job[exec[w].doc][exec[w].job].state = "active"
        BY <1>a, <2>2 DEF JobsInv, HasJob, Exec
      <3>. QED  BY <1>d, <3>1
    <2>. QED  BY <2>1, <2>2, ActiveJobsKept
  <1>6. ASSUME NEW d \in Docs, NEW r \in Requests, Reprocess(d, r)
        PROVE  JobsInv'
    <2>1. CASE \E k \in Jobs : NewRound(d, k)
      BY <1>a, <1>d, <1>6, <2>1 DEF NewRound, Reprocess
    <2>2. CASE UNCHANGED job
      BY <1>b, <1>6, <2>2 DEF Reprocess
    <2>. QED  BY <1>6, <2>1, <2>2 DEF Reprocess
  <1>7. CASE Sweep
    <2>1. ASSUME NEW d \in Docs, NEW k \in Jobs, job[d][k].state # "idle"
          PROVE  job'[d][k] = job[d][k]
      <3>1. CASE job'[d] = job[d]
        BY <3>1
      <3>2. ASSUME NEW i \in Jobs, job[d][i].state = "idle",
                   job'[d] = [job[d] EXCEPT ![i] = NewJob]
            PROVE  job'[d][k] = job[d][k]
        BY <1>a, <2>1, <3>2
      <3>. QED  BY <1>7, <3>1, <3>2, SweepOfJobs
    <2>. QED  BY <1>7, <1>d, <2>1 DEF Sweep, Recover
  <1>8. CASE \/ \E d \in Docs : \/ LeaseExpires(d)
                                \/ \E r \in Requests : \/ RequestReprocess(d, r)
                                                       \/ SettleRequest(d, r)
             \/ UNCHANGED vars
    BY <1>8, <1>b DEF LeaseExpires, RequestReprocess, SettleRequest, vars
  <1>. QED
    BY <1>1, <1>2, <1>3, <1>4, <1>5, <1>6, <1>7, <1>8 DEF Next, Elsewhere, Handler, Works

-----------------------------------------------------------------------------
(***************************************************************************)
(* A document that waits has a job: where handlers may outlive their jobs  *)
(* but no worker dies and no statement is lost, where a claim lapses       *)
(* before the job it came with expires, and for the rounds of treatment    *)
(* that the upload or the sweep started.                                   *)
(***************************************************************************)
OnlyOverruns ==
  /\ Faults \cap {"crash", "database", "longLease"} = {}
  /\ MaxAttempts <= RetryLimit + 1
  /\ Requests = {}

Starting == {"claiming", "skipped"}

PlaceHasJob ==
  \A w \in Executions : /\ exec[w].pc \in Starting => exec[w].job # None
                        /\ exec[w].pc = "idle" => exec[w].job = None

ActiveHasRunner ==
  \A d \in Docs, k \in Jobs : job[d][k].state = "active" => Running(d, k) # {}

\* A delivery costs the document an attempt, so a job never runs out of deliveries first.
Counted(d, k) ==
  /\ job[d][k].state = "queued" => job[d][k].deliveries <= doc[d].attempts
  /\ \A w \in Running(d, k) :
       /\ job[d][k].deliveries <= doc[d].attempts + 1
       /\ exec[w].pc \notin Starting => job[d][k].deliveries <= doc[d].attempts

\* A job that will bring a document back to PENDING_SCAN into treatment.
Promising(d, k) ==
  \/ job[d][k].state = "queued"
  \/ \E w \in Running(d, k) :
       \/ exec[w].pc = "claiming"
       \/ exec[w].pc = "throwing" /\ job[d][k].deliveries <= RetryLimit

Promised(d) == \E k \in Jobs : Promising(d, k)

\* A handler with the claim and without the job: the job was delivered to another, or will be.
Overran(w) == exec[w].pc \in Claimed /\ Holds(w) /\ exec[w].job = None

OverrunLapsed == \A w \in Executions : Overran(w) => exec[w].doc \in lapsed

OverrunPromised ==
  \A w \in Executions :
    Overran(w) /\ doc[exec[w].doc].attempts < MaxAttempts => Promised(exec[w].doc)

PendingPromised == \A d \in Docs : doc[d].status = "PENDING_SCAN" => Promised(d)

WaitInv ==
  /\ PlaceHasJob
  /\ ActiveHasRunner
  /\ \A d \in Docs, k \in Jobs : Counted(d, k)
  /\ OverrunLapsed
  /\ OverrunPromised
  /\ PendingPromised

LEMMA WaitInit == Init => WaitInv
  <1> SUFFICES ASSUME Init
               PROVE  WaitInv
      OBVIOUS
  <1>1. /\ \A w \in Executions : exec[w] = IdleExec
        /\ None \notin Docs
    BY ScanAssumption DEF Init
  <1>2. \A d \in Docs, k \in Jobs : Running(d, k) = {}
    BY <1>1 DEF Running, IdleExec
  <1>3. \A d \in Docs, k \in Jobs : job[d][k] \in {NewJob, IdleJob}
    BY DEF Init
  <1>4. \A d \in Docs : doc[d].attempts = 0
    BY DEF Init, NewRow
  <1>5. PlaceHasJob /\ \A w \in Executions : ~Overran(w)
    BY <1>1 DEF PlaceHasJob, Overran, Starting, IdleExec, Claimed
  <1>6. ActiveHasRunner /\ \A d \in Docs, k \in Jobs : Counted(d, k)
    BY <1>2, <1>3, <1>4 DEF ActiveHasRunner, Counted, NewJob, IdleJob
  <1>7. PendingPromised
    <2> SUFFICES ASSUME NEW d \in Docs, doc[d].status = "PENDING_SCAN"
                 PROVE  Promised(d)
        BY DEF PendingPromised
    <2>1. PICK legacy \in SUBSET Docs :
            /\ doc = [e \in Docs |->
                        NewRow(IF e \in legacy THEN "UPLOADED" ELSE "PENDING_SCAN")]
            /\ \E first \in Jobs :
                 job = [e \in Docs |-> [k \in Jobs |->
                          IF k = first /\ e \notin legacy THEN NewJob ELSE IdleJob]]
      BY Zenon DEF Init
    <2>2. d \notin legacy
      BY <2>1 DEF NewRow
    <2>3. PICK first \in Jobs : job[d][first] = NewJob
      BY <2>1, <2>2
    <2>. QED  BY <2>3 DEF Promised, Promising, NewJob
  <1>. QED  BY <1>5, <1>6, <1>7 DEF WaitInv, OverrunLapsed, OverrunPromised

(***************************************************************************)
(* How a handler that works moves, without faults of the database.         *)
(***************************************************************************)
Skips(w) ==
  /\ exec[w].pc = "claiming" /\ exec'[w].pc = "skipped"
  /\ ~Claimable(exec[w].doc)
  /\ UNCHANGED doc

Claims(w) ==
  /\ exec[w].pc = "claiming" /\ exec'[w].pc = "treating"
  /\ TakeClaim(exec[w].doc)

Proceeds(w) ==
  /\ exec[w].pc \in Claimed \cup {"removing"}
  /\ exec'[w].pc \in Claimed \cup {"removing", "returning"}
  /\ \A d \in Docs : doc'[d] = doc[d] \/ doc'[d].status \in Results

Releases(w) ==
  /\ exec[w].pc = "failing" /\ exec'[w].pc = "throwing"
  /\ exec[w].attempts < MaxAttempts
  /\ \A d \in Docs : doc'[d] = doc[d] \/ (exec[w].doc = d /\ Holds(w))

LEMMA WorkMoves ==
  ASSUME TypeInv, OnlyOverruns, NEW w \in Executions, Works(w)
  PROVE  /\ Skips(w) \/ Claims(w) \/ Proceeds(w) \/ Releases(w)
         /\ \A v \in Executions : v # w => exec'[v] = exec[v]
  <1>a. /\ exec \in [Executions -> Exec] /\ exec[w] \in Exec
        /\ doc \in [Docs -> Row] /\ \A d \in Docs : doc[d] \in Row
        /\ "database" \notin Faults
    BY DEF TypeInv, TypeOK, OnlyOverruns
  <1>b. ASSUME NEW pc, Goto(w, pc)
        PROVE  exec'[w].pc = pc /\ \A v \in Executions : v # w => exec'[v] = exec[v]
    <2>1. exec'[w] = [exec[w] EXCEPT !.pc = pc]
      BY <1>a, <1>b DEF Goto
    <2>2. exec'[w].pc = pc
      BY <1>a, <2>1 DEF Exec
    <2>. QED  BY <1>a, <1>b, <2>2 DEF Goto
  <1>c. ASSUME NEW pc, Leave(w, pc)
        PROVE  exec'[w].pc = pc /\ \A v \in Executions : v # w => exec'[v] = exec[v]
    <2>1. exec'[w] = [exec[w] EXCEPT !.pc = pc, !.attempts = 0, !.token = None]
      BY <1>a, <1>c DEF Leave
    <2>2. exec'[w].pc = pc
      BY <1>a, <2>1 DEF Exec
    <2>. QED  BY <1>a, <1>c, <2>2 DEF Leave
  <1>d. ASSUME NEW status \in Results, Finish(w, status) \/ NoWrite
        PROVE  \A d \in Docs : doc'[d] = doc[d] \/ doc'[d].status \in Results
    <2>1. CASE Finish(w, status)
      BY <1>a, <2>1 DEF Finish, Row
    <2>. QED  BY <1>d, <2>1 DEF NoWrite
  <1>1. CASE Claim(w)
    <2>1. CASE ~Claimable(exec[w].doc) /\ Goto(w, "skipped") /\ UNCHANGED <<doc, lapsed>>
      BY <1>1, <1>b, <2>1 DEF Claim, Skips
    <2>2. CASE /\ TakeClaim(exec[w].doc)
               /\ exec' = [exec EXCEPT ![w] = [@ EXCEPT !.pc = "treating",
                                                       !.attempts = doc[exec[w].doc].attempts + 1,
                                                       !.token = Now(exec[w].doc)]]
      <3>1. exec'[w] = [exec[w] EXCEPT !.pc = "treating",
                                       !.attempts = doc[exec[w].doc].attempts + 1,
                                       !.token = Now(exec[w].doc)]
        BY <1>a, <2>2
      <3>2. exec'[w].pc = "treating"
        BY <1>a, <3>1 DEF Exec
      <3>3. \A v \in Executions : v # w => exec'[v] = exec[v]
        BY <1>a, <2>2
      <3>. QED  BY <1>1, <2>2, <3>2, <3>3 DEF Claim, Claims
    <2>. QED  BY <1>a, <1>1, <2>1, <2>2 DEF Claim
  <1>2. CASE Treat(w) \/ StoreCopy(w)
    BY <1>2, <1>b DEF Treat, StoreCopy, Proceeds, Claimed
  <1>3. CASE MarkClean(w) \/ MarkInfected(w)
    <2>1. PICK pc \in {"markingClean", "markingInfected"}, status \in Results : Mark(w, pc, status)
      BY <1>3 DEF MarkClean, MarkInfected, Results
    <2>2. Leave(w, "returning") /\ (Finish(w, status) \/ NoWrite) /\ exec[w].pc = pc
      BY <1>a, <2>1 DEF Mark
    <2>. QED  BY <1>c, <1>d, <2>2 DEF Proceeds, Claimed
  <1>4. CASE MarkFailed(w)
    <2>1. /\ Leave(w, "returning") \/ Leave(w, "removing")
          /\ Finish(w, "SCAN_FAILED") \/ NoWrite
          /\ exec[w].pc = "failing"
          /\ "SCAN_FAILED" \in Results
      BY <1>a, <1>4 DEF MarkFailed, Results
    <2>. QED  BY <1>c, <1>d, <2>1 DEF Proceeds, Claimed
  <1>5. CASE RemoveCopy(w)
    BY <1>5, <1>c DEF RemoveCopy, Proceeds
  <1>6. CASE Release(w)
    <2>1. \A d \in Docs : doc'[d] = doc[d] \/ (exec[w].doc = d /\ Holds(w))
      BY <1>a, <1>6 DEF Release
    <2>. QED  BY <1>6, <1>c, <2>1 DEF Release, Releases
  <1>. QED  BY <1>1, <1>2, <1>3, <1>4, <1>5, <1>6 DEF Works

(***************************************************************************)
(* What the steps of pg-boss and of the sweep do to handlers and jobs.     *)
(***************************************************************************)
LEMMA EndsOfAHandler ==
  ASSUME TypeInv, JobsInv, NEW w \in Executions, Complete(w) \/ Reject(w)
  PROVE  /\ exec[w].pc \in {"skipped", "returning", "throwing"}
         /\ exec'[w] = IdleExec
         /\ \A v \in Executions : v # w => exec'[v] = exec[v]
         /\ \A d \in Docs, k \in Jobs :
              IF w \in Running(d, k)
              THEN /\ job[d][k].state = "active"
                   /\ \A v \in Running(d, k) : v = w
                   /\ job'[d][k] = IF exec[w].pc = "throwing" THEN Refused(job[d][k])
                                                              ELSE IdleJob
              ELSE job'[d][k] = job[d][k]
         /\ UNCHANGED <<doc, lapsed>>
  <1>1. exec \in [Executions -> Exec] /\ job \in [Docs -> [Jobs -> Job]] /\ None \notin Jobs
    BY ScanAssumption DEF TypeInv, TypeOK
  <1>2. /\ exec[w].pc \in {"skipped", "returning", "throwing"}
        /\ exec' = [exec EXCEPT ![w] = IdleExec]
        /\ UNCHANGED <<doc, lapsed>>
    BY DEF Complete, Reject
  <1>3. ASSUME NEW d \in Docs, NEW k \in Jobs
        PROVE  IF w \in Running(d, k)
               THEN /\ job[d][k].state = "active"
                    /\ \A v \in Running(d, k) : v = w
                    /\ job'[d][k] = IF exec[w].pc = "throwing" THEN Refused(job[d][k])
                                                               ELSE IdleJob
               ELSE job'[d][k] = job[d][k]
    <2>1. CASE w \in Running(d, k)
      <3>1. exec[w].doc = d /\ exec[w].job = k /\ exec[w].job # None
        BY <1>1, <2>1 DEF Running
      <3>2. job[d][k].state = "active" /\ \A v \in Running(d, k) : v = w
        BY <3>1 DEF JobsInv, HasJob, OneRunner, Running
      <3>3. \A j : job' = [job EXCEPT ![d][k] = j] => job'[d][k] = j
        BY <1>1
      <3>4. \/ exec[w].pc = "throwing" /\ job' = [job EXCEPT ![d][k] = Refused(job[d][k])]
            \/ exec[w].pc # "throwing" /\ job' = [job EXCEPT ![d][k] = IdleJob]
        BY <3>1 DEF Complete, Reject
      <3>5. job'[d][k] = IF exec[w].pc = "throwing" THEN Refused(job[d][k]) ELSE IdleJob
        BY <3>3, <3>4
      <3>. QED  BY <2>1, <3>2, <3>5
    <2>2. CASE w \notin Running(d, k)
      <3>1. exec[w].doc # d \/ exec[w].job # k
        BY <2>2 DEF Running
      <3>2. ASSUME NEW j, job' = [job EXCEPT ![exec[w].doc][exec[w].job] = j]
            PROVE  job'[d][k] = job[d][k]
        BY <1>1, <3>1, <3>2
      <3>3. job'[d][k] = job[d][k]
        BY <3>2 DEF Complete, Reject
      <3>. QED  BY <2>2, <3>3
    <2>. QED  BY <2>1, <2>2
  <1>. QED  BY <1>1, <1>2, <1>3

LEMMA DeliveryOfAJob ==
  ASSUME TypeInv, NEW w \in Executions, NEW d \in Docs, NEW k \in Jobs, Deliver(w, d, k)
  PROVE  /\ exec[w].pc = "idle"
         /\ exec'[w].pc = "claiming" /\ exec'[w].doc = d /\ exec'[w].job = k
         /\ \A v \in Executions : v # w => exec'[v] = exec[v]
         /\ job[d][k].state = "queued"
         /\ job'[d][k] = [state |-> "active", deliveries |-> job[d][k].deliveries + 1]
         /\ \A e \in Docs, i \in Jobs : e # d \/ i # k => job'[e][i] = job[e][i]
         /\ UNCHANGED <<doc, lapsed>>
  BY DEF Deliver, TypeInv, TypeOK, IdleExec

LEMMA ExpiryOfAJob ==
  ASSUME TypeInv, OnlyOverruns, NEW d \in Docs, NEW k \in Jobs, JobExpires(d, k)
  PROVE  /\ job[d][k].state = "active"
         /\ job'[d][k] = Refused(job[d][k])
         /\ \A e \in Docs, i \in Jobs : e # d \/ i # k => job'[e][i] = job[e][i]
         /\ \A w \in Executions : w \notin Running(d, k) => exec'[w] = exec[w]
         /\ \A w \in Running(d, k) :
              /\ exec'[w].job = None
              /\ exec'[w].pc = exec[w].pc
              /\ exec[w].pc \notin Starting
              /\ exec[w].pc \in Claimed /\ Holds(w) => d \in lapsed
         /\ UNCHANGED <<doc, lapsed>>
  <1>1. /\ exec \in [Executions -> Exec] /\ job \in [Docs -> [Jobs -> Job]]
        /\ \A w \in Executions : exec[w] \in Exec
    BY DEF TypeInv, TypeOK
  <1>2. ASSUME NEW w \in Running(d, k)
        PROVE  /\ exec'[w].job = None
               /\ exec'[w].pc = exec[w].pc
               /\ exec[w].pc \notin Starting
               /\ exec[w].pc \in Claimed /\ Holds(w) => d \in lapsed
    <2>1. w \in Executions /\ exec[w].doc = d /\ MayOutliveJob(w)
      BY DEF Running, JobExpires
    <2>2. exec'[w] = [exec[w] EXCEPT !.job = None]
      BY <2>1 DEF JobExpires
    <2>3. exec'[w].job = None /\ exec'[w].pc = exec[w].pc
      BY <1>1, <2>1, <2>2 DEF Exec
    <2>4. exec[w].pc \notin Starting
      BY <2>1 DEF MayOutliveJob, OnlyOverruns, Starting
    <2>5. exec[w].pc \in Claimed /\ Holds(w) => d \in lapsed
      BY <2>1 DEF MayOutliveJob, OnlyOverruns, Holds, Holders
    <2>. QED  BY <2>3, <2>4, <2>5
  <1>. QED  BY <1>1, <1>2 DEF JobExpires

LEMMA JobsOfASweep ==
  ASSUME TypeInv, Sweep, NEW d \in Docs, NEW k \in Jobs
  PROVE  job'[d][k] = job[d][k] \/ (job[d][k].state = "idle" /\ job'[d][k] = NewJob)
  <1>1. job[d] \in [Jobs -> Job]
    BY DEF TypeInv, TypeOK
  <1>2. CASE job'[d] = job[d]
    BY <1>2
  <1>3. CASE \E i \in Jobs : job[d][i].state = "idle" /\ job'[d] = [job[d] EXCEPT ![i] = NewJob]
    BY <1>1, <1>3
  <1>. QED  BY <1>2, <1>3, SweepOfJobs

\* What may happen where nothing but overruns goes wrong.
LEMMA StepsLeft ==
  ASSUME OnlyOverruns, [Next]_vars
  PROVE  \/ \E w \in Executions : Works(w) \/ Complete(w) \/ Reject(w)
         \/ \E w \in Executions, d \in Docs, k \in Jobs : Deliver(w, d, k)
         \/ \E d \in Docs, k \in Jobs : JobExpires(d, k)
         \/ Sweep
         \/ UNCHANGED <<doc, job, exec>>
  <1>1. Requests = {} /\ "crash" \notin Faults
    BY DEF OnlyOverruns
  <1>. QED  BY <1>1 DEF Next, Elsewhere, Handler, Works, Crash, LeaseExpires, vars

\* Attempts are never taken back, and a claim adds one.
LEMMA AttemptsGrow ==
  ASSUME TypeInv, OnlyOverruns, [Next]_vars, NEW d \in Docs
  PROVE  /\ doc[d].attempts \in Nat /\ doc'[d].attempts \in Nat
         /\ doc'[d].attempts >= doc[d].attempts
         /\ \A w \in Executions : Claims(w) /\ exec[w].doc = d =>
              doc'[d].attempts = doc[d].attempts + 1
  <1>1. doc[d] \in Row /\ RowStep(d) /\ Requests = {}
    BY StepOfARow DEF TypeInv, TypeOK, OnlyOverruns
  <1>2. \/ doc'[d].attempts = doc[d].attempts
        \/ doc'[d].attempts = doc[d].attempts + 1
    BY <1>1 DEF RowStep, Kept, Taken, Returned, GivenUp, Reopened, Ended, Row
  <1>3. ASSUME NEW w \in Executions, Claims(w), exec[w].doc = d
        PROVE  doc'[d].attempts = doc[d].attempts + 1
    <2>1. doc'[d] = [doc[d] EXCEPT !.status = "SCANNING",
                                   !.attempts = doc[d].attempts + 1,
                                   !.startedAt = Now(d)]
      BY <1>3 DEF Claims, TakeClaim, TypeInv, TypeOK
    <2>. QED  BY <1>1, <2>1 DEF Row
  <1>4. doc[d].attempts \in Nat
    BY <1>1 DEF Row
  <1>. QED  BY <1>2, <1>3, <1>4

(***************************************************************************)
(* The invariant, part by part.                                            *)
(***************************************************************************)
LEMMA WorkersRun ==
  ASSUME TypeInv, NEW w \in Executions, Works(w), NEW d \in Docs, NEW k \in Jobs
  PROVE  job'[d][k] = job[d][k] /\ Running(d, k)' = Running(d, k)
  BY WorkKeepsJobs DEF Running, KeepsJob

LEMMA PlaceHasJobStep ==
  ASSUME TypeInv, JobsInv, WaitInv, OnlyOverruns, [Next]_vars
  PROVE  PlaceHasJob'
  <1> DEFINE Placed(v) == /\ exec[v].pc \in Starting => exec[v].job # None
                          /\ exec[v].pc = "idle" => exec[v].job = None
  <1>a. \A v \in Executions : Placed(v)
    BY DEF WaitInv, PlaceHasJob
  <1>1. ASSUME NEW w \in Executions, Works(w), NEW v \in Executions
        PROVE  Placed(v)'
    <2>1. CASE v # w
      BY <1>1, <1>a, <2>1, WorkMoves
    <2>2. CASE v = w
      <3>1. KeepsJob(w) /\ (Skips(w) \/ Claims(w) \/ Proceeds(w) \/ Releases(w))
        BY <1>1, WorkMoves, WorkKeepsJobs
      <3>. QED  BY <1>a, <2>2, <3>1
                DEF KeepsJob, Skips, Claims, Proceeds, Releases, Claimed, Starting
    <2>. QED  BY <2>1, <2>2
  <1>2. ASSUME NEW w \in Executions, Complete(w) \/ Reject(w), NEW v \in Executions
        PROVE  Placed(v)'
    <2>1. CASE v # w
      BY <1>2, <1>a, <2>1, EndsOfAHandler
    <2>2. CASE v = w
      BY <1>2, <2>2, EndsOfAHandler DEF IdleExec, Starting
    <2>. QED  BY <2>1, <2>2
  <1>3. ASSUME NEW w \in Executions, NEW d \in Docs, NEW k \in Jobs, Deliver(w, d, k),
               NEW v \in Executions
        PROVE  Placed(v)'
    <2>1. /\ exec'[w].pc = "claiming" /\ exec'[w].job = k
          /\ \A u \in Executions : u # w => exec'[u] = exec[u]
      BY <1>3, DeliveryOfAJob
    <2>. QED  BY <1>a, <2>1, ScanAssumption
  <1>4. ASSUME NEW d \in Docs, NEW k \in Jobs, JobExpires(d, k), NEW v \in Executions
        PROVE  Placed(v)'
    <2>1. CASE v \in Running(d, k)
      BY <1>4, <2>1, ExpiryOfAJob
    <2>2. CASE v \notin Running(d, k)
      BY <1>4, <1>a, <2>2, ExpiryOfAJob
    <2>. QED  BY <2>1, <2>2
  <1>5. ASSUME UNCHANGED exec, NEW v \in Executions
        PROVE  Placed(v)'
    BY <1>5, <1>a
  <1>6. \A v \in Executions : Placed(v)'
    BY <1>1, <1>2, <1>3, <1>4, <1>5, StepsLeft DEF Sweep, Recover
  <1>. QED  BY <1>6 DEF PlaceHasJob

LEMMA ActiveHasRunnerStep ==
  ASSUME TypeInv, JobsInv, WaitInv, OnlyOverruns, [Next]_vars
  PROVE  ActiveHasRunner'
  <1> SUFFICES ASSUME NEW d \in Docs, NEW k \in Jobs, job'[d][k].state = "active"
               PROVE  Running(d, k)' # {}
      BY DEF ActiveHasRunner
  <1>a. job[d][k].state = "active" => Running(d, k) # {}
    BY DEF WaitInv, ActiveHasRunner
  <1>b. ASSUME NEW w \in Executions, w \in Running(d, k), exec'[w] = exec[w]
        PROVE  Running(d, k)' # {}
    BY <1>b DEF Running
  <1>c. job[d][k] \in Job
    BY DEF TypeInv, TypeOK
  <1>d. Refused(job[d][k]).state # "active" /\ NewJob.state # "active" /\ IdleJob.state # "active"
    BY <1>c DEF Refused, IdleJob, NewJob, Job
  <1>1. ASSUME NEW w \in Executions, Works(w)
        PROVE  Running(d, k)' # {}
    BY <1>1, <1>a, WorkersRun
  <1>2. ASSUME NEW w \in Executions, Complete(w) \/ Reject(w)
        PROVE  Running(d, k)' # {}
    <2>1. w \notin Running(d, k) /\ job'[d][k] = job[d][k]
      BY <1>2, <1>d, EndsOfAHandler
    <2>2. PICK v \in Executions : v \in Running(d, k)
      BY <1>a, <2>1 DEF Running
    <2>3. exec'[v] = exec[v]
      BY <1>2, <2>1, <2>2, EndsOfAHandler
    <2>. QED  BY <1>b, <2>2, <2>3
  <1>3. ASSUME NEW w \in Executions, NEW e \in Docs, NEW i \in Jobs, Deliver(w, e, i)
        PROVE  Running(d, k)' # {}
    <2>0. /\ exec[w].pc = "idle"
          /\ exec'[w].pc = "claiming" /\ exec'[w].doc = e /\ exec'[w].job = i
          /\ \A v \in Executions : v # w => exec'[v] = exec[v]
          /\ job[e][i].state = "queued"
          /\ job'[e][i] = [state |-> "active", deliveries |-> job[e][i].deliveries + 1]
          /\ \A x \in Docs, y \in Jobs : x # e \/ y # i => job'[x][y] = job[x][y]
      BY <1>3, DeliveryOfAJob
    <2>1. CASE e = d /\ i = k
      BY <2>1, <2>0 DEF Running
    <2>2. CASE ~(e = d /\ i = k)
      <3>1. job'[d][k] = job[d][k]
        BY <2>2, <2>0
      <3>2. PICK v \in Executions : v \in Running(d, k)
        BY <1>a, <3>1 DEF Running
      <3>3. v # w
        BY <3>2, <2>0, ScanAssumption DEF Running, WaitInv, PlaceHasJob
      <3>4. exec'[v] = exec[v]
        BY <3>3, <2>0
      <3>. QED  BY <1>b, <3>2, <3>4
    <2>. QED  BY <2>1, <2>2
  <1>4. ASSUME NEW e \in Docs, NEW i \in Jobs, JobExpires(e, i)
        PROVE  Running(d, k)' # {}
    <2>1. ~(e = d /\ i = k)
      BY <1>4, <1>d, ExpiryOfAJob
    <2>2. job'[d][k] = job[d][k]
      BY <1>4, <2>1, ExpiryOfAJob
    <2>3. PICK v \in Executions : v \in Running(d, k)
      BY <1>a, <2>2 DEF Running
    <2>4. v \notin Running(e, i)
      BY <2>1, <2>3 DEF Running
    <2>5. exec'[v] = exec[v]
      BY <1>4, <2>4, ExpiryOfAJob
    <2>. QED  BY <1>b, <2>3, <2>5
  <1>5. CASE Sweep
    <2>1. job'[d][k] = job[d][k] /\ exec' = exec
      BY <1>5, <1>d, JobsOfASweep DEF Sweep, Recover
    <2>. QED  BY <1>a, <2>1 DEF Running
  <1>6. CASE UNCHANGED <<doc, job, exec>>
    BY <1>6, <1>a DEF Running
  <1>. QED  BY <1>1, <1>2, <1>3, <1>4, <1>5, <1>6, StepsLeft

LEMMA CountedStep ==
  ASSUME TypeInv, JobsInv, WaitInv, OnlyOverruns, [Next]_vars, NEW d \in Docs, NEW k \in Jobs
  PROVE  Counted(d, k)'
  <1> DEFINE n == job[d][k].deliveries
             a == doc[d].attempts
  <1>a. /\ job[d][k] \in Job /\ n \in Nat
        /\ a \in Nat /\ a' \in Nat /\ a' >= a
    BY AttemptsGrow DEF TypeInv, TypeOK, Job
  <1>b. /\ Counted(d, k)
        /\ \A w \in Running(d, k) : w \in Executions /\ exec[w].doc = d /\ exec[w].job = k
        /\ \A w \in Running(d, k)' : w \in Executions /\ exec'[w].doc = d /\ exec'[w].job = k
    BY DEF WaitInv, Running
  <1>c. ASSUME job'[d][k] = job[d][k],
               \A w \in Running(d, k)' : /\ w \in Running(d, k)
                                         /\ exec[w].pc \notin Starting \/ exec'[w].pc \in Starting
        PROVE  Counted(d, k)'
    BY <1>a, <1>b, <1>c DEF Counted
  <1>1. ASSUME NEW w \in Executions, Works(w)
        PROVE  Counted(d, k)'
    <2>1. /\ job'[d][k] = job[d][k] /\ Running(d, k)' = Running(d, k)
          /\ \A v \in Executions : v # w => exec'[v] = exec[v]
          /\ Skips(w) \/ Claims(w) \/ Proceeds(w) \/ Releases(w)
      BY <1>1, WorkersRun, WorkMoves
    <2>2. CASE Claims(w) /\ w \in Running(d, k)
      <3>1. a' = a + 1 /\ exec[w].pc = "claiming"
        BY <1>b, <2>2, AttemptsGrow DEF Claims
      <3>2. \A v \in Running(d, k) : v = w
        BY <1>b, <2>2, ScanAssumption DEF JobsInv, OneRunner
      <3>3. job[d][k].state # "queued"
        BY <1>b, <2>2, ScanAssumption DEF JobsInv, HasJob
      <3>. QED  BY <1>a, <1>b, <2>1, <2>2, <3>1, <3>2, <3>3 DEF Counted
    <2>3. CASE ~Claims(w) \/ w \notin Running(d, k)
      BY <1>b, <1>c, <2>1, <2>3 DEF Skips, Proceeds, Releases, Claimed, Starting
    <2>. QED  BY <2>2, <2>3
  <1>2. ASSUME NEW w \in Executions, Complete(w) \/ Reject(w)
        PROVE  Counted(d, k)'
    <2>1. CASE w \in Running(d, k)
      <3>1. Running(d, k)' = {}
        <4>1. ASSUME NEW v \in Running(d, k)'
              PROVE  FALSE
          <5>1. v # w
            BY <1>2, <1>b, <4>1, EndsOfAHandler, ScanAssumption DEF IdleExec
          <5>2. exec'[v] = exec[v]
            BY <1>2, <1>b, <4>1, <5>1, EndsOfAHandler
          <5>3. v \in Running(d, k)
            BY <1>b, <4>1, <5>2 DEF Running
          <5>. QED  BY <1>2, <2>1, <5>1, <5>3, EndsOfAHandler
        <4>. QED  BY <4>1
      <3>2. CASE exec[w].pc = "throwing"
        <4>1. n <= a
          BY <1>b, <2>1, <3>2 DEF Counted, Starting
        <4>2. job'[d][k] = Refused(job[d][k])
          BY <1>2, <2>1, <3>2, EndsOfAHandler
        <4>3. job'[d][k].state = "queued" => job'[d][k].deliveries = n
          BY <1>a, <4>2 DEF Refused, IdleJob, Job
        <4>. QED  BY <1>a, <3>1, <4>1, <4>3 DEF Counted
      <3>3. CASE exec[w].pc # "throwing"
        <4>1. job'[d][k] = IdleJob
          BY <1>2, <2>1, <3>3, EndsOfAHandler
        <4>. QED  BY <3>1, <4>1 DEF Counted, IdleJob
      <3>. QED  BY <3>2, <3>3
    <2>2. CASE w \notin Running(d, k)
      <3>1. job'[d][k] = job[d][k]
        BY <1>2, <2>2, EndsOfAHandler
      <3>2. ASSUME NEW v \in Running(d, k)'
            PROVE  v \in Running(d, k) /\ exec'[v] = exec[v]
        <4>1. v # w
          BY <1>2, <1>b, <3>2, EndsOfAHandler, ScanAssumption DEF IdleExec
        <4>2. exec'[v] = exec[v]
          BY <1>2, <1>b, <3>2, <4>1, EndsOfAHandler
        <4>. QED  BY <1>b, <3>2, <4>2 DEF Running
      <3>. QED  BY <1>c, <3>1, <3>2
    <2>. QED  BY <2>1, <2>2
  <1>3. ASSUME NEW w \in Executions, NEW e \in Docs, NEW i \in Jobs, Deliver(w, e, i)
        PROVE  Counted(d, k)'
    <2>0. /\ exec[w].pc = "idle"
          /\ exec'[w].pc = "claiming" /\ exec'[w].doc = e /\ exec'[w].job = i
          /\ \A v \in Executions : v # w => exec'[v] = exec[v]
          /\ job[e][i].state = "queued"
          /\ job'[e][i] = [state |-> "active", deliveries |-> job[e][i].deliveries + 1]
          /\ \A x \in Docs, y \in Jobs : x # e \/ y # i => job'[x][y] = job[x][y]
      BY <1>3, DeliveryOfAJob
    <2>1. CASE e = d /\ i = k
      <3>1. /\ n <= a /\ job'[d][k].deliveries = n + 1 /\ job'[d][k].state = "active"
            /\ exec'[w].pc \in Starting
        BY <1>b, <2>1, <2>0 DEF Counted, Starting
      <3>2. ASSUME NEW v \in Running(d, k)'
            PROVE  v = w
        <4>1. CASE v # w
          <5>1. exec[v].doc = d /\ exec[v].job = k
            BY <1>b, <3>2, <4>1, <2>0
          <5>2. job[d][k].state = "active"
            BY <1>b, <3>2, <5>1, ScanAssumption DEF JobsInv, HasJob
          <5>. QED  BY <2>1, <5>2, <2>0
        <4>. QED  BY <4>1
      <3>. QED  BY <1>a, <3>1, <3>2 DEF Counted
    <2>2. CASE ~(e = d /\ i = k)
      <3>1. job'[d][k] = job[d][k]
        BY <2>2, <2>0
      <3>2. ASSUME NEW v \in Running(d, k)'
            PROVE  v \in Running(d, k) /\ exec'[v] = exec[v]
        <4>1. v # w
          BY <1>b, <2>2, <3>2, <2>0
        <4>2. exec'[v] = exec[v]
          BY <1>b, <3>2, <4>1, <2>0
        <4>. QED  BY <1>b, <3>2, <4>2 DEF Running
      <3>. QED  BY <1>c, <3>1, <3>2
    <2>. QED  BY <2>1, <2>2
  <1>4. ASSUME NEW e \in Docs, NEW i \in Jobs, JobExpires(e, i)
        PROVE  Counted(d, k)'
    <2>1. ASSUME NEW v \in Running(d, k)'
          PROVE  v \in Running(d, k) /\ exec'[v] = exec[v] /\ v \notin Running(e, i)
      <3>1. v \notin Running(e, i)
        BY <1>4, <1>b, <2>1, ExpiryOfAJob, ScanAssumption
      <3>2. exec'[v] = exec[v]
        BY <1>4, <1>b, <2>1, <3>1, ExpiryOfAJob
      <3>. QED  BY <1>b, <2>1, <3>1, <3>2 DEF Running
    <2>2. CASE e = d /\ i = k
      <3>1. PICK v \in Running(d, k) : v \in Executions
        BY <1>4, <1>b, <2>2, ExpiryOfAJob DEF WaitInv, ActiveHasRunner
      <3>2. n <= a
        BY <1>4, <1>b, <2>2, <3>1, ExpiryOfAJob DEF Counted
      <3>3. job'[d][k] = Refused(job[d][k]) /\ Running(d, k)' = {}
        BY <1>4, <2>1, <2>2, ExpiryOfAJob
      <3>4. job'[d][k].state = "queued" => job'[d][k].deliveries = n
        BY <1>a, <3>3 DEF Refused, IdleJob, Job
      <3>. QED  BY <1>a, <3>2, <3>3, <3>4 DEF Counted
    <2>3. CASE ~(e = d /\ i = k)
      <3>1. job'[d][k] = job[d][k]
        BY <1>4, <2>3, ExpiryOfAJob
      <3>. QED  BY <1>c, <2>1, <3>1
    <2>. QED  BY <2>2, <2>3
  <1>5. CASE Sweep
    <2>1. exec' = exec /\ Running(d, k)' = Running(d, k)
      BY <1>5 DEF Sweep, Recover, Running
    <2>2. CASE job'[d][k] = job[d][k]
      BY <1>c, <2>1, <2>2
    <2>3. CASE job[d][k].state = "idle" /\ job'[d][k] = NewJob
      <3>1. Running(d, k) = {}
        BY <1>b, <2>3, ScanAssumption DEF JobsInv, HasJob
      <3>. QED  BY <1>a, <2>1, <2>3, <3>1 DEF Counted, NewJob
    <2>. QED  BY <1>5, <2>2, <2>3, JobsOfASweep
  <1>6. CASE UNCHANGED <<doc, job, exec>>
    <2>1. Running(d, k)' = Running(d, k)
      BY <1>6 DEF Running
    <2>. QED  BY <1>6, <1>c, <2>1
  <1>. QED  BY <1>1, <1>2, <1>3, <1>4, <1>5, <1>6, StepsLeft

\* A promise is kept until a handler of the job gets to the row: then it takes the claim, or there
\* is nothing to claim.
LEMMA PromiseKept ==
  ASSUME TypeInv, JobsInv, WaitInv, OnlyOverruns, [Next]_vars,
         NEW d \in Docs, NEW k \in Jobs, Promising(d, k),
         \A w \in Running(d, k) : ~Skips(w) /\ ~Claims(w)
  PROVE  Promising(d, k)'
  <1>a. job[d][k] \in Job /\ RetryLimit \in Nat
    BY ScanAssumption DEF TypeInv, TypeOK
  <1>b. ASSUME NEW v \in Running(d, k)
        PROVE  /\ v \in Executions /\ exec[v].doc = d /\ exec[v].job = k
               /\ job[d][k].state = "active"
    BY <1>b, ScanAssumption DEF Running, JobsInv, HasJob
  <1>c. ASSUME NEW v \in Running(d, k), exec'[v] = exec[v], job'[d][k] = job[d][k],
               \/ exec[v].pc = "claiming"
               \/ exec[v].pc = "throwing" /\ job[d][k].deliveries <= RetryLimit
        PROVE  Promising(d, k)'
    BY <1>b, <1>c DEF Promising, Running
  <1>d. ASSUME job[d][k].state = "queued", job'[d][k] = job[d][k]
        PROVE  Promising(d, k)'
    BY <1>d DEF Promising
  <1>e. ASSUME job[d][k].deliveries <= RetryLimit, job'[d][k] = Refused(job[d][k])
        PROVE  Promising(d, k)'
    BY <1>a, <1>e DEF Promising, Refused, Job
  <1>1. ASSUME NEW w \in Executions, Works(w)
        PROVE  Promising(d, k)'
    <2>0. /\ job'[d][k] = job[d][k]
          /\ Skips(w) \/ Claims(w) \/ Proceeds(w) \/ Releases(w)
          /\ \A v \in Executions : v # w => exec'[v] = exec[v]
      BY <1>1, WorkersRun, WorkMoves
    <2>1. CASE job[d][k].state = "queued"
      BY <1>d, <2>0, <2>1
    <2>2. ASSUME NEW v \in Running(d, k),
                 \/ exec[v].pc = "claiming"
                 \/ exec[v].pc = "throwing" /\ job[d][k].deliveries <= RetryLimit
          PROVE  Promising(d, k)'
      <3>1. v # w
        BY <2>0, <2>2 DEF Proceeds, Releases, Claimed, Skips, Claims
      <3>. QED  BY <1>b, <1>c, <2>0, <2>2, <3>1
    <2>. QED  BY <2>1, <2>2 DEF Promising
  <1>2. ASSUME NEW w \in Executions, Complete(w) \/ Reject(w)
        PROVE  Promising(d, k)'
    <2>0. /\ exec[w].pc \in {"skipped", "returning", "throwing"}
          /\ \A v \in Executions : v # w => exec'[v] = exec[v]
          /\ IF w \in Running(d, k)
             THEN /\ \A v \in Running(d, k) : v = w
                  /\ job'[d][k] = IF exec[w].pc = "throwing" THEN Refused(job[d][k])
                                                             ELSE IdleJob
             ELSE job'[d][k] = job[d][k]
      BY <1>2, EndsOfAHandler
    <2>1. CASE job[d][k].state = "queued"
      BY <1>b, <1>d, <2>0, <2>1
    <2>2. ASSUME NEW v \in Running(d, k),
                 \/ exec[v].pc = "claiming"
                 \/ exec[v].pc = "throwing" /\ job[d][k].deliveries <= RetryLimit
          PROVE  Promising(d, k)'
      <3>1. CASE w \in Running(d, k)
        <4>1. v = w
          BY <2>0, <3>1
        <4>2. exec[w].pc = "throwing" /\ job[d][k].deliveries <= RetryLimit
          BY <2>0, <2>2, <4>1
        <4>. QED  BY <1>e, <2>0, <3>1, <4>2
      <3>2. CASE w \notin Running(d, k)
        BY <1>b, <1>c, <2>0, <2>2, <3>2
      <3>. QED  BY <3>1, <3>2
    <2>. QED  BY <2>1, <2>2 DEF Promising
  <1>3. ASSUME NEW w \in Executions, NEW e \in Docs, NEW i \in Jobs, Deliver(w, e, i)
        PROVE  Promising(d, k)'
    <2>0. /\ exec[w].pc = "idle"
          /\ exec'[w].pc = "claiming" /\ exec'[w].doc = e /\ exec'[w].job = i
          /\ \A v \in Executions : v # w => exec'[v] = exec[v]
          /\ job[e][i].state = "queued"
          /\ job'[e][i] = [state |-> "active", deliveries |-> job[e][i].deliveries + 1]
          /\ \A x \in Docs, y \in Jobs : x # e \/ y # i => job'[x][y] = job[x][y]
      BY <1>3, DeliveryOfAJob
    <2>1. CASE e = d /\ i = k
      BY <2>0, <2>1 DEF Promising, Running
    <2>2. CASE ~(e = d /\ i = k)
      <3>1. job'[d][k] = job[d][k]
        BY <2>0, <2>2
      <3>. QED  BY <1>b, <1>c, <1>d, <2>0, <3>1 DEF Promising
    <2>. QED  BY <2>1, <2>2
  <1>4. ASSUME NEW e \in Docs, NEW i \in Jobs, JobExpires(e, i)
        PROVE  Promising(d, k)'
    <2>0. /\ job[e][i].state = "active"
          /\ job'[e][i] = Refused(job[e][i])
          /\ \A x \in Docs, y \in Jobs : x # e \/ y # i => job'[x][y] = job[x][y]
          /\ \A v \in Executions : v \notin Running(e, i) => exec'[v] = exec[v]
          /\ \A v \in Running(e, i) : exec[v].pc \notin Starting
      BY <1>4, ExpiryOfAJob
    <2>1. CASE e = d /\ i = k
      BY <1>e, <2>0, <2>1 DEF Promising, Starting
    <2>2. CASE ~(e = d /\ i = k)
      <3>1. job'[d][k] = job[d][k]
        BY <2>0, <2>2
      <3>2. \A v \in Running(d, k) : v \notin Running(e, i)
        BY <2>2 DEF Running
      <3>3. \A v \in Running(d, k) : exec'[v] = exec[v]
        BY <1>b, <2>0, <3>2
      <3>. QED  BY <1>c, <1>d, <3>1, <3>3 DEF Promising
    <2>. QED  BY <2>1, <2>2
  <1>5. CASE Sweep
    <2>1. exec' = exec
      BY <1>5 DEF Sweep, Recover
    <2>2. job[d][k].state # "idle"
      BY <1>b DEF Promising
    <2>3. job'[d][k] = job[d][k]
      BY <1>5, <2>2, JobsOfASweep
    <2>. QED  BY <1>c, <1>d, <2>1, <2>3 DEF Promising
  <1>6. CASE UNCHANGED <<doc, job, exec>>
    BY <1>6, <1>c, <1>d DEF Promising
  <1>. QED  BY <1>1, <1>2, <1>3, <1>4, <1>5, <1>6, StepsLeft

\* So a document keeps its promise as long as it could be claimed and nobody claims it.
LEMMA StaysPromised ==
  ASSUME TypeInv, JobsInv, WaitInv, OnlyOverruns, [Next]_vars, NEW d \in Docs,
         Promised(d), Claimable(d),
         \A w \in Executions : exec[w].doc = d => ~Claims(w)
  PROVE  Promised(d)'
  <1>1. PICK k \in Jobs : Promising(d, k)
    BY DEF Promised
  <1>2. \A w \in Running(d, k) : ~Skips(w) /\ ~Claims(w)
    BY DEF Running, Skips
  <1>3. Promising(d, k)'
    BY <1>1, <1>2, PromiseKept
  <1>. QED  BY <1>3 DEF Promised

\* Who holds a claim without its job after a step had neither, or lost the job in it.
LEMMA OverrunStep ==
  ASSUME IInv, JobsInv, WaitInv, OnlyOverruns, [Next]_vars,
         NEW w \in Executions, Overran(w)'
  PROVE  LET d == exec[w].doc
         IN  /\ d \in Docs /\ exec'[w].doc = d /\ doc'[d] = doc[d]
             /\ doc[d].status = "SCANNING"
             /\ d \in lapsed /\ d \in lapsed'
             /\ \/ Overran(w)
                \/ \E k \in Jobs : /\ Counted(d, k) /\ w \in Running(d, k)
                                   /\ exec[w].pc \notin Starting
                                   /\ job'[d][k] = Refused(job[d][k])
  <1> DEFINE d == exec[w].doc
  <1>1. exec'[w].pc \in Claimed /\ Holds(w)' /\ exec'[w].job = None
    BY DEF Overran
  <1>2. KeepsClaim(w)
    <2>1. ~TakesClaim(w)
      BY <1>1 DEF TakesClaim, WaitInv, PlaceHasJob, Starting
    <2>. QED  BY <1>1, <2>1, StepOfAHandler DEF IInv
  <1>3. /\ d \in Docs /\ Kept(d) /\ Holds(w)
        /\ exec[w].pc \in Claimed /\ exec'[w].doc = d
    BY <1>1, <1>2, ClaimKept DEF KeepsClaim, IInv
  <1>4. doc'[d] = doc[d] /\ doc[d].status = "SCANNING" /\ exec[w].pc \notin Starting
    BY <1>3 DEF Kept, Holds, Claimed, Starting
  <1>5. CASE exec[w].job = None
    <2>1. Overran(w) /\ d \in lapsed
      BY <1>3, <1>5 DEF Overran, WaitInv, OverrunLapsed
    <2>. QED  BY <1>3, <1>4, <2>1 DEF Kept
  <1>6. CASE exec[w].job # None
    <2>1. PICK e \in Docs, i \in Jobs : JobExpires(e, i) /\ w \in Running(e, i)
      <3>1. exec'[w] # exec[w]
        BY <1>1, <1>6
      <3>2. ASSUME NEW v \in Executions, Works(v)
            PROVE  FALSE
        BY <1>1, <1>6, <3>2, WorkKeepsJobs DEF KeepsJob, IInv
      <3>3. ASSUME NEW v \in Executions, Complete(v) \/ Reject(v)
            PROVE  FALSE
        <4>1. exec'[v] = IdleExec /\ \A u \in Executions : u # v => exec'[u] = exec[u]
          BY <3>3, EndsOfAHandler DEF IInv
        <4>. QED  BY <1>1, <3>1, <4>1 DEF IdleExec, Claimed
      <3>4. ASSUME NEW v \in Executions, NEW e \in Docs, NEW i \in Jobs, Deliver(v, e, i)
            PROVE  FALSE
        <4>1. exec'[v].pc = "claiming" /\ \A u \in Executions : u # v => exec'[u] = exec[u]
          BY <3>4, DeliveryOfAJob DEF IInv
        <4>. QED  BY <1>1, <3>1, <4>1 DEF Claimed
      <3>5. ASSUME NEW e \in Docs, NEW i \in Jobs, JobExpires(e, i)
            PROVE  w \in Running(e, i)
        BY <3>1, <3>5, ExpiryOfAJob DEF IInv
      <3>. QED  BY <3>1, <3>2, <3>3, <3>4, <3>5, StepsLeft DEF Sweep, Recover
    <2>2. e = d
      BY <2>1 DEF Running
    <2>3. d \in lapsed /\ job'[d][i] = Refused(job[d][i])
      BY <1>3, <2>1, <2>2, ExpiryOfAJob DEF IInv
    <2>4. Counted(d, i)
      BY <1>3 DEF WaitInv
    <2>. QED  BY <1>3, <1>4, <2>1, <2>2, <2>3, <2>4 DEF Kept
  <1>. QED  BY <1>5, <1>6

LEMMA OverrunLapsedStep ==
  IInv /\ JobsInv /\ WaitInv /\ OnlyOverruns /\ [Next]_vars => OverrunLapsed'
  BY OverrunStep DEF OverrunLapsed

LEMMA OverrunPromisedStep ==
  ASSUME IInv, JobsInv, WaitInv, OnlyOverruns, [Next]_vars
  PROVE  OverrunPromised'
  <1> SUFFICES ASSUME NEW w \in Executions, Overran(w)',
                      doc'[exec'[w].doc].attempts < MaxAttempts
               PROVE  Promised(exec[w].doc)'
      BY DEF OverrunPromised
  <1>1. PICK d \in Docs :
          /\ exec[w].doc = d /\ exec'[w].doc = d /\ doc'[d] = doc[d]
          /\ doc[d].status = "SCANNING" /\ d \in lapsed
          /\ doc[d].attempts < MaxAttempts
          /\ \/ Overran(w)
             \/ \E k \in Jobs : /\ Counted(d, k) /\ w \in Running(d, k)
                                /\ exec[w].pc \notin Starting
                                /\ job'[d][k] = Refused(job[d][k])
    BY OverrunStep
  <1>2. ASSUME Overran(w)
        PROVE  Promised(d)'
    <2>1. Promised(d)
      BY <1>1, <1>2 DEF WaitInv, OverrunPromised
    <2>2. Claimable(d)
      BY <1>1 DEF Claimable, Abandoned
    <2>3. ASSUME NEW v \in Executions, exec[v].doc = d, Claims(v)
          PROVE  FALSE
      <3>1. doc'[d].attempts = doc[d].attempts + 1 /\ doc[d].attempts \in Nat
        BY <1>1, <2>3, AttemptsGrow DEF IInv
      <3>. QED  BY <1>1, <3>1
    <2>. QED  BY <1>1, <2>1, <2>2, <2>3, StaysPromised DEF IInv
  <1>3. ASSUME NEW k \in Jobs, Counted(d, k), w \in Running(d, k), exec[w].pc \notin Starting,
               job'[d][k] = Refused(job[d][k])
        PROVE  Promised(d)'
    <2>1. job[d][k] \in Job /\ doc[d] \in Row
      BY <1>1 DEF IInv, TypeInv, TypeOK
    <2>2. job[d][k].deliveries <= doc[d].attempts
      BY <1>3 DEF Counted
    <2>3. job[d][k].deliveries <= RetryLimit
      BY <1>1, <2>1, <2>2, ScanAssumption DEF OnlyOverruns, Job, Row
    <2>4. job'[d][k].state = "queued"
      BY <1>3, <2>1, <2>3 DEF Refused, Job
    <2>. QED  BY <2>4 DEF Promised, Promising
  <1>4. Promised(d)'
    BY <1>1, <1>2, <1>3
  <1>. QED  BY <1>1, <1>4 DEF Promised, Promising, Running

LEMMA PendingPromisedStep ==
  ASSUME IInv, JobsInv, WaitInv, OnlyOverruns, [Next]_vars
  PROVE  PendingPromised'
  <1> SUFFICES ASSUME NEW d \in Docs, doc'[d].status = "PENDING_SCAN"
               PROVE  Promised(d)'
      BY DEF PendingPromised
  <1>a. doc[d] \in Row /\ RetryLimit \in Nat /\ MaxAttempts \in Nat
        /\ \A k \in Jobs : job[d][k] \in Job
    BY ScanAssumption DEF IInv, TypeInv, TypeOK
  <1>b. ASSUME NEW v \in Executions, exec[v].doc = d, Claims(v)
        PROVE  FALSE
    <2>1. doc'[d].status = "SCANNING"
      BY <1>a, <1>b DEF Claims, TakeClaim, IInv, TypeInv, TypeOK, Row
    <2>. QED  BY <2>1
  <1>1. CASE doc[d].status = "PENDING_SCAN"
    BY <1>1, <1>b, StaysPromised DEF WaitInv, PendingPromised, Claimable, IInv
  <1>2. ASSUME doc[d].status # "PENDING_SCAN", NEW w \in Executions, Works(w)
        PROVE  Promised(d)'
    <2>1. /\ Releases(w) /\ exec[w].doc = d /\ Holds(w)
          /\ \A k \in Jobs : job'[d][k] = job[d][k] /\ Running(d, k)' = Running(d, k)
      <3>1. Skips(w) \/ Claims(w) \/ Proceeds(w) \/ Releases(w)
        BY <1>2, WorkMoves DEF IInv
      <3>2. CASE Claims(w)
        BY <1>2, <1>b, <3>2 DEF Claims, TakeClaim, IInv, TypeInv, TypeOK
      <3>3. \A k \in Jobs : job'[d][k] = job[d][k] /\ Running(d, k)' = Running(d, k)
        BY <1>2, WorkersRun DEF IInv
      <3>. QED  BY <1>2, <3>1, <3>2, <3>3 DEF Skips, Proceeds, Releases, Results
    <2>2. doc[d].attempts < MaxAttempts /\ exec[w].pc \in Claimed
      BY <2>1 DEF Releases, Claimed, IInv, HolderAttempts
    <2>3. CASE exec[w].job = None
      <3>1. Overran(w)
        BY <2>1, <2>2, <2>3 DEF Overran
      <3>2. Promised(d) /\ Claimable(d)
        BY <2>1, <2>2, <3>1
        DEF WaitInv, OverrunLapsed, OverrunPromised, Claimable, Abandoned, Holds
      <3>. QED  BY <1>b, <3>2, StaysPromised DEF IInv
    <2>4. CASE exec[w].job # None
      <3>1. PICK k \in Jobs : w \in Running(d, k)
        BY <2>1, <2>4 DEF IInv, TypeInv, TypeOK, Exec, Running
      <3>2. job[d][k].deliveries <= doc[d].attempts
        BY <2>1, <3>1 DEF WaitInv, Counted, Releases, Starting
      <3>3. job[d][k].deliveries <= RetryLimit
        BY <1>a, <2>2, <3>1, <3>2 DEF OnlyOverruns, Job, Row
      <3>4. w \in Running(d, k)' /\ job'[d][k] = job[d][k] /\ exec'[w].pc = "throwing"
        BY <2>1, <3>1 DEF Releases
      <3>5. Promising(d, k)'
        BY <3>3, <3>4 DEF Promising
      <3>. QED  BY <3>1, <3>5 DEF Promised
    <2>. QED  BY <2>3, <2>4
  <1>3. ASSUME doc[d].status # "PENDING_SCAN", Sweep
        PROVE  Promised(d)'
    <2>1. PICK k \in Jobs : job'[d] = [job[d] EXCEPT ![k] = NewJob]
      BY <1>3, SweepOfJobs DEF IInv
    <2>2. job'[d][k] = NewJob
      BY <2>1 DEF IInv, TypeInv, TypeOK
    <2>. QED  BY <2>2 DEF Promised, Promising, NewJob
  <1>4. ASSUME doc[d].status # "PENDING_SCAN", NEW w \in Executions, Complete(w) \/ Reject(w)
        PROVE  FALSE
    BY <1>4 DEF Complete, Reject
  <1>5. ASSUME doc[d].status # "PENDING_SCAN",
               \/ \E w \in Executions, e \in Docs, k \in Jobs : Deliver(w, e, k)
               \/ \E e \in Docs, k \in Jobs : JobExpires(e, k)
               \/ UNCHANGED doc
        PROVE  FALSE
    BY <1>5 DEF Deliver, JobExpires
  <1>. QED  BY <1>1, <1>2, <1>3, <1>4, <1>5, StepsLeft

LEMMA WaitStep ==
  ASSUME IInv, JobsInv, WaitInv, OnlyOverruns, [Next]_vars
  PROVE  WaitInv'
  <1>1. \A d \in Docs, k \in Jobs : Counted(d, k)'
    BY CountedStep DEF IInv
  <1>. QED  BY <1>1, PlaceHasJobStep, ActiveHasRunnerStep, OverrunLapsedStep, OverrunPromisedStep,
               PendingPromisedStep
            DEF IInv, WaitInv

\* Where handlers only overrun, a document of its first rounds that waits for its treatment always
\* has a document.scan job: the retry of the one that released it, or the one the sweep sent.
THEOREM PendingCorrect ==
  ASSUME OnlyOverruns
  PROVE  Spec => []PendingHasJob
  <1>1. IInv /\ JobsInv /\ WaitInv => PendingHasJob
    <2> SUFFICES ASSUME JobsInv, WaitInv, NEW d \in Docs, doc[d].status = "PENDING_SCAN"
                 PROVE  \E k \in Jobs : Live(d, k)
        BY DEF PendingHasJob
    <2>1. PICK k \in Jobs : Promising(d, k)
      BY DEF WaitInv, PendingPromised, Promised
    <2>2. job[d][k].state # "idle"
      BY <2>1, ScanAssumption DEF Promising, Running, JobsInv, HasJob
    <2>. QED  BY <2>2 DEF Live
  <1>2. Spec => [](IInv /\ JobsInv)
    <2>1. IInv /\ JobsInv /\ [Next]_vars => JobsInv'
      BY JobsStep DEF IInv
    <2>. QED  BY <2>1, Safety, JobsInit, PTL DEF Spec
  <1>3. IInv /\ JobsInv /\ WaitInv /\ [Next]_vars => WaitInv'
    BY WaitStep
  <1>. QED  BY <1>1, <1>2, <1>3, WaitInit, PTL DEF Spec

-----------------------------------------------------------------------------
(***************************************************************************)
(* The copy of a CLEAN image: without reprocessing, or with one handler at *)
(* a time.  Otherwise the handler of a failed round may still have to      *)
(* remove its copy when the next round stores the new one.                 *)
(***************************************************************************)
NoRoundsMeet == Requests = {} \/ \A v, w \in Executions : v = w

CopyStored ==
  \A w \in Executions :
    exec[w].pc = "markingClean" /\ Holds(w) /\ exec[w].doc \in Images => exec[w].doc \in copy

\* A failed treatment removes its copy before anything can come of the next one.
CopyOfNoUse ==
  \A w \in Executions :
    exec[w].pc = "removing" =>
      /\ doc[exec[w].doc].status \in {"SCAN_FAILED", "PENDING_SCAN"}
      /\ Requests = {} => doc[exec[w].doc].status = "SCAN_FAILED"

CopyInv == CopyStored /\ CopyOfNoUse /\ CleanImageHasCopy

LEMMA CopyInit == Init => CopyInv
  <1> SUFFICES ASSUME Init
               PROVE  CopyInv
      OBVIOUS
  <1>1. \A w \in Executions : exec[w].pc = "idle"
    BY DEF Init, IdleExec
  <1>2. ASSUME NEW d \in Docs
        PROVE  doc[d].status # "CLEAN"
    BY <1>2 DEF Init, NewRow
  <1>. QED  BY <1>1, <1>2, ScanAssumption
            DEF CopyInv, CopyStored, CopyOfNoUse, CleanImageHasCopy

\* A copy is removed by a handler at the end of a failed treatment only.
LEMMA CopyRemoved ==
  ASSUME [Next]_vars, NEW d, d \in copy, d \notin copy'
  PROVE  \E w \in Executions : exec[w].pc = "removing" /\ exec[w].doc = d
  <1>1. ASSUME NEW w \in Executions, ~RemoveCopy(w),
               Handler(w) \/ Crash(w) \/ \E e \in Docs, k \in Jobs : Deliver(w, e, k)
        PROVE  FALSE
    BY <1>1 DEF Handler, Claim, Treat, StoreCopy, MarkClean, MarkInfected, Mark, MarkFailed,
                Release, Complete, Reject, Crash, Deliver
  <1>2. ASSUME ~\E w \in Executions : Handler(w) \/ Crash(w)
                                      \/ \E e \in Docs, k \in Jobs : Deliver(w, e, k)
        PROVE  FALSE
    BY <1>2 DEF Next, Elsewhere, LeaseExpires, JobExpires, RequestReprocess, Reprocess, SettleRequest, Sweep, Recover,
                vars
  <1>3. PICK w \in Executions : RemoveCopy(w)
    BY <1>1, <1>2
  <1>. QED  BY <1>3 DEF RemoveCopy

\* How a handler gets where it marks a document CLEAN or removes a copy.
LEMMA StepToAnEnd ==
  ASSUME TypeInv, [Next]_vars, NEW w \in Executions, exec'[w].pc # exec[w].pc
  PROVE  /\ exec'[w].pc = "markingClean" => /\ exec[w].doc \notin Images \/ exec[w].doc \in copy'
                                            /\ exec'[w].doc = exec[w].doc
         /\ exec'[w].pc = "removing" => /\ exec'[w].doc = exec[w].doc
                                        /\ doc'[exec[w].doc].status = "SCAN_FAILED"
  <1>a. /\ exec \in [Executions -> Exec]
        /\ \A v \in Executions : exec[v] \in Exec
        /\ doc \in [Docs -> Row] /\ \A d \in Docs : doc[d] \in Row
    BY DEF TypeInv, TypeOK
  <1>b. ASSUME NEW v \in Executions, NEW pc, Goto(v, pc) \/ Leave(v, pc)
        PROVE  v = w /\ exec'[w].pc = pc /\ exec'[w].doc = exec[w].doc
    <2>1. v = w
      BY <1>a, <1>b DEF Goto, Leave
    <2>2. \/ exec'[w] = [exec[w] EXCEPT !.pc = pc]
          \/ exec'[w] = [exec[w] EXCEPT !.pc = pc, !.attempts = 0, !.token = None]
      BY <1>a, <1>b, <2>1 DEF Goto, Leave
    <2>. QED  BY <1>a, <2>1, <2>2 DEF Exec
  <1>c. ASSUME NEW v \in Executions, NEW e, exec' = [exec EXCEPT ![v] = e]
        PROVE  exec'[w] = e
    BY <1>a, <1>c
  <1>1. ASSUME NEW v \in Executions, Claim(v)
        PROVE  exec'[w].pc \in {"treating", "skipped", "throwing"}
    <2>1. CASE exec' = [exec EXCEPT ![v] = [@ EXCEPT !.pc = "treating",
                                                    !.attempts = doc[exec[v].doc].attempts + 1,
                                                    !.token = Now(exec[v].doc)]]
      <3>1. v = w
        BY <1>a, <2>1
      <3>2. exec'[w] = [exec[w] EXCEPT !.pc = "treating",
                                       !.attempts = doc[exec[w].doc].attempts + 1,
                                       !.token = Now(exec[w].doc)]
        BY <1>a, <2>1, <3>1
      <3>. QED  BY <1>a, <3>2 DEF Exec
    <2>. QED  BY <1>1, <1>b, <2>1 DEF Claim
  <1>2. ASSUME NEW v \in Executions, Treat(v)
        PROVE  /\ exec'[w].pc # "removing" /\ exec'[w].doc = exec[w].doc
               /\ exec'[w].pc = "markingClean" => exec[w].doc \notin Images
    BY <1>2, <1>b DEF Treat
  <1>3. ASSUME NEW v \in Executions, StoreCopy(v)
        PROVE  /\ exec'[w].pc # "removing" /\ exec'[w].doc = exec[w].doc
               /\ exec'[w].pc = "markingClean" => exec[w].doc \in copy'
    BY <1>3, <1>b DEF StoreCopy
  <1>4. ASSUME NEW v \in Executions, MarkClean(v) \/ MarkInfected(v) \/ RemoveCopy(v) \/ Release(v)
        PROVE  exec'[w].pc \notin {"markingClean", "removing"}
    BY <1>4, <1>b DEF MarkClean, MarkInfected, Mark, RemoveCopy, Release
  <1>5. ASSUME NEW v \in Executions, MarkFailed(v)
        PROVE  /\ exec'[w].pc # "markingClean" /\ exec'[w].doc = exec[w].doc
               /\ exec'[w].pc = "removing" => doc'[exec[w].doc].status = "SCAN_FAILED"
    <2>1. PICK pc : /\ Leave(v, pc) /\ pc # "markingClean"
                    /\ pc = "removing" => Finish(v, "SCAN_FAILED")
      BY <1>5 DEF MarkFailed
    <2>2. v = w /\ exec'[w].pc = pc /\ exec'[w].doc = exec[w].doc
      BY <1>b, <2>1
    <2>3. exec[w].doc \in Docs
      BY <1>5, <2>2 DEF MarkFailed, TypeInv, HandlersOK
    <2>4. ASSUME Finish(w, "SCAN_FAILED")
          PROVE  doc'[exec[w].doc].status = "SCAN_FAILED"
      BY <1>a, <2>3, <2>4 DEF Finish, Row
    <2>. QED  BY <2>1, <2>2, <2>4
  <1>6. ASSUME NEW v \in Executions, Complete(v) \/ Reject(v) \/ Crash(v)
        PROVE  exec'[w].pc = "idle"
    BY <1>6, <1>c DEF Complete, Reject, Crash, IdleExec
  <1>7. ASSUME NEW v \in Executions, NEW e \in Docs, NEW k \in Jobs, Deliver(v, e, k)
        PROVE  exec'[w].pc = "claiming"
    BY <1>7, <1>c DEF Deliver, IdleExec
  <1>8. ASSUME NEW e \in Docs, NEW k \in Jobs, JobExpires(e, k)
        PROVE  FALSE
    <2>1. exec'[w] = [exec[w] EXCEPT !.job = None] \/ exec'[w] = exec[w]
      BY <1>8 DEF JobExpires
    <2>. QED  BY <1>a, <2>1 DEF Exec
  <1>9. ASSUME UNCHANGED exec
        PROVE  FALSE
    BY <1>9
  <1>. QED
    BY <1>1, <1>2, <1>3, <1>4, <1>5, <1>6, <1>7, <1>8, <1>9
    DEF Next, Elsewhere, Handler, LeaseExpires, RequestReprocess, Reprocess, SettleRequest, Sweep, Recover, vars

LEMMA StillRemoving ==
  ASSUME TypeInv, [Next]_vars, NEW w \in Executions,
         exec[w].pc = "removing", exec'[w].pc = "removing"
  PROVE  exec'[w].doc = exec[w].doc
  <1>a. /\ exec \in [Executions -> Exec]
        /\ \A v \in Executions : exec[v] \in Exec
    BY DEF TypeInv, TypeOK
  <1>1. ASSUME NEW v \in Executions, Works(v)
        PROVE  exec'[w].doc = exec[w].doc
    BY <1>1, WorkKeepsJobs DEF KeepsJob
  <1>2. ASSUME NEW v \in Executions, NEW e, e.pc # "removing", exec' = [exec EXCEPT ![v] = e]
        PROVE  exec'[w].doc = exec[w].doc
    BY <1>a, <1>2
  <1>3. ASSUME NEW v \in Executions, Complete(v) \/ Reject(v) \/ Crash(v)
        PROVE  exec'[w].doc = exec[w].doc
    <2>1. IdleExec.pc # "removing"
      BY DEF IdleExec
    <2>. QED  BY <1>2, <1>3, <2>1 DEF Complete, Reject, Crash
  <1>4. ASSUME NEW v \in Executions, NEW d \in Docs, NEW k \in Jobs, Deliver(v, d, k)
        PROVE  exec'[w].doc = exec[w].doc
    <2>1. [IdleExec EXCEPT !.pc = "claiming", !.doc = d, !.job = k].pc # "removing"
      BY DEF IdleExec
    <2>. QED  BY <1>2, <1>4, <2>1 DEF Deliver
  <1>5. ASSUME NEW d \in Docs, NEW k \in Jobs, JobExpires(d, k)
        PROVE  exec'[w].doc = exec[w].doc
    <2>1. exec'[w] = [exec[w] EXCEPT !.job = None] \/ exec'[w] = exec[w]
      BY <1>5 DEF JobExpires
    <2>. QED  BY <1>a, <2>1 DEF Exec
  <1>. QED
    BY <1>1, <1>3, <1>4, <1>5
    DEF Next, Elsewhere, Handler, Works, LeaseExpires, RequestReprocess, Reprocess, SettleRequest, Sweep, Recover, vars

LEMMA CopyStoredStep ==
  ASSUME IInv, CopyInv, [Next]_vars
  PROVE  CopyStored'
  <1> SUFFICES ASSUME NEW w \in Executions, exec'[w].pc = "markingClean", Holds(w)',
                      exec'[w].doc \in Images
               PROVE  exec'[w].doc \in copy'
      BY DEF CopyStored
  <1>1. KeepsClaim(w)
    BY StepOfAHandler DEF IInv, Claimed, TakesClaim
  <1>2. exec'[w].doc = exec[w].doc /\ Holds(w)
    BY <1>1, ClaimKept DEF KeepsClaim, IInv
  <1>3. CASE exec[w].pc = "markingClean"
    <2>1. exec[w].doc \in copy
      BY <1>2, <1>3 DEF CopyInv, CopyStored
    <2>2. ~\E v \in Executions : exec[v].pc = "removing" /\ exec[v].doc = exec[w].doc
      BY <1>2 DEF CopyInv, CopyOfNoUse, Holds
    <2>. QED  BY <1>2, <2>1, <2>2, CopyRemoved
  <1>4. CASE exec[w].pc # "markingClean"
    BY <1>2, <1>4, StepToAnEnd DEF IInv
  <1>. QED  BY <1>3, <1>4

LEMMA CopyOfNoUseStep ==
  ASSUME IInv, CopyInv, NoRoundsMeet, [Next]_vars
  PROVE  CopyOfNoUse'
  <1> SUFFICES ASSUME NEW w \in Executions, exec'[w].pc = "removing"
               PROVE  /\ doc'[exec'[w].doc].status \in {"SCAN_FAILED", "PENDING_SCAN"}
                      /\ Requests = {} => doc'[exec'[w].doc].status = "SCAN_FAILED"
      BY DEF CopyOfNoUse
  <1>1. CASE exec[w].pc # "removing"
    BY <1>1, StepToAnEnd DEF IInv
  <1>2. CASE exec[w].pc = "removing"
    <2> DEFINE d == exec[w].doc
    <2>1. d \in Docs
      BY <1>2 DEF IInv, TypeInv, HandlersOK
    <2>2. exec'[w].doc = d
      BY <1>2, StillRemoving DEF IInv
    <2>3. /\ doc[d].status \in {"SCAN_FAILED", "PENDING_SCAN"}
          /\ Requests = {} => doc[d].status = "SCAN_FAILED"
      BY <1>2 DEF CopyInv, CopyOfNoUse
    <2>4. RowStep(d)
      BY <2>1, StepOfARow DEF IInv
    <2>5. CASE Kept(d)
      BY <2>2, <2>3, <2>5 DEF Kept
    <2>6. CASE Taken(d)
      BY <1>2, <2>3, <2>6 DEF Taken, Claimable, Abandoned, NoRoundsMeet
    <2>7. CASE Reopened(d)
      BY <2>2, <2>7 DEF Reopened, NewRow
    <2>8. CASE Returned(d) \/ GivenUp(d) \/ \E status \in Results : Ended(d, status)
      BY <2>3, <2>8 DEF Returned, GivenUp, Exhausted, Abandoned, Ended, Holds
    <2>. QED  BY <2>4, <2>5, <2>6, <2>7, <2>8 DEF RowStep
  <1>. QED  BY <1>1, <1>2

LEMMA CopyKeptStep ==
  ASSUME IInv, CopyInv, [Next]_vars
  PROVE  CleanImageHasCopy'
  <1> SUFFICES ASSUME NEW d \in Images, doc'[d].status = "CLEAN"
               PROVE  d \in copy'
      BY DEF CleanImageHasCopy
  <1>1. d \in Docs /\ doc[d] \in Row /\ RowStep(d)
    BY StepOfARow, ScanAssumption DEF IInv, TypeInv, TypeOK
  <1>2. CASE doc[d].status = "CLEAN"
    <2>1. d \in copy
      BY <1>2 DEF CopyInv, CleanImageHasCopy
    <2>. QED  BY <1>2, <2>1, CopyRemoved DEF CopyInv, CopyOfNoUse
  <1>3. CASE doc[d].status # "CLEAN"
    <2>0. /\ ~Kept(d)
          /\ ~Reopened(d)
      BY <1>3 DEF Kept, Reopened, NewRow
    <2>a. ~Taken(d) /\ ~Returned(d) /\ ~GivenUp(d)
      BY <1>1 DEF Taken, Returned, GivenUp, Row
    <2>b. ASSUME NEW status \in Results, Ended(d, status)
          PROVE  status = "CLEAN"
      BY <1>1, <2>b DEF Ended, Row
    <2>1. Ended(d, "CLEAN")
      BY <1>1, <2>0, <2>a, <2>b DEF RowStep
    <2>2. PICK w \in Executions : /\ exec[w].pc = "markingClean"
                                  /\ exec[w].doc = d
                                  /\ Holds(w)
      BY <2>1 DEF Ended
    <2>3. d \in copy /\ doc[d].status = "SCANNING"
      BY <2>2 DEF CopyInv, CopyStored, Holds
    <2>. QED  BY <2>3, CopyRemoved DEF CopyInv, CopyOfNoUse
  <1>. QED  BY <1>2, <1>3

\* A CLEAN image always has the copy its download serves, where no handler of a failed round is
\* left when the next round stores its copy (storeSanitizedCopy(), removeSanitizedCopy()).
THEOREM CopyCorrect ==
  ASSUME NoRoundsMeet
  PROVE  Spec => []CleanImageHasCopy
  <1>1. IInv /\ CopyInv /\ [Next]_vars => CopyInv'
    BY CopyStoredStep, CopyOfNoUseStep, CopyKeptStep DEF CopyInv
  <1>2. CopyInv => CleanImageHasCopy
    BY DEF CopyInv
  <1>. QED  BY <1>1, <1>2, CopyInit, Safety, PTL DEF Spec

-----------------------------------------------------------------------------
(***************************************************************************)
(* The sweep statement by statement.  What a transaction has locked nobody *)
(* else changes, so its rows still meet the conditions they were locked    *)
(* under when it commits.                                                  *)
(***************************************************************************)
SweepInv ==
  /\ \A s \in Workers : /\ sweep[s].failed \in SUBSET {d \in Docs : Exhausted(d)}
                        /\ sweep[s].requeued \in SUBSET {d \in Docs : Requeueable(d)}
  /\ \A s, t \in Workers : s # t => Locked(s) \cap Locked(t) = {}

\* A claim that was older than the lease is so until its row changes.
LEMMA LapsedKept ==
  ASSUME TypeInv, Elsewhere, NEW d \in Docs, d \in lapsed, doc'[d] = doc[d]
  PROVE  d \in lapsed'
  <1>a. doc \in [Docs -> Row] /\ doc[d] \in Row /\ \A e \in Docs : doc[e].attempts \in Nat
    BY DEF TypeInv, TypeOK, Row
  <1>b. ASSUME NEW e, TakeClaim(e)
        PROVE  d \in lapsed'
    <2>1. CASE d = e
      <3>1. doc'[d] = [doc[d] EXCEPT !.status = "SCANNING", !.attempts = doc[d].attempts + 1,
                                     !.startedAt = Now(d)]
        BY <1>a, <1>b, <2>1 DEF TakeClaim
      <3>2. doc'[d].attempts = doc[d].attempts + 1
        BY <1>a, <3>1 DEF Row
      <3>. QED  BY <1>a, <3>2
    <2>2. CASE d # e
      BY <1>b, <2>2 DEF TakeClaim
    <2>. QED  BY <2>1, <2>2
  <1>c. ASSUME NEW w \in Executions, NEW status \in Results, Finish(w, status)
        PROVE  d \in lapsed'
    <2>1. CASE d = exec[w].doc
      <3>1. doc[d].status = "SCANNING" /\ doc'[d].status = status
        BY <1>a, <1>c, <2>1 DEF Finish, Holds, Row
      <3>. QED  BY <3>1 DEF Results
    <2>2. CASE d # exec[w].doc
      BY <1>c, <2>2 DEF Finish
    <2>. QED  BY <2>1, <2>2
  <1>1. ASSUME NEW w \in Executions, Claim(w)
        PROVE  d \in lapsed'
    BY <1>1, <1>b DEF Claim
  <1>2. ASSUME NEW w \in Executions, MarkClean(w) \/ MarkInfected(w) \/ MarkFailed(w)
        PROVE  d \in lapsed'
    BY <1>2, <1>c DEF MarkClean, MarkInfected, Mark, MarkFailed, NoWrite, Results
  <1>3. ASSUME NEW w \in Executions, Release(w)
        PROVE  d \in lapsed'
    <2>1. CASE UNCHANGED lapsed
      BY <2>1
    <2>2. CASE /\ Holds(w)
               /\ doc' = [doc EXCEPT ![exec[w].doc] =
                            [@ EXCEPT !.status = "PENDING_SCAN", !.startedAt = None]]
               /\ lapsed' = lapsed \ {exec[w].doc}
      <3>1. CASE d = exec[w].doc
        <4>1. doc[d].status = "SCANNING" /\ doc'[d].status = "PENDING_SCAN"
          BY <1>a, <2>2, <3>1 DEF Holds, Row
        <4>. QED  BY <4>1
      <3>2. CASE d # exec[w].doc
        BY <2>2, <3>2
      <3>. QED  BY <3>1, <3>2
    <2>. QED  BY <1>3, <2>1, <2>2 DEF Release
  <1>4. CASE \E e \in Docs : \/ LeaseExpires(e)
                             \/ \E k \in Jobs : JobExpires(e, k)
                             \/ \E r \in Requests : \/ RequestReprocess(e, r)
                                                    \/ Reprocess(e, r)
                                                    \/ SettleRequest(e, r)
    BY <1>4 DEF LeaseExpires, JobExpires, RequestReprocess, Reprocess, SettleRequest
  <1>5. ASSUME NEW w \in Executions,
               \/ Treat(w) \/ StoreCopy(w) \/ RemoveCopy(w)
               \/ Complete(w) \/ Reject(w) \/ Crash(w)
               \/ \E e \in Docs, k \in Jobs : Deliver(w, e, k)
        PROVE  d \in lapsed'
    BY <1>5 DEF Treat, StoreCopy, RemoveCopy, Complete, Reject, Crash, Deliver
  <1>. QED
    BY <1>1, <1>2, <1>3, <1>4, <1>5 DEF Elsewhere, Handler

\* A row that is left alone needs the sweep as before.
LEMMA ConditionsKept ==
  ASSUME NEW d \in Docs, doc'[d] = doc[d], d \in lapsed => d \in lapsed'
  PROVE  (Exhausted(d) => Exhausted(d)') /\ (Requeueable(d) => Requeueable(d)')
  BY DEF Exhausted, Requeueable, Abandoned

\* So the rows that transactions have locked do, when the others are all that changes.
LEMMA LocksKept ==
  ASSUME SweepInv, UNCHANGED sweep,
         \A d \in Docs : d \in AllLocked => doc'[d] = doc[d] /\ (d \in lapsed => d \in lapsed')
  PROVE  SweepInv'
  <1>1. ASSUME NEW s \in Workers, NEW d \in Locked(s)
        PROVE  d \in Docs /\ (Exhausted(d) => Exhausted(d)') /\ (Requeueable(d) => Requeueable(d)')
    <2>1. d \in Docs /\ d \in AllLocked
      BY <1>1 DEF SweepInv, Locked, AllLocked
    <2>. QED  BY <2>1, ConditionsKept
  <1>2. \A s \in Workers : Locked(s)' = Locked(s)
    BY DEF Locked
  <1>. QED  BY <1>1, <1>2 DEF SweepInv, Locked

\* A statement that ends nothing locks a row that needs it and that no other transaction has.
LEMMA StatementStep ==
  ASSUME SweepTypeOK, SweepInv, UNCHANGED vars, NEW s \in Workers,
         Statement(s) \/ Rollback(s)
  PROVE  SweepInv'
  <1>a. sweep \in [Workers -> Transaction] /\ sweep[s] \in Transaction
    BY DEF SweepTypeOK
  <1>b. \A d \in Docs : (Exhausted(d)' <=> Exhausted(d)) /\ (Requeueable(d)' <=> Requeueable(d))
    BY DEF Exhausted, Requeueable, Abandoned, vars
  <1>c. \A t \in Workers : t # s => sweep'[t] = sweep[t]
    BY <1>a DEF Statement, Begin, FailRow, BeginRequeueing, RequeueRow, BeginSending, Send, Commit, Rollback
  <1> DEFINE Grows ==
        /\ sweep'[s].failed \subseteq sweep[s].failed \cup {d \in Docs : d \notin AllLocked /\ Exhausted(d)}
        /\ sweep'[s].requeued \subseteq sweep[s].requeued \cup {d \in Docs : d \notin AllLocked /\ Requeueable(d)}
  <1>1. Grows
    <2>1. ASSUME NEW d \in Docs, FailRow(s, d)
          PROVE  Grows
      <3>1. sweep'[s] = [sweep[s] EXCEPT
              !.todo = sweep[s].todo \ {d},
              !.failed = IF d \notin AllLocked /\ Exhausted(d) THEN sweep[s].failed \cup {d} ELSE sweep[s].failed]
        BY <1>a, <2>1 DEF FailRow
      <3>2. /\ sweep'[s].failed = IF d \notin AllLocked /\ Exhausted(d) THEN sweep[s].failed \cup {d} ELSE sweep[s].failed
            /\ sweep'[s].requeued = sweep[s].requeued
        BY <1>a, <3>1 DEF Transaction
      <3>. QED  BY <3>2
    <2>2. ASSUME NEW d \in Docs, RequeueRow(s, d)
          PROVE  Grows
      <3>1. sweep'[s] = [sweep[s] EXCEPT
              !.todo = sweep[s].todo \ {d},
              !.requeued = IF d \notin AllLocked /\ Requeueable(d) THEN sweep[s].requeued \cup {d} ELSE sweep[s].requeued]
        BY <1>a, <2>2 DEF RequeueRow
      <3>2. /\ sweep'[s].requeued = IF d \notin AllLocked /\ Requeueable(d) THEN sweep[s].requeued \cup {d} ELSE sweep[s].requeued
            /\ sweep'[s].failed = sweep[s].failed
        BY <1>a, <3>1 DEF Transaction
      <3>. QED  BY <3>2
    <2>3. ASSUME BeginRequeueing(s) \/ BeginSending(s) \/ \E d \in Docs : Send(s, d)
          PROVE  Grows
      <3>1. sweep'[s].failed = sweep[s].failed /\ sweep'[s].requeued = sweep[s].requeued
        BY <1>a, <2>3 DEF BeginRequeueing, BeginSending, Send, Transaction
      <3>. QED  BY <3>1
    <2>4. ASSUME Begin(s) \/ Commit(s) \/ Rollback(s)
          PROVE  Grows
      <3>1. sweep'[s].failed = {} /\ sweep'[s].requeued = {}
        <4>1. CASE Begin(s)
          BY <1>a, <4>1 DEF Begin, NoTransaction
        <4>2. CASE Commit(s) \/ Rollback(s)
          <5>1. sweep'[s] = NoTransaction
            BY <1>a, <4>2 DEF Commit, Rollback
          <5>. QED  BY <5>1 DEF NoTransaction
        <4>. QED  BY <2>4, <4>1, <4>2
      <3>. QED  BY <3>1
    <2>. QED  BY <2>1, <2>2, <2>3, <2>4 DEF Statement
  <1>2. /\ Locked(s)' \subseteq Locked(s) \cup (Docs \ AllLocked)
        /\ \A t \in Workers : t # s => Locked(t)' = Locked(t) /\ Locked(t) \subseteq AllLocked
    BY <1>1, <1>c DEF Locked, AllLocked
  <1>3. \A t \in Workers : t # s => Locked(s)' \cap Locked(t)' = {}
    BY <1>2 DEF SweepInv
  <1>4. \A t, u \in Workers : t # u => Locked(t)' \cap Locked(u)' = {}
    BY <1>2, <1>3 DEF SweepInv
  <1>5. ASSUME NEW t \in Workers
        PROVE  /\ sweep'[t].failed \in SUBSET {d \in Docs : Exhausted(d)'}
               /\ sweep'[t].requeued \in SUBSET {d \in Docs : Requeueable(d)'}
    <2>1. CASE t = s
      BY <1>1, <1>b, <2>1 DEF SweepInv
    <2>2. CASE t # s
      BY <1>b, <1>c, <2>2 DEF SweepInv
    <2>. QED  BY <2>1, <2>2
  <1>. QED  BY <1>4, <1>5 DEF SweepInv

\* What a transaction commits is a step of DocumentScan, and touches no row of another.
LEMMA CommitStep ==
  ASSUME SweepTypeOK, SweepInv, NEW s \in Workers, Commit(s)
  PROVE  (Sweep \/ UNCHANGED vars) /\ SweepInv'
  <1> DEFINE failed   == sweep[s].failed
             requeued == sweep[s].requeued
  <1>a. /\ sweep \in [Workers -> Transaction] /\ lapsed \in SUBSET Docs
        /\ doc \in [Docs -> Row] /\ audit \in [Docs -> Audit] /\ job \in [Docs -> [Jobs -> Job]]
    BY DEF SweepTypeOK, TypeOK
  <1>b. /\ failed \in SUBSET {d \in Docs : Exhausted(d)}
        /\ requeued \in SUBSET {d \in Docs : Requeueable(d)}
    BY DEF SweepInv
  <1>c. Recover(failed, requeued) /\ sweep' = [sweep EXCEPT ![s] = NoTransaction]
    BY DEF Commit
  <1>1. ASSUME failed \cup requeued # {}
        PROVE  Sweep
    <2> HIDE DEF failed, requeued
    <2>. QED  BY <1>b, <1>c, <1>1, Zenon DEF Sweep
  <1>2. ASSUME failed \cup requeued = {}
        PROVE  UNCHANGED vars
    <2>1. failed = {} /\ requeued = {}
      BY <1>2
    <2> HIDE DEF failed, requeued
    <2>2. doc' = [d \in Docs |-> doc[d]] /\ audit' = [d \in Docs |-> audit[d]]
      BY <1>c, <2>1 DEF Recover
    <2>3. PICK new \in [requeued -> Jobs] :
            job' = [d \in Docs |-> IF d \in requeued THEN [job[d] EXCEPT ![new[d]] = NewJob] ELSE job[d]]
      BY <1>c DEF Recover
    <2>4. job' = [d \in Docs |-> job[d]]
      BY <2>1, <2>3
    <2>5. lapsed' = lapsed /\ UNCHANGED <<request, exec, copy>>
      BY <1>c, <2>1 DEF Recover
    <2>. QED  BY <1>a, <2>2, <2>4, <2>5 DEF vars
  <1>3. ASSUME NEW d \in Docs, d \notin failed, d \notin requeued
        PROVE  doc'[d] = doc[d] /\ (d \in lapsed => d \in lapsed')
    <2> HIDE DEF failed, requeued
    <2>. QED  BY <1>c, <1>3 DEF Recover
  <1>4. sweep'[s] = NoTransaction /\ \A t \in Workers : t # s => sweep'[t] = sweep[t]
    BY <1>a, <1>c
  <1>5. Locked(s)' = {} /\ \A t \in Workers : t # s => Locked(t)' = Locked(t)
    BY <1>4 DEF Locked, NoTransaction
  <1>6. ASSUME NEW t \in Workers
        PROVE  /\ sweep'[t].failed \in SUBSET {d \in Docs : Exhausted(d)'}
               /\ sweep'[t].requeued \in SUBSET {d \in Docs : Requeueable(d)'}
    <2>1. CASE t = s
      BY <1>4, <2>1 DEF NoTransaction
    <2>2. CASE t # s
      <3>1. sweep'[t].failed = sweep[t].failed /\ sweep'[t].requeued = sweep[t].requeued
        BY <1>4, <2>2
      <3>2. ASSUME NEW d \in Locked(t)
            PROVE  /\ d \in Docs
                   /\ (Exhausted(d) => Exhausted(d)') /\ (Requeueable(d) => Requeueable(d)')
        <4>1. d \in Docs /\ d \notin Locked(s)
          BY <2>2, <3>2 DEF SweepInv, Locked
        <4>2. doc'[d] = doc[d] /\ (d \in lapsed => d \in lapsed')
          BY <1>3, <4>1 DEF Locked
        <4>. QED  BY <4>1, <4>2, ConditionsKept
      <3>. QED  BY <3>1, <3>2 DEF SweepInv, Locked
    <2>. QED  BY <2>1, <2>2
  <1>7. \A t, u \in Workers : t # u => Locked(t)' \cap Locked(u)' = {}
    BY <1>5 DEF SweepInv
  <1>. QED  BY <1>1, <1>2, <1>6, <1>7 DEF SweepInv

LEMMA SweepTyped ==
  ASSUME SweepTypeOK, TypeOK', [SweepNext]_sweepVars
  PROVE  SweepTypeOK'
  <1>a. sweep \in [Workers -> Transaction]
    BY DEF SweepTypeOK
  <1>1. ASSUME NEW s \in Workers, Statement(s) \/ Rollback(s)
        PROVE  sweep' \in [Workers -> Transaction]
    <2>a. sweep[s] \in Transaction /\ NoTransaction \in Transaction
      BY <1>a DEF Transaction, NoTransaction
    <2>1. CASE Begin(s)
      BY <1>a, <2>a, <2>1 DEF Begin, Transaction, NoTransaction
    <2>2. CASE BeginRequeueing(s) \/ BeginSending(s)
      BY <1>a, <2>a, <2>2 DEF BeginRequeueing, BeginSending, Transaction
    <2>3. ASSUME NEW d \in Docs, FailRow(s, d) \/ RequeueRow(s, d) \/ Send(s, d)
          PROVE  sweep' \in [Workers -> Transaction]
      <3>2. /\ sweep[s].todo \ {d} \in SUBSET Docs
            /\ sweep[s].failed \in SUBSET Docs /\ sweep[s].failed \cup {d} \in SUBSET Docs
            /\ sweep[s].requeued \in SUBSET Docs /\ sweep[s].requeued \cup {d} \in SUBSET Docs
        BY <2>a, <2>3 DEF Transaction
      <3>3. CASE FailRow(s, d)
        <4> DEFINE new == IF d \notin AllLocked /\ Exhausted(d) THEN sweep[s].failed \cup {d} ELSE sweep[s].failed
        <4>1. new \in SUBSET Docs
          BY <3>2
        <4>2. sweep' = [sweep EXCEPT ![s] = [sweep[s] EXCEPT !.todo = sweep[s].todo \ {d}, !.failed = new]]
          BY <3>3, <1>a DEF FailRow
        <4> HIDE DEF new
        <4>. QED  BY <1>a, <2>a, <3>2, <4>1, <4>2 DEF Transaction
      <3>4. CASE RequeueRow(s, d)
        <4> DEFINE new == IF d \notin AllLocked /\ Requeueable(d) THEN sweep[s].requeued \cup {d} ELSE sweep[s].requeued
        <4>1. new \in SUBSET Docs
          BY <3>2
        <4>2. sweep' = [sweep EXCEPT ![s] = [sweep[s] EXCEPT !.todo = sweep[s].todo \ {d}, !.requeued = new]]
          BY <3>4, <1>a DEF RequeueRow
        <4> HIDE DEF new
        <4>. QED  BY <1>a, <2>a, <3>2, <4>1, <4>2 DEF Transaction
      <3>5. CASE Send(s, d)
        BY <1>a, <2>a, <3>2, <3>5 DEF Send, Transaction
      <3>. QED  BY <2>3, <3>3, <3>4, <3>5
    <2>4. CASE Commit(s) \/ Rollback(s)
      BY <1>a, <2>a, <2>4 DEF Commit, Rollback
    <2>. QED  BY <1>1, <2>1, <2>2, <2>3, <2>4 DEF Statement
  <1>2. CASE Others \/ UNCHANGED sweepVars
    BY <1>a, <1>2 DEF Others, sweepVars, SweepTypeOK
  <1>. QED  BY <1>1, <1>2 DEF SweepNext, SweepTypeOK

LEMMA SweepStep ==
  ASSUME TypeInv, SweepTypeOK, SweepInv, [SweepNext]_sweepVars
  PROVE  [Next]_vars /\ SweepInv'
  <1>1. CASE Others
    <2>1. [Next]_vars /\ Elsewhere /\ UNCHANGED sweep /\ \A d \in AllLocked : doc'[d] = doc[d]
      BY <1>1 DEF Others, Next
    <2>. QED  BY <2>1, LapsedKept, LocksKept
  <1>2. ASSUME NEW s \in Workers, Commit(s)
        PROVE  [Next]_vars /\ SweepInv'
    BY <1>2, CommitStep DEF Next
  <1>3. ASSUME NEW s \in Workers, Statement(s) \/ Rollback(s), ~Commit(s)
        PROVE  [Next]_vars /\ SweepInv'
    <2>1. UNCHANGED vars
      BY <1>3 DEF Statement, Begin, FailRow, BeginRequeueing, RequeueRow, BeginSending, Send, Rollback
    <2>. QED  BY <1>3, <2>1, StatementStep
  <1>4. CASE UNCHANGED sweepVars
    <2>1. UNCHANGED vars /\ UNCHANGED sweep
      BY <1>4 DEF sweepVars
    <2>2. doc' = doc /\ lapsed' = lapsed
      BY <2>1 DEF vars
    <2>. QED  BY <2>1, <2>2, LocksKept
  <1>. QED  BY <1>1, <1>2, <1>3, <1>4 DEF SweepNext

\* However many workers sweep, whatever rows their statements lock and pass over, and wherever a
\* transaction fails, the sweeps that commit are single steps between the others' steps
\* (sweepUntreatedDocuments()).
THEOREM SweepsAtomicCorrect == SweepSpec => SweepsAreAtomic
  <1> DEFINE Inv == TypeInv /\ SweepTypeOK /\ SweepInv
  <1>1. SweepInit => Inv
    BY TypeInit DEF SweepInit, SweepTypeOK, SweepInv, TypeInv, Transaction, NoTransaction, Locked
  <1>2. Inv /\ [SweepNext]_sweepVars => Inv' /\ [Next]_vars
    <2>1. TypeInv' => TypeOK'
      BY DEF TypeInv
    <2>. QED  BY <2>1, SweepStep, SweepTyped, TypeStep
  <1>3. SweepInit => Init
    BY DEF SweepInit
  <1>. QED  BY <1>1, <1>2, <1>3, PTL DEF SweepSpec, SweepsAreAtomic, Spec

=============================================================================
