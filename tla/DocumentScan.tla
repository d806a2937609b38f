---------------------------- MODULE DocumentScan ----------------------------
(***************************************************************************)
(* The security treatment of an uploaded document: the worker's            *)
(* document.scan handler (scan/scan-document.ts) over its conditional      *)
(* UPDATEs (scan/scan.repository.ts), the recovery sweep and the ADMIN's   *)
(* reprocessing (queue.ts), the API's request for it, and the pg-boss      *)
(* queues that deliver the work.                                           *)
(*                                                                         *)
(* Every database statement or transaction is one step, every object       *)
(* storage request is one step, and anything may happen between two of     *)
(* them.  The bytes of a document, the antivirus verdict and the copy      *)
(* without metadata are abstracted to their outcomes.                      *)
(***************************************************************************)
EXTENDS Naturals, FiniteSets

CONSTANTS
  Docs,                 \* rows of the documents table
  Images,               \* the JPEG and PNG ones; the rest are PDF
  Executions,           \* concurrent runs of the document.scan handler
  Jobs,                 \* ids of the document.scan jobs one document may have
  Requests,             \* ids of the reprocessing requests one document may have
  MaxAttempts,          \* SCAN_MAX_ATTEMPTS
  RetryLimit,           \* retryLimit of the document.scan queue
  ReprocessRetryLimit,  \* retryLimit of the document.reprocess queue
  Tokens,               \* values of scan_started_at
  Faults,               \* which faults may happen: see FaultKinds
  None                  \* no document, no job, NULL

(***************************************************************************)
(* "crash": a worker process dies with the handlers it runs.               *)
(* "database": a statement fails, or commits and its answer is lost.       *)
(* "overrun": a handler outlives its lease or its job's expiry.            *)
(* "longLease": SCAN_LEASE_SECONDS is not below the job expiry.            *)
(* "removal": deleteObject of the copy of a failed treatment fails.        *)
(* "rollback": a sweep fails at one of its statements (DocumentSweep).     *)
(* Any other error of the storage, the antivirus or the cleaning of the    *)
(* metadata may always happen.                                             *)
(***************************************************************************)
FaultKinds == {"crash", "database", "overrun", "longLease", "removal", "rollback"}

ASSUME ScanAssumption ==
  /\ Images \subseteq Docs
  /\ MaxAttempts \in Nat \ {0}
  /\ RetryLimit \in Nat
  /\ ReprocessRetryLimit \in Nat
  /\ Faults \subseteq FaultKinds
  /\ None \notin Docs
  /\ None \notin Jobs
  /\ None \notin Tokens

VARIABLES
  doc,      \* the scan columns of each row of documents
  lapsed,   \* the documents whose scan_started_at is older than the lease
  job,      \* the document.scan jobs of each document
  request,  \* the document.reprocess jobs of each document
  exec,     \* the running handlers
  copy,     \* the documents with an object under sanitizedKeyOf(storage_key)
  audit     \* how many audit_logs rows of each action each document has

vars == <<doc, lapsed, job, request, exec, copy, audit>>

-----------------------------------------------------------------------------
(***************************************************************************)
(* Types                                                                   *)
(***************************************************************************)
Results  == {"CLEAN", "INFECTED", "SCAN_FAILED"}
Statuses == {"UPLOADED", "PENDING_SCAN", "SCANNING"} \cup Results

(***************************************************************************)
(* startedAt is scan_started_at, the claim token: only its equality with   *)
(* the token a handler remembers, and whether it is older than the lease   *)
(* (lapsed), matter.  The three Booleans say whether scanned_at,           *)
(* scan_signature and sanitized_storage_key are set.                       *)
(***************************************************************************)
Row == [status: Statuses, attempts: Nat, startedAt: Tokens \cup {None},
        scannedAt: BOOLEAN, signature: BOOLEAN, sanitizedKey: BOOLEAN]

\* A job that was never sent or is finished for good is "idle".
Job     == [state: {"idle", "queued", "active"}, deliveries: Nat]
IdleJob == [state |-> "idle", deliveries |-> 0]
NewJob  == [state |-> "queued", deliveries |-> 0]

\* A reprocessing job is "answered" once its handler is over and pg-boss does not know it yet.
Request == [state: {"unused", "queued", "answered", "done"}, deliveries: Nat]

Claimed == {"treating", "storing", "markingClean", "markingInfected",
            "failing"}
Exec == [pc: {"idle", "claiming", "skipped", "removing", "returning", "throwing"} \cup Claimed,
         doc: Docs \cup {None}, job: Jobs \cup {None},
         attempts: Nat, token: Tokens \cup {None}]
IdleExec == [pc |-> "idle", doc |-> None, job |-> None,
             attempts |-> 0, token |-> None]

Audit   == [clean: Nat, infected: Nat, failed: Nat, reprocessed: Nat]
NoAudit == [clean |-> 0, infected |-> 0, failed |-> 0, reprocessed |-> 0]

(***************************************************************************)
(* A document enters as the upload leaves it, PENDING_SCAN with its job,   *)
(* or is a legacy UPLOADED one without a job.                              *)
(***************************************************************************)
NewRow(status) == [status |-> status, attempts |-> 0, startedAt |-> None,
                   scannedAt |-> FALSE, signature |-> FALSE,
                   sanitizedKey |-> FALSE]

Init ==
  /\ \E legacy \in SUBSET Docs :
       /\ doc = [d \in Docs |->
                   NewRow(IF d \in legacy THEN "UPLOADED" ELSE "PENDING_SCAN")]
       /\ \E first \in Jobs :
            job = [d \in Docs |-> [k \in Jobs |->
                     IF k = first /\ d \notin legacy THEN NewJob ELSE IdleJob]]
  /\ lapsed = {}
  /\ request = [d \in Docs |-> [r \in Requests |->
                  [state |-> "unused", deliveries |-> 0]]]
  /\ exec = [w \in Executions |-> IdleExec]
  /\ copy = {}
  /\ audit = [d \in Docs |-> NoAudit]

-----------------------------------------------------------------------------
(***************************************************************************)
(* The queues (pg-boss)                                                    *)
(***************************************************************************)

\* Mutant of Refused: a queue without retries.
RefusedForGood(j) == IdleJob

\* A delivery that failed, crashed or expired: retried while deliveries are left.
Refused(j) == IF j.deliveries <= RetryLimit
              THEN [j EXCEPT !.state = "queued"]
              ELSE IdleJob

RefusedRequest(q) ==
  [q EXCEPT !.state = IF q.deliveries <= ReprocessRetryLimit
                      THEN "queued" ELSE "done"]

\* pg-boss hands a job to a free handler.
Deliver(w, d, k) ==
  /\ exec[w].pc = "idle"
  /\ job[d][k].state = "queued"
  /\ job' = [job EXCEPT ![d][k] =
               [state |-> "active", deliveries |-> job[d][k].deliveries + 1]]
  /\ exec' = [exec EXCEPT ![w] =
               [IdleExec EXCEPT !.pc = "claiming", !.doc = d, !.job = k]]
  /\ UNCHANGED <<doc, lapsed, request, copy, audit>>

\* The handler returned: its job is completed, unless it had expired meanwhile.
Complete(w) ==
  /\ exec[w].pc \in {"skipped", "returning"}
  /\ exec' = [exec EXCEPT ![w] = IdleExec]
  /\ job' = IF exec[w].job = None
            THEN job
            ELSE [job EXCEPT ![exec[w].doc][exec[w].job] = IdleJob]
  /\ UNCHANGED <<doc, lapsed, request, copy, audit>>

\* The handler threw: its job is retried or fails for good.
Reject(w) ==
  /\ exec[w].pc = "throwing"
  /\ exec' = [exec EXCEPT ![w] = IdleExec]
  /\ job' = IF exec[w].job = None
            THEN job
            ELSE [job EXCEPT ![exec[w].doc][exec[w].job] = Refused(@)]
  /\ UNCHANGED <<doc, lapsed, request, copy, audit>>

\* The worker process dies: nothing the handler did in the database or the storage is undone.
Crash(w) ==
  /\ "crash" \in Faults
  /\ exec[w].pc # "idle"
  /\ exec' = [exec EXCEPT ![w] = IdleExec]
  /\ UNCHANGED <<doc, lapsed, job, request, copy, audit>>

\* The handlers whose claim of d is the one the row records.
Holders(d) == {w \in Executions : /\ exec[w].pc \in Claimed
                                  /\ exec[w].doc = d
                                  /\ exec[w].token = doc[d].startedAt}

Running(d, k) == {w \in Executions : exec[w].doc = d /\ exec[w].job = k}

\* The handlers still at work when their job expires.  The claim is one short statement at the
\* start, so a lease below expireInSeconds has expired before the job does, and a handler that
\* finds nothing to claim is over long before.
MayOutliveJob(w) ==
  /\ "overrun" \in Faults
  /\ exec[w].pc \in {"claiming", "skipped"} => "database" \in Faults
  /\ w \in Holders(exec[w].doc) /\ doc[exec[w].doc].status = "SCANNING"
       => exec[w].doc \in lapsed \/ "longLease" \in Faults

\* An active job outlives expireInSeconds.  A handler that still runs it goes on, on its own.
JobExpires(d, k) ==
  /\ job[d][k].state = "active"
  /\ \A w \in Running(d, k) : MayOutliveJob(w)
  /\ job' = [job EXCEPT ![d][k] = Refused(@)]
  /\ exec' = [w \in Executions |-> IF w \in Running(d, k)
                                   THEN [exec[w] EXCEPT !.job = None]
                                   ELSE exec[w]]
  /\ UNCHANGED <<doc, lapsed, request, copy, audit>>

-----------------------------------------------------------------------------
(***************************************************************************)
(* The document.scan handler: scanDocument over the ScanRepository         *)
(***************************************************************************)
Goto(w, pc) == exec' = [exec EXCEPT ![w] = [@ EXCEPT !.pc = pc]]

\* The claim is forgotten: only the way the handler ends is left.
Leave(w, pc) ==
  exec' = [exec EXCEPT ![w] =
             [@ EXCEPT !.pc = pc, !.attempts = 0, !.token = None]]

\* Mutant of Abandoned: without the lease.
AbandonedAtOnce(d) == doc[d].status = "SCANNING"

Abandoned(d) == doc[d].status = "SCANNING" /\ d \in lapsed

\* Mutant of Claimable: anything nobody is treating.
ClaimableUnlessClaimed(d) == doc[d].status # "SCANNING" \/ Abandoned(d)

Claimable(d) == doc[d].status = "PENDING_SCAN" \/ Abandoned(d)

\* Mutant of Holds: without the status.
HoldsByToken(w) == doc[exec[w].doc].startedAt = exec[w].token

\* The condition of every UPDATE of a claim: status SCANNING and the same scan_started_at.
Holds(w) == /\ doc[exec[w].doc].status = "SCANNING"
            /\ doc[exec[w].doc].startedAt = exec[w].token

\* The claim in course grows older than SCAN_LEASE_SECONDS.
LeaseExpires(d) ==
  /\ doc[d].status = "SCANNING"
  /\ d \notin lapsed
  /\ Holders(d) = {} \/ "overrun" \in Faults
  /\ lapsed' = lapsed \cup {d}
  /\ UNCHANGED <<doc, job, request, exec, copy, audit>>

NoWrite == UNCHANGED <<doc, lapsed, audit>>

\* Mutant of Now: a clock too coarse, new to the row only.
NowOfTheRow(d) == CHOOSE t \in Tokens : t # doc[d].startedAt

\* clock_timestamp() is new to the row and to every handler that remembers a claim of it: the
\* tokens nobody remembers any more stand for the instants still to come.
Remembered(d) == {doc[d].startedAt} \cup {exec[w].token : w \in Executions}
Now(d) == CHOOSE t \in Tokens : t \notin Remembered(d)

\* scan_attempts is added up here and nowhere else; the new token fences every older claim.
TakeClaim(d) ==
  /\ Claimable(d)
  /\ ~(Tokens \subseteq Remembered(d))  \* the bound on Tokens: one more than can be remembered
  /\ doc' = [doc EXCEPT ![d] = [@ EXCEPT !.status = "SCANNING",
                                         !.attempts = doc[d].attempts + 1,
                                         !.startedAt = Now(d)]]
  /\ lapsed' = lapsed \ {d}

\* claim(): taken, not there to take ("skipped"), or an error, before or after its commit.
Claim(w) ==
  LET d == exec[w].doc
  IN  /\ exec[w].pc = "claiming"
      /\ \/ /\ TakeClaim(d)
            /\ exec' = [exec EXCEPT ![w] =
                          [@ EXCEPT !.pc = "treating",
                                    !.attempts = doc[d].attempts + 1,
                                    !.token = Now(d)]]
         \/ /\ ~Claimable(d)
            /\ Goto(w, "skipped")
            /\ UNCHANGED <<doc, lapsed>>
         \/ /\ "database" \in Faults
            /\ Goto(w, "throwing")
            /\ TakeClaim(d) \/ UNCHANGED <<doc, lapsed>>
      /\ UNCHANGED <<job, request, copy, audit>>

\* getObject, the size check and the antivirus: a threat, no threat, or an error.
Treat(w) ==
  /\ exec[w].pc = "treating"
  /\ \E pc \in {"markingInfected", "failing",
                IF exec[w].doc \in Images THEN "storing" ELSE "markingClean"} :
       Goto(w, pc)
  /\ UNCHANGED <<doc, lapsed, job, request, copy, audit>>

\* Mutant of StoreCopy: putObject is not awaited.
StoreCopyUnawaited(w) ==
  /\ exec[w].pc = "storing"
  /\ copy' \in {copy, copy \cup {exec[w].doc}}
  /\ Goto(w, "markingClean")
  /\ UNCHANGED <<doc, lapsed, job, request, audit>>

\* storeSanitizedCopy() of an image.  A failed putObject may have reached the storage.
StoreCopy(w) ==
  /\ exec[w].pc = "storing"
  /\ \/ copy' = copy \cup {exec[w].doc} /\ Goto(w, "markingClean")
     \/ copy' \in {copy, copy \cup {exec[w].doc}} /\ Goto(w, "failing")
  /\ UNCHANGED <<doc, lapsed, job, request, audit>>

\* The audit_logs row that goes with a result.
Audited(a, status) ==
  CASE status = "CLEAN"       -> [a EXCEPT !.clean = @ + 1]
    [] status = "INFECTED"    -> [a EXCEPT !.infected = @ + 1]
    [] status = "SCAN_FAILED" -> [a EXCEPT !.failed = @ + 1]

\* finish(): the result, its columns and its audit row, only while the claim is ours.
Finish(w, status) ==
  LET d == exec[w].doc
  IN  /\ Holds(w)
      /\ doc' = [doc EXCEPT ![d] =
                   [@ EXCEPT !.status = status,
                             !.scannedAt = TRUE,
                             !.signature = (status = "INFECTED"),
                             !.sanitizedKey = (status = "CLEAN" /\ d \in Images)]]
      /\ lapsed' = lapsed \ {d}
      /\ audit' = [audit EXCEPT ![d] = Audited(@, status)]

\* markClean() and markInfected(): recorded, "lost" to another claim, or an error.
Mark(w, pc, status) ==
  /\ exec[w].pc = pc
  /\ \/ Finish(w, status) /\ Leave(w, "returning")
     \/ ~Holds(w) /\ NoWrite /\ Leave(w, "returning")
     \/ /\ "database" \in Faults
        /\ Finish(w, status) \/ NoWrite
        /\ Goto(w, "failing")
  /\ UNCHANGED <<job, request, copy>>

MarkClean(w)    == Mark(w, "markingClean", "CLEAN")
MarkInfected(w) == Mark(w, "markingInfected", "INFECTED")

\* The catch of scanDocument() with no attempts left: markFailed(), then the copy is removed.
MarkFailed(w) ==
  /\ exec[w].pc = "failing"
  /\ exec[w].attempts >= MaxAttempts
  /\ \/ /\ Finish(w, "SCAN_FAILED")
        /\ Leave(w, IF exec[w].doc \in Images THEN "removing" ELSE "returning")
     \/ ~Holds(w) /\ NoWrite /\ Leave(w, "returning")
     \/ /\ "database" \in Faults
        /\ Finish(w, "SCAN_FAILED") \/ NoWrite
        /\ Leave(w, "throwing")
  /\ UNCHANGED <<job, request, copy>>

\* removeSanitizedCopy(): a failed deleteObject is only logged, and may have deleted it or not.
RemoveCopy(w) ==
  LET d == exec[w].doc
  IN  /\ exec[w].pc = "removing"
      /\ \/ copy' = copy \ {d}
         \/ "removal" \in Faults /\ copy' = copy
      /\ Leave(w, "returning")
      /\ UNCHANGED <<doc, lapsed, job, request, audit>>

\* The catch of scanDocument() with attempts left: release(), and the error is rethrown.
Release(w) ==
  LET d == exec[w].doc
  IN  /\ exec[w].pc = "failing"
      /\ exec[w].attempts < MaxAttempts
      /\ \/ /\ Holds(w)
            /\ doc' = [doc EXCEPT ![d] =
                         [@ EXCEPT !.status = "PENDING_SCAN", !.startedAt = None]]
            /\ lapsed' = lapsed \ {d}
         \/ ~Holds(w) /\ UNCHANGED <<doc, lapsed>>
         \/ "database" \in Faults /\ UNCHANGED <<doc, lapsed>>
      /\ Leave(w, "throwing")
      /\ UNCHANGED <<job, request, copy, audit>>

-----------------------------------------------------------------------------
(***************************************************************************)
(* Recovery: sweepUntreatedDocuments()                                     *)
(***************************************************************************)
\* Mutants of Exhausted and Requeueable: each with one condition wrong or dropped.
ExhaustedEarly(d)    == Abandoned(d) /\ doc[d].attempts + 1 >= MaxAttempts
ExhaustedLate(d)     == Abandoned(d) /\ doc[d].attempts > MaxAttempts
RequeueableClaims(d) == Abandoned(d) /\ doc[d].attempts < MaxAttempts

Exhausted(d)   == Abandoned(d) /\ doc[d].attempts >= MaxAttempts
Requeueable(d) == \/ doc[d].status = "UPLOADED"
                  \/ Abandoned(d) /\ doc[d].attempts < MaxAttempts

\* What a sweep commits: each failed row with its audit row, each requeued one with its job.
Recover(failed, requeued) ==
  /\ doc' = [d \in Docs |->
       IF d \in failed
       THEN [doc[d] EXCEPT !.status = "SCAN_FAILED", !.scannedAt = TRUE]
       ELSE IF d \in requeued
       THEN [doc[d] EXCEPT !.status = "PENDING_SCAN", !.startedAt = None]
       ELSE doc[d]]
  /\ audit' = [d \in Docs |-> IF d \in failed
                              THEN Audited(audit[d], "SCAN_FAILED")
                              ELSE audit[d]]
  /\ \E new \in [requeued -> Jobs] :
       /\ \A d \in requeued : job[d][new[d]].state = "idle"
       /\ job' = [d \in Docs |-> IF d \in requeued
                                 THEN [job[d] EXCEPT ![new[d]] = NewJob]
                                 ELSE job[d]]
  /\ lapsed' = lapsed \ (failed \cup requeued)
  /\ UNCHANGED <<request, exec, copy>>

\* One transaction of two UPDATEs and a send for each requeued row, shown whole here: it locks the
\* rows it changes, and shows the changes when it commits.  DocumentSweep takes it statement by
\* statement and row by row, and implements this step.  SKIP LOCKED may leave out any of the rows
\* that need it.
Sweep ==
  \E failed \in SUBSET {d \in Docs : Exhausted(d)},
     requeued \in SUBSET {d \in Docs : Requeueable(d)} :
    failed \cup requeued # {} /\ Recover(failed, requeued)

-----------------------------------------------------------------------------
(***************************************************************************)
(* Reprocessing: the ADMIN asks through the API, the worker does it        *)
(***************************************************************************)

\* requestReprocess(): refused unless SCAN_FAILED.  The job may be delivered any time later, so
\* that the check and the insertion are one step loses nothing.
RequestReprocess(d, r) ==
  /\ request[d][r].state = "unused"
  /\ doc[d].status = "SCAN_FAILED"
  /\ request' = [request EXCEPT ![d][r] = [@ EXCEPT !.state = "queued"]]
  /\ UNCHANGED <<doc, lapsed, job, exec, copy, audit>>

\* Mutant of NewRound: the result columns are kept.
NewRoundKeepingColumns(d, k) ==
  /\ doc[d].status = "SCAN_FAILED"
  /\ job[d][k].state = "idle"
  /\ doc' = [doc EXCEPT ![d] = [@ EXCEPT !.status = "PENDING_SCAN", !.attempts = 0]]
  /\ job' = [job EXCEPT ![d][k] = NewJob]
  /\ audit' = [audit EXCEPT ![d] = [@ EXCEPT !.reprocessed = audit[d].reprocessed + 1]]

\* reprocessDocument(): a new round of attempts for a document still SCAN_FAILED.
NewRound(d, k) ==
  /\ doc[d].status = "SCAN_FAILED"
  /\ job[d][k].state = "idle"
  /\ doc' = [doc EXCEPT ![d] = NewRow("PENDING_SCAN")]
  /\ job' = [job EXCEPT ![d][k] = NewJob]
  /\ audit' = [audit EXCEPT ![d] = [@ EXCEPT !.reprocessed = audit[d].reprocessed + 1]]

\* One delivery of a document.reprocess job, its transaction included.
Reprocess(d, r) ==
  LET delivered == [request[d][r] EXCEPT !.deliveries = @ + 1]
      answered  == [delivered EXCEPT !.state = "answered"]
  IN  /\ request[d][r].state = "queued"
      /\ \/ /\ \E k \in Jobs : NewRound(d, k)
            /\ request' = [request EXCEPT ![d][r] = answered]
         \/ /\ doc[d].status # "SCAN_FAILED"
            /\ request' = [request EXCEPT ![d][r] = answered]
            /\ UNCHANGED <<doc, job, audit>>
         \/ /\ "database" \in Faults
            /\ request' = [request EXCEPT ![d][r] = RefusedRequest(delivered)]
            /\ (\E k \in Jobs : NewRound(d, k)) \/ UNCHANGED <<doc, job, audit>>
      /\ UNCHANGED <<lapsed, exec, copy>>

\* pg-boss learns that the handler is over, or the worker dies first and the job expires.
SettleRequest(d, r) ==
  /\ request[d][r].state = "answered"
  /\ \/ request' = [request EXCEPT ![d][r] = [@ EXCEPT !.state = "done"]]
     \/ /\ "crash" \in Faults
        /\ request' = [request EXCEPT ![d][r] = RefusedRequest(@)]
  /\ UNCHANGED <<doc, lapsed, job, exec, copy, audit>>

-----------------------------------------------------------------------------
Handler(w) == \/ Claim(w) \/ Treat(w) \/ StoreCopy(w)
              \/ MarkClean(w) \/ MarkInfected(w) \/ MarkFailed(w)
              \/ RemoveCopy(w) \/ Release(w)
              \/ Complete(w) \/ Reject(w)

\* Everything but the sweep.
Elsewhere ==
  \/ \E w \in Executions : \/ Handler(w)
                          \/ Crash(w)
                          \/ \E d \in Docs, k \in Jobs : Deliver(w, d, k)
  \/ \E d \in Docs : \/ LeaseExpires(d)
                    \/ \E k \in Jobs : JobExpires(d, k)
                    \/ \E r \in Requests : \/ RequestReprocess(d, r)
                                           \/ Reprocess(d, r)
                                           \/ SettleRequest(d, r)

Next == Elsewhere \/ Sweep

Spec == Init /\ [][Next]_vars

(***************************************************************************)
(* A process that is alive gets on with its handlers; pg-boss delivers,    *)
(* in order of creation, to whatever handler is free, and supervises the   *)
(* expiry of active jobs; time passes, so leases expire.                   *)
(***************************************************************************)
FairnessElsewhere ==
  /\ \A w \in Executions : WF_vars(Handler(w))
  /\ \A d \in Docs :
       /\ WF_vars(LeaseExpires(d))
       /\ \A k \in Jobs : /\ SF_vars(\E w \in Executions : Deliver(w, d, k))
                          /\ WF_vars(JobExpires(d, k))
       /\ \A r \in Requests : /\ WF_vars(Reprocess(d, r))
                              /\ WF_vars(SettleRequest(d, r))

\* The sweep runs every SCAN_SWEEP_INTERVAL_SECONDS and tries again after an error.
Fairness == FairnessElsewhere /\ \A d \in Docs : WF_vars(Sweep /\ doc'[d] # doc[d])

FairSpec == Spec /\ Fairness

-----------------------------------------------------------------------------
(***************************************************************************)
(* Invariants                                                              *)
(***************************************************************************)
TypeOK ==
  /\ doc \in [Docs -> Row]
  /\ lapsed \in SUBSET Docs
  /\ job \in [Docs -> [Jobs -> Job]]
  /\ request \in [Docs -> [Requests -> Request]]
  /\ exec \in [Executions -> Exec]
  /\ copy \in SUBSET Docs
  /\ audit \in [Docs -> Audit]

\* However many handlers believe they treat a document, the row accepts the result of one: the
\* token check of finish() and release() fences the handlers whose claim was taken over.
OneHolder == \A d \in Docs : \A v, w \in Holders(d) : v = w

\* A round of treatment has one result and one audit row for it, whoever wrote it (finish() of a
\* handler or the sweep), and a failed round is reopened at most once (reprocessDocument()).
AuditMatchesStatus ==
  \A d \in Docs :
    /\ audit[d].clean = (IF doc[d].status = "CLEAN" THEN 1 ELSE 0)
    /\ audit[d].infected = (IF doc[d].status = "INFECTED" THEN 1 ELSE 0)
    /\ audit[d].failed = audit[d].reprocessed
                         + (IF doc[d].status = "SCAN_FAILED" THEN 1 ELSE 0)

\* The columns of a row always tell the same story as its status, over retries, sweeps and new
\* rounds: what finish(), release(), the sweep and reprocessDocument() each leave behind.
ColumnsMatchStatus ==
  \A d \in Docs :
    LET row == doc[d]
    IN  /\ row.scannedAt <=> row.status \in Results
        /\ row.signature <=> row.status = "INFECTED"
        /\ row.sanitizedKey <=> row.status = "CLEAN" /\ d \in Images
        /\ row.status \in {"UPLOADED", "PENDING_SCAN"} => row.startedAt = None
        /\ row.status = "SCANNING" => row.startedAt # None
        /\ d \in lapsed => row.status = "SCANNING"

\* A document is given up only after its attempts, although markFailed() decides on the count its
\* claim returned, long before, and not on the row.
FailedWhenExhausted ==
  \A d \in Docs : doc[d].status = "SCAN_FAILED" => doc[d].attempts >= MaxAttempts

-----------------------------------------------------------------------------
(***************************************************************************)
(* Action properties                                                       *)
(***************************************************************************)

\* Within its lease a claim ends by a step of the handler that holds it and of nobody else: not of
\* a stale handler, a duplicate job, the sweep or a reprocessing.
LiveClaimEndsByItsHolder ==
  [][\A d \in Docs :
       /\ doc[d].status = "SCANNING"
       /\ d \notin lapsed
       /\ doc'[d] # doc[d]
       => \E w \in Holders(d) : exec'[w] # exec[w]]_vars

\* The rows, seen through their status, and the audit trail implement the promise.
Outcome(status) ==
  CASE status = "CLEAN"       -> "clean"
    [] status = "INFECTED"    -> "infected"
    [] status = "SCAN_FAILED" -> "failed"
    [] OTHER                  -> "pending"

Outcomes == [d \in Docs |-> Outcome(doc[d].status)]

Lifecycle == INSTANCE DocumentLifecycle WITH state <- Outcomes, log <- audit

\* Whatever the interleaving and the faults, an observer of status and audit_logs sees only what
\* DocumentLifecycle allows.
ImplementsLifecycle == Lifecycle!Spec

-----------------------------------------------------------------------------
(***************************************************************************)
(* The copy of an image and the jobs of a document.  Both hold only in     *)
(* part of the deployments: see the runs.                                  *)
(***************************************************************************)

\* A CLEAN image always has the copy its download serves.
CleanImageHasCopy ==
  \A d \in Images : doc[d].status = "CLEAN" => d \in copy

Live(d, k) == job[d][k].state # "idle"

\* A document waiting for its treatment has a document.scan job that will bring it.
PendingHasJob ==
  \A d \in Docs : doc[d].status = "PENDING_SCAN" => \E k \in Jobs : Live(d, k)

-----------------------------------------------------------------------------
(***************************************************************************)
(* Liveness                                                                *)
(***************************************************************************)

\* Every document that enters gets a result.
EventuallyTreated ==
  \A d \in Docs : doc[d].status \notin Results ~> doc[d].status \in Results

\* A claim does not last for ever, whatever happens to its worker.
ClaimsEnd == \A d \in Docs : doc[d].status = "SCANNING" ~> doc[d].status # "SCANNING"

=============================================================================
