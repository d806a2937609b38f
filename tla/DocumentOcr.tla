---------------------------- MODULE DocumentOcr ----------------------------
(***************************************************************************)
(* The OCR of clean documents: the worker's document.ocr handler           *)
(* (ocr/ocr-document.ts) over its conditional UPDATEs                      *)
(* (ocr/ocr.repository.ts), the sweep of abandoned claims and the ADMIN's  *)
(* reprocessing (ocr/ocr-queue.ts), the activation (ocr/ocr-activation.ts) *)
(* and what the security treatment does for the OCR when it records a      *)
(* result (scan/scan.repository.ts).                                       *)
(*                                                                         *)
(* The treatment itself is what DocumentLifecycle promises, which          *)
(* DocumentScan is shown to implement; here a result also decides the OCR  *)
(* state in the same transaction.  Every database statement or             *)
(* transaction, every request to the storage and every call of the         *)
(* provider is one step.  The text is abstracted to its outcome.           *)
(***************************************************************************)
EXTENDS Naturals, FiniteSets

CONSTANTS
  Docs,            \* rows of the documents table
  Executions,      \* concurrent runs of the document.ocr handler
  MaxAttempts,     \* OCR_MAX_ATTEMPTS
  RetryLimit,      \* retryLimit of the document.ocr queue
  MaxScanRounds,   \* bound: reprocessings of the treatment, per document
  MaxReprocesses,  \* bound: requests for a reprocessing of the OCR, per document
  MaxStarts,       \* bound: starts of the worker
  MaxMishaps,      \* bound: handlers that die, statements that fail and jobs that expire
  None             \* no document

ASSUME OcrAssumption ==
  /\ MaxAttempts \in Nat \ {0}
  /\ RetryLimit \in Nat
  /\ MaxMishaps \in Nat
  /\ None \notin Docs

VARIABLES
  state,        \* what the treatment has made of each document
  log,          \* its audit events
  fileType,     \* documents.file_type: an image or a PDF
  row,          \* the OCR columns of each row of documents
  lapsed,       \* the documents whose ocr_started_at is older than the lease
  results,      \* how many ocr_results rows, with their event, each document has
  reprocessed,  \* how many document.ocr_reprocessed events each document has
  asked,        \* how many document.ocr_reprocess jobs are waiting for each document
  queued,       \* how many document.ocr jobs are waiting, by the deliveries they have had
  exec,         \* the running handlers
  worker,       \* how the worker runs: OCR_ENABLED and OCR_PDF_ENABLED
  starts,       \* how many times it was started
  mishaps       \* how many mishaps there were

treatment == <<state, log>>
deployment == <<fileType, worker, starts>>
vars == <<treatment, deployment, row, lapsed, results, reprocessed, asked, queued, exec, mishaps>>

Treatment == INSTANCE DocumentLifecycle

-----------------------------------------------------------------------------
OcrStatuses == {"NOT_STARTED", "PENDING", "PROCESSING", "COMPLETED", "FAILED",
                "NOT_APPLICABLE", "EXCLUDED"}
Row == [status: OcrStatuses, attempts: Nat]

(***************************************************************************)
(* A claim is identified by its ocr_started_at.  The clock moves on and    *)
(* every claim of a round counts an attempt, so the round and the attempt  *)
(* stand for it.                                                           *)
(***************************************************************************)
Claims == [round: Nat, attempts: Nat]
NoClaim == [round |-> 0, attempts |-> 0]

\* deliveries: of the job it runs, 0 when that job has expired.
InClaim == {"excluding", "reading", "recognizing", "completing", "failing", "releasing"}
Exec == [pc: {"idle", "claiming", "returning"} \cup InClaim,
         doc: Docs \cup {None}, deliveries: Nat, claim: Claims]
IdleExec == [pc |-> "idle", doc |-> None, deliveries |-> 0, claim |-> NoClaim]

Results == [completed: Nat, failed: Nat]

Active  == worker \in {"on", "onWithPdf"}
Running == worker # "stopped"
PdfAllowed == worker = "onWithPdf"

\* The worker has run without OCR so far; the files are what was uploaded.
Init ==
  /\ Treatment!Init
  /\ fileType \in [Docs -> {"image", "pdf"}]
  /\ row = [d \in Docs |-> [status |-> "NOT_STARTED", attempts |-> 0]]
  /\ lapsed = {}
  /\ results = [d \in Docs |-> [completed |-> 0, failed |-> 0]]
  /\ reprocessed = [d \in Docs |-> 0]
  /\ asked = [d \in Docs |-> 0]
  /\ queued = [d \in Docs |-> [n \in 0..RetryLimit |-> 0]]
  /\ exec = [e \in Executions |-> IdleExec]
  /\ worker = "off"
  /\ starts = 0
  /\ mishaps = 0

-----------------------------------------------------------------------------
(***************************************************************************)
(* The queue                                                               *)
(***************************************************************************)
\* A new job for each of the documents S.
Send(S) == queued' = [d \in Docs |-> IF d \in S
                                     THEN [queued[d] EXCEPT ![0] = queued[d][0] + 1]
                                     ELSE queued[d]]

\* A delivery of a job of d came to nothing; it waits again while it has retries left.
Retry(d, deliveries) ==
  queued' = IF deliveries \in 1..RetryLimit
            THEN [queued EXCEPT ![d] = [queued[d] EXCEPT ![deliveries] = queued[d][deliveries] + 1]]
            ELSE queued

Deliver(e, d, n) ==
  /\ Active
  /\ exec[e].pc = "idle"
  /\ queued[d][n] > 0
  /\ queued' = [queued EXCEPT ![d] = [queued[d] EXCEPT ![n] = queued[d][n] - 1]]
  /\ exec' = [exec EXCEPT ![e] = [pc |-> "claiming", doc |-> d, deliveries |-> n + 1,
                                  claim |-> NoClaim]]
  /\ UNCHANGED <<treatment, deployment, row, lapsed, results, reprocessed, asked, mishaps>>

\* The handler returned: its job is completed, or had expired.
Return(e) ==
  /\ exec[e].pc = "returning"
  /\ exec' = [exec EXCEPT ![e] = IdleExec]
  /\ UNCHANGED <<treatment, deployment, row, lapsed, results, reprocessed, asked, queued, mishaps>>

(***************************************************************************)
(* The process dies, or a statement fails: with its transaction rolled     *)
(* back, or committed and its answer lost, which is to die on returning.   *)
(* Nothing catches the error, so pg-boss retries the job.                  *)
(***************************************************************************)
Die(e) ==
  /\ mishaps < MaxMishaps
  /\ exec[e].pc # "idle"
  /\ mishaps' = mishaps + 1
  /\ Retry(exec[e].doc, exec[e].deliveries)
  /\ exec' = [exec EXCEPT ![e] = IdleExec]
  /\ UNCHANGED <<treatment, deployment, row, lapsed, results, reprocessed, asked>>

\* The job of a handler expires under it; the handler goes on.
JobExpires(e) ==
  /\ mishaps < MaxMishaps
  /\ exec[e].pc # "idle"
  /\ exec[e].deliveries > 0
  /\ mishaps' = mishaps + 1
  /\ Retry(exec[e].doc, exec[e].deliveries)
  /\ exec' = [exec EXCEPT ![e].deliveries = 0]
  /\ UNCHANGED <<treatment, deployment, row, lapsed, results, reprocessed, asked>>

-----------------------------------------------------------------------------
(***************************************************************************)
(* The handler                                                             *)
(***************************************************************************)
Goto(e, pc) == exec' = [exec EXCEPT ![e].pc = pc]

SetStatus(d, status) == row' = [row EXCEPT ![d].status = status]

\* Mutant of Abandoned: the lease is not looked at.
AbandonedAtOnce(d) == row[d].status = "PROCESSING"

Abandoned(d) == row[d].status = "PROCESSING" /\ d \in lapsed

Claimable(d) ==
  /\ state[d] = "clean"
  /\ row[d].status = "PENDING" \/ Abandoned(d)

\* Mutant of AfterClaim: a PDF queued under an earlier configuration is processed.
AfterClaimOfAny(d) == "reading"

\* A PDF this worker may not process goes no further.
AfterClaim(d) == IF fileType[d] = "pdf" /\ ~PdfAllowed THEN "excluding" ELSE "reading"

\* Mutant of Counted: a retry is not a new attempt.
CountedOnce(d) == 1

Counted(d) == row[d].attempts + 1

Claim(e) ==
  LET d == exec[e].doc
  IN  /\ exec[e].pc = "claiming"
      /\ \/ /\ Claimable(d)
            /\ row' = [row EXCEPT ![d] = [status |-> "PROCESSING", attempts |-> Counted(d)]]
            /\ lapsed' = lapsed \ {d}
            /\ exec' = [exec EXCEPT ![e] =
                          [pc |-> AfterClaim(d), doc |-> d, deliveries |-> exec[e].deliveries,
                           claim |-> [round |-> reprocessed[d], attempts |-> Counted(d)]]]
         \/ ~Claimable(d) /\ Goto(e, "returning") /\ UNCHANGED <<row, lapsed>>
      /\ UNCHANGED <<treatment, deployment, results, reprocessed, asked, queued, mishaps>>

\* A permanent error or the last attempt ends it; any other error is tried again later.
AfterError(e) == {"failing"} \cup IF exec[e].claim.attempts >= MaxAttempts
                                  THEN {} ELSE {"releasing"}

\* getObject: the provider is called next, with what was read.
Read(e) ==
  /\ exec[e].pc = "reading"
  /\ \E pc \in {"recognizing"} \cup AfterError(e) : Goto(e, pc)
  /\ UNCHANGED <<treatment, deployment, row, lapsed, results, reprocessed, asked, queued, mishaps>>

\* The provider answers with the pages of the document, or with what is no answer, or not at all.
Recognize(e) ==
  /\ exec[e].pc = "recognizing"
  /\ \E pc \in {"completing"} \cup AfterError(e) : Goto(e, pc)
  /\ UNCHANGED <<treatment, deployment, row, lapsed, results, reprocessed, asked, queued, mishaps>>

\* Mutant of Holds: the state is not compared, and a failed row keeps its ocr_started_at.
HoldsByClaim(e) ==
  LET d == exec[e].doc
  IN  exec[e].claim = [round |-> reprocessed[d], attempts |-> row[d].attempts]

\* The condition of every write at the end of the handler: the claim is still its own.
Holds(e) ==
  LET d == exec[e].doc
  IN  /\ row[d].status = "PROCESSING"
      /\ exec[e].claim = [round |-> reprocessed[d], attempts |-> row[d].attempts]

Lost(e) == ~Holds(e) /\ UNCHANGED <<row, results, queued>>

\* markCompleted(): the result, its pages, the state and the event, in one transaction.
MarkCompleted(e) ==
  LET d == exec[e].doc
  IN  /\ exec[e].pc = "completing"
      /\ \/ /\ Holds(e)
            /\ SetStatus(d, "COMPLETED")
            /\ results' = [results EXCEPT ![d].completed = results[d].completed + 1]
            /\ UNCHANGED queued
         \/ Lost(e)
      /\ Goto(e, "returning")
      /\ UNCHANGED <<treatment, deployment, lapsed, reprocessed, asked, mishaps>>

\* markFailed(): the result, the state and the event.
MarkFailed(e) ==
  LET d == exec[e].doc
  IN  /\ exec[e].pc = "failing"
      /\ \/ /\ Holds(e)
            /\ SetStatus(d, "FAILED")
            /\ results' = [results EXCEPT ![d].failed = results[d].failed + 1]
            /\ UNCHANGED queued
         \/ Lost(e)
      /\ Goto(e, "returning")
      /\ UNCHANGED <<treatment, deployment, lapsed, reprocessed, asked, mishaps>>

\* Mutant of ReleaseForRetry: it relies on the retry of its job, which it is about to complete.
ReleaseWithoutJob(e) ==
  LET d == exec[e].doc
  IN  /\ exec[e].pc = "releasing"
      /\ \/ Holds(e) /\ SetStatus(d, "PENDING") /\ UNCHANGED <<results, queued>>
         \/ Lost(e)
      /\ Goto(e, "returning")
      /\ UNCHANGED <<treatment, deployment, lapsed, reprocessed, asked, mishaps>>

\* releaseForRetry(): back to PENDING with a new, delayed job.
ReleaseForRetry(e) ==
  LET d == exec[e].doc
  IN  /\ exec[e].pc = "releasing"
      /\ \/ Holds(e) /\ SetStatus(d, "PENDING") /\ Send({d}) /\ UNCHANGED results
         \/ Lost(e)
      /\ Goto(e, "returning")
      /\ UNCHANGED <<treatment, deployment, lapsed, reprocessed, asked, mishaps>>

\* markExcluded(): without a result nor an event.
MarkExcluded(e) ==
  LET d == exec[e].doc
  IN  /\ exec[e].pc = "excluding"
      /\ \/ Holds(e) /\ SetStatus(d, "EXCLUDED") /\ UNCHANGED <<results, queued>>
         \/ Lost(e)
      /\ Goto(e, "returning")
      /\ UNCHANGED <<treatment, deployment, lapsed, reprocessed, asked, mishaps>>

-----------------------------------------------------------------------------
(***************************************************************************)
(* Recovery and reprocessing                                               *)
(***************************************************************************)
LeaseExpires(d) ==
  /\ row[d].status = "PROCESSING"
  /\ d \notin lapsed
  /\ lapsed' = lapsed \cup {d}
  /\ UNCHANGED <<treatment, deployment, row, results, reprocessed, asked, queued, exec, mishaps>>

\* sweepAbandonedOcr(): the abandoned claims it can lock end or start again, in one transaction.
Sweep(S) ==
  LET exhausted == {d \in S : row[d].attempts >= MaxAttempts}
  IN  /\ Active
      /\ S # {}
      /\ \A d \in S : Abandoned(d)
      /\ row' = [d \in Docs |->
                   IF d \notin S THEN row[d]
                   ELSE [status |-> IF d \in exhausted THEN "FAILED" ELSE "PENDING",
                         attempts |-> row[d].attempts]]
      /\ results' = [d \in Docs |->
                       IF d \in exhausted
                       THEN [results[d] EXCEPT !.failed = results[d].failed + 1]
                       ELSE results[d]]
      /\ Send(S \ exhausted)
      /\ lapsed' = lapsed \ S
      /\ UNCHANGED <<treatment, deployment, reprocessed, asked, exec, mishaps>>

\* requestOcrReprocess(): an ADMIN who sees it failed asks, maybe again before it was done.
RequestReprocess(d) ==
  /\ state[d] = "clean" /\ row[d].status = "FAILED"
  /\ reprocessed[d] + asked[d] < MaxReprocesses
  /\ asked' = [asked EXCEPT ![d] = asked[d] + 1]
  /\ UNCHANGED <<treatment, deployment, row, lapsed, results, reprocessed, queued, exec, mishaps>>

(***************************************************************************)
(* reprocessOcr(): only a document still failed gets a new round.  The     *)
(* job may be delivered again after its transaction was committed.         *)
(***************************************************************************)
ReprocessOcr(d) ==
  /\ Active
  /\ asked[d] > 0
  /\ \/ /\ state[d] = "clean" /\ row[d].status = "FAILED"
        /\ row' = [row EXCEPT ![d] = [status |-> "PENDING", attempts |-> 0]]
        /\ reprocessed' = [reprocessed EXCEPT ![d] = reprocessed[d] + 1]
        /\ Send({d})
     \/ ~(state[d] = "clean" /\ row[d].status = "FAILED") /\ UNCHANGED <<row, reprocessed, queued>>
  /\ \/ asked' = [asked EXCEPT ![d] = asked[d] - 1] /\ UNCHANGED mishaps
     \/ mishaps < MaxMishaps /\ mishaps' = mishaps + 1 /\ UNCHANGED asked
  /\ UNCHANGED <<treatment, deployment, lapsed, results, exec>>

-----------------------------------------------------------------------------
(***************************************************************************)
(* The treatment, with the OCR's share of its results                      *)
(***************************************************************************)
\* Mutant of CleanStatus: nothing is decided for a PDF that may not be processed.
CleanStatusOfInScope(d) == IF ~Active \/ (fileType[d] = "pdf" /\ ~PdfAllowed)
                           THEN row[d].status ELSE "PENDING"

\* ocrStatusFor(): the OCR state of a document that turns out clean.
CleanStatus(d) == IF ~Active THEN row[d].status
                  ELSE IF fileType[d] = "pdf" /\ ~PdfAllowed THEN "EXCLUDED" ELSE "PENDING"

\* A job goes with the state that announces it.
ScanClean(d) ==
  /\ Running
  /\ Treatment!Pass(d)
  /\ SetStatus(d, CleanStatus(d))
  /\ IF CleanStatus(d) = "PENDING" THEN Send({d}) ELSE UNCHANGED queued
  /\ UNCHANGED <<deployment, lapsed, results, reprocessed, asked, exec, mishaps>>

ScanInfected(d) ==
  /\ Running
  /\ Treatment!Condemn(d)
  /\ IF Active THEN SetStatus(d, "NOT_APPLICABLE") ELSE UNCHANGED row
  /\ UNCHANGED <<deployment, lapsed, results, reprocessed, asked, queued, exec, mishaps>>

\* A failed treatment, and its reprocessing, leave the OCR NOT_STARTED.
ScanFails(d) ==
  /\ Running
  /\ Treatment!GiveUp({d})
  /\ UNCHANGED <<deployment, row, lapsed, results, reprocessed, asked, queued, exec, mishaps>>

ScanAgain(d) ==
  /\ Running
  /\ log[d].reprocessed < MaxScanRounds
  /\ Treatment!Reopen(d)
  /\ UNCHANGED <<deployment, row, lapsed, results, reprocessed, asked, queued, exec, mishaps>>

-----------------------------------------------------------------------------
(***************************************************************************)
(* The deployment: stop the worker, activate the OCR, start it again       *)
(***************************************************************************)
\* stop() waits for the handlers; those that do not end die.
Stop ==
  /\ Running
  /\ \A e \in Executions : exec[e].pc = "idle"
  /\ starts < MaxStarts
  /\ worker' = "stopped"
  /\ UNCHANGED <<treatment, fileType, starts, row, lapsed, results, reprocessed, asked, queued, exec,
                 mishaps>>

\* activateOcr(), run by the owner while no worker runs.
Activate ==
  /\ ~Running
  /\ row' = [d \in Docs |->
               [status |-> IF row[d].status # "NOT_STARTED" THEN row[d].status
                           ELSE IF state[d] = "clean" THEN "EXCLUDED"
                           ELSE IF state[d] = "infected" THEN "NOT_APPLICABLE"
                           ELSE "NOT_STARTED",
                attempts |-> row[d].attempts]]
  /\ UNCHANGED <<treatment, deployment, lapsed, results, reprocessed, asked, queued, exec, mishaps>>

\* countViolations() finds none.
Activated == \A d \in Docs : ~(state[d] = "clean" /\ row[d].status = "NOT_STARTED")

Start(mode) ==
  /\ ~Running
  /\ mode # "off" => Activated
  /\ worker' = mode
  /\ starts' = starts + 1
  /\ UNCHANGED <<treatment, fileType, row, lapsed, results, reprocessed, asked, queued, exec, mishaps>>

-----------------------------------------------------------------------------
Handle(e) == \/ Claim(e) \/ Read(e) \/ Recognize(e) \/ MarkCompleted(e) \/ MarkFailed(e)
             \/ ReleaseForRetry(e) \/ MarkExcluded(e) \/ Return(e)

DeliverSome == \E e \in Executions, d \in Docs, n \in 0..RetryLimit : Deliver(e, d, n)

Scan(d) == ScanClean(d) \/ ScanInfected(d) \/ ScanFails(d) \/ ScanAgain(d)

Next == \/ DeliverSome
        \/ \E e \in Executions : Handle(e) \/ Die(e) \/ JobExpires(e)
        \/ \E d \in Docs : \/ LeaseExpires(d) \/ RequestReprocess(d) \/ ReprocessOcr(d)
                           \/ Scan(d)
        \/ \E S \in SUBSET Docs : Sweep(S)
        \/ Stop
        \/ Activate
        \/ \E mode \in {"off", "on", "onWithPdf"} : Start(mode)

Spec == Init /\ [][Next]_vars

(***************************************************************************)
(* A worker that runs goes on with its handlers: every request it waits    *)
(* for times out.  It takes the jobs that wait, and sweeps; time passes.   *)
(***************************************************************************)
FairSpec == /\ Spec
            /\ WF_vars(DeliverSome)
            /\ \A e \in Executions : WF_vars(Handle(e))
            /\ \A d \in Docs : WF_vars(LeaseExpires(d)) /\ WF_vars(Sweep({d}))

-----------------------------------------------------------------------------
TypeOK ==
  /\ state \in [Docs -> Treatment!States]
  /\ log \in [Docs -> Treatment!Log]
  /\ fileType \in [Docs -> {"image", "pdf"}]
  /\ row \in [Docs -> Row]
  /\ lapsed \in SUBSET Docs
  /\ results \in [Docs -> Results]
  /\ reprocessed \in [Docs -> Nat]
  /\ asked \in [Docs -> Nat]
  /\ queued \in [Docs -> [0..RetryLimit -> Nat]]
  /\ exec \in [Executions -> Exec]
  /\ \A e \in Executions : exec[e].pc # "idle" => exec[e].doc \in Docs
  /\ worker \in {"stopped", "off", "on", "onWithPdf"}
  /\ starts \in Nat
  /\ mishaps \in Nat

\* Whatever was switched on, off and on again, the OCR state agrees with the treatment: only clean
\* documents are in the OCR or out of its scope, and while it is active none is left undecided.
ScopeAgrees ==
  \A d \in Docs :
    /\ row[d].status = "NOT_APPLICABLE" => state[d] = "infected"
    /\ row[d].status \notin {"NOT_STARTED", "NOT_APPLICABLE"} => state[d] = "clean"
    /\ Active => ~(state[d] = "clean" /\ row[d].status = "NOT_STARTED")

\* Each round of the OCR that ended has one result, with its event, whoever recorded it: one for
\* each round that was reopened, and one for the end it came to.
ResultsMatchRounds ==
  \A d \in Docs :
    /\ results[d].completed = IF row[d].status = "COMPLETED" THEN 1 ELSE 0
    /\ results[d].failed = reprocessed[d] + IF row[d].status = "FAILED" THEN 1 ELSE 0

\* A worker that may not process PDFs calls no provider with one, even if it was queued under
\* another configuration.
NoPdfSent ==
  \A e \in Executions :
    exec[e].pc \in {"reading", "recognizing"} /\ fileType[exec[e].doc] = "pdf" => PdfAllowed

\* A document that waits for its OCR has a job that will bring it, as long as no more handlers die
\* than a job has retries.
PendingHasJob ==
  MaxMishaps <= RetryLimit =>
    \A d \in Docs : row[d].status = "PENDING" =>
      \/ \E n \in 0..RetryLimit : queued[d][n] > 0
      \/ \E e \in Executions : exec[e].pc = "claiming" /\ exec[e].doc = d

\* Within its lease a claim ends only by a step of the handler that holds it.
LiveClaimEndsByItsHolder ==
  [][\A d \in Docs :
       row[d].status = "PROCESSING" /\ d \notin lapsed /\ row'[d] # row[d]
         => \E e \in Executions : /\ exec[e].doc = d /\ exec[e].pc \in InClaim
                                  /\ Holds(e) /\ exec'[e].pc = "returning"]_vars

\* While the OCR stays active every document that entered it gets to its end again and again,
\* whatever its handlers go through.
OcrEnds ==
  MaxMishaps <= RetryLimit /\ <>[]Active
    => \A d \in Docs : []<>(row[d].status \notin {"PENDING", "PROCESSING"})

=============================================================================
