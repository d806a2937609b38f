# Verification of legaltech-colombia

TLA+ models of the parts of this repository that are hard to test: work that is claimed,
retried, swept and reopened by concurrent processes over one PostgreSQL database, with an object
storage and a mail transport that take part in no transaction. TLC checks the models on small
instances, TLAPS proves their main properties for every value of the constants.

`PROJECT.json` is the index: the components, the runs, the source lines each definition stands
for (`map`), a mutation that breaks each property (`mutants`), the hazards of the code and the
properties that cover them, the findings and the theorems.

    tlc -workers 2 -config scan_safety.cfg MCDocumentScan.tla
    tlapm DocumentScanProofs.tla

Contents: [1. The system](#1-the-system) · [2. The modules](#2-the-modules) ·
[3. The runs](#3-the-runs) · [4. Fairness](#4-fairness) · [5. The proofs](#5-the-proofs) ·
[6. Findings](#6-findings) · [7. Limits](#7-limits-and-what-is-not-modelled) · [8. Plan](#8-plan)

## 1. The system

A web client calls an API; the API and a worker share a PostgreSQL database and an object storage.
pg-boss keeps its jobs in the same database, so a job can be sent in the transaction that changes
the row it is about. Several API processes and several workers may run.

    browser -> API -> PostgreSQL (documents, email_outbox, sessions, audit_logs, pg-boss jobs) <- worker
                 \--> object storage <---------------------------------------------------------/  |
                 \--> mail transport (outbox dispatch)                  clamd, OCR provider <-----/

| Component | State | Operations | What makes it correct |
|---|---|---|---|
| **Security treatment of documents** (worker: `scan/`, `queue.ts`) | `documents.status`, `scan_attempts`, `scan_started_at` (the claim token and its lease), the result columns, the copy without metadata, `audit_logs`, the jobs `document.scan` and `document.reprocess` | claim, treat (download, antivirus, cleaning), result, release for retry, sweep, reprocessing by an ADMIN | one result per round, written by the current claim only; no document is lost, served without having been scanned, or given up early; status, columns, audit trail and jobs agree |
| **Upload** (API: `documents.service.ts`, `documents.repository.ts`) | the rows, the objects, the advisory lock of each user | check, store the object, write row + event + job, undo | the quota holds; 201 means stored; a refusal leaves nothing behind |
| **OCR of clean documents** (worker: `ocr/`) | `ocr_status`, `ocr_attempts`, `ocr_started_at`, `ocr_results`, the jobs `document.ocr` and `document.ocr_reprocess` | claim, read, call the provider, result, exclusion, release (with a new job), sweep, reprocessing | only clean documents within the scope are read, every round has one result, every document comes to an end |
| **OCR activation** (`ocr-activation.ts`, `activate-ocr.ts`) | `ocr_status` of every document, the worker's configuration | activate while the worker is stopped; refuse to start unless activated | no clean document stays undecided while the OCR is on |
| **Email outbox** (API: `notifications/`) | `email_outbox`, the verification and reset tokens | enqueue with the cause, dispatch (lock, compose, replace the tokens, send, commit), use of a link | nothing is lost, nothing is sent twice without a failure, the user always has a link that works |
| **Sessions** (API: `auth.session.ts`, `auth.service.ts`, `auth.repository.ts`) | the rows of `sessions`, their audit events | login, validation with its touch, rotation with a grace period, revocation of one, closing of all by the user or by a reset | a session is never revived or forked, its windows keep their lengths, each logout has one event, a closing leaves nothing it found |
| **Limits of login, resend and reset** (`rate-limiter.ts`, `auth.service.ts`) | buckets per IP in memory; the `auth.login.failed` events and the emails of an account, its advisory lock | consume and sweep; an attempt: lock, count, decide, record | every answer, refusals too, is that of the window of the client's IP, whatever was swept; no attempt before its delay is over, however many run at once; no Retry-After is too short, nor longer than the events counted so far require |
| **Antivirus client and metadata removal** (worker: `clamav.ts`, `image-metadata.ts`) | a socket, its timer and what was received; the bytes of an image | scan one file; rewrite a JPEG or PNG | every scan ends, once, with a verdict only from a whole answer about a whole file; the copy is the image without its metadata |
| **Cases and access to documents** (API: `cases/`, `documents/`) | case rows, the rows of their documents, the requests to process again | create, list and read a case; list, download and read the OCR text of a document; an ADMIN's requests | everybody is answered with what is theirs and was treated; an answer that says COMPLETED has the text |
| HTTP layer, web client, storage adapter, contracts, schema, seeding | none of their own, or the browser's cookies | | see section 7 |

How they interact:

- the upload commits a `PENDING_SCAN` row together with its `document.scan` job, and the treatment
  reads the object the upload stored before;
- the treatment of a clean document decides its OCR state, and sends the OCR job, in the
  transaction that records the result;
- a request consumes its limit, loads its session and then reads cases and documents in
  statements of their own, while the worker changes the documents' status and OCR;
- registration, resending and the password reset record an email with what caused it, and the
  dispatch makes the token when it sends the email.

What is hard:

- **Claims with a lease.** A handler that is slow, or whose worker died, loses its claim to
  another one and may come back later. Only the status and the token in the `WHERE` of its last
  UPDATE fence it.
- **At-least-once jobs.** pg-boss delivers a job again after a failure, a crash or an expiry, even
  when its effect was committed; deliveries and attempts are two counters with different limits.
- **Storage outside the transactions.** Objects are written before and removed after a commit, and
  each request may fail after its effect.
- **Sweeps and reopenings** race with handlers that still remember an earlier round.
- **READ COMMITTED and SKIP LOCKED.** What an UPDATE sees depends on who has committed, and a row
  inserted after a statement began is not among what it changes.
- **Read, then write.** A session is validated with a copy of its row and touched later; a delay is
  worked out from a count that another attempt may be about to change.
- **A byte stream and a timer.** clamd's answer may be cut, doubled, late or missing.

## 2. The modules

| Module | Models | State ↔ code |
|---|---|---|
| `DocumentLifecycle` | the promise: what `status` and `audit_logs` show of the treatment | `state` ↔ the meaning of `documents.status`, `log` ↔ the audit events of each document |
| `DocumentScan` | the whole treatment, which implements `DocumentLifecycle` | `doc` ↔ the columns of a row, `lapsed` ↔ `scan_started_at` older than the lease, `job`/`request` ↔ pg-boss, `exec` ↔ the handlers between two awaits, `copy` ↔ the storage, `audit` ↔ `audit_logs` |
| `DocumentSweep` | the sweep's transaction statement by statement and row by row, of several workers at once, among the other steps of `DocumentScan`, which it implements | `sweep` ↔ the open transaction of each worker: its statement, the rows it has still to look at, the rows it has locked |
| `DocumentScanProofs` | theorems about `DocumentScan` and `DocumentSweep` | |
| `DocumentUpload`, `DocumentUploadProofs` | uploads that race for a quota | `request` ↔ the local state of `uploadDocument()`, `lock` ↔ `pg_advisory_xact_lock`, `documents`, `objects`, `orphans` ↔ database, storage and log |
| `DocumentOcr`, `DocumentOcrProofs` | OCR and activation over `DocumentLifecycle` | `row`, `lapsed`, `results` ↔ the OCR columns and rows, `queued`/`asked` ↔ pg-boss, `exec` ↔ handlers, `worker` ↔ its configuration |
| `EmailOutbox`, `EmailOutboxProofs` | outbox, dispatchers, tokens and links | `entry` ↔ `email_outbox`, `live`/`used` ↔ the token tables, `run` ↔ a dispatcher and its open transaction |
| `Sessions`, `SessionsProofs` | the sessions of a user under concurrent requests | `row`, `stored` ↔ the table, `events` ↔ `auth.logout` and `auth.session.revoked` in `audit_logs`, `req` ↔ each request between two awaits, with the copy of the row it read |
| `AttemptLimits` | the promise of ADR-002: attempts of an account one at a time, each let in by all the earlier ones | `log` ↔ the times of the events that count |
| `FixedWindow` | the promise of a limiter per IP, by its answers: an admission within the window, a refusal by a full one that lasts, with the seconds left | `window` ↔ the windows that have not ended, `answer` ↔ the last answer |
| `LoginLimits`, `LoginLimitsProofs` | limiter and delay as the code has them, which implement the two promises | `buckets`, `sweepAt` ↔ `FixedWindowRateLimiter`, `answer` ↔ the `RateLimitResult`, `lock` ↔ `pg_advisory_xact_lock`, `log` ↔ the `auth.login.failed` events and the emails that count, `req` ↔ each attempt's transaction, `promise` ↔ the times that Retry-After named |
| `ImageMetadata` | the walks over a JPEG and a PNG as functions (`JpegWalk`, `PngWalk` ↔ the two loops), and what the copy has to be | none |
| `FileTreatment`, `FileTreatmentProofs` | one scan by clamd, event by event, and the copy made after it | `socket`, `chunks`, `timer`, `verdict` ↔ the locals of `scan()`, `threat`, `streamed`, `answer`, `wire` ↔ clamd and the network |
| `CaseFile`, `CaseFileProofs` | what users and ADMINs are answered about cases and documents | `case`, `doc` ↔ `cases`, `documents`, `ocr_results`, `jobs` ↔ the reprocess queues, `req` ↔ requests between two statements, `shown` ↔ the lines of all answers |
| `MC*` | model values for TLC, symmetry, the images of `FileTreatment` | |

**How code becomes a step.** A database statement or transaction is one step, and so is a request
to the storage, a call to the antivirus or the OCR provider; between two awaits of a handler
anything else may happen. Where what others see during a transaction matters (`createDocument()`
with its lock, `dispatchNext()` with SKIP LOCKED) the transaction is modelled statement by
statement and what it wrote shows at its commit. Actions have the names of the code:
`Claim`, `MarkClean`, `Release`, `Sweep`, `Reprocess` are `claim()`, `markClean()`, `release()`,
`sweepUntreatedDocuments()`, `reprocessDocument()`. The definitions called "Mutant of ..." are plausible
errors in the definition after them; the specifications do not use them.

**Composition.** `DocumentOcr` does not repeat the treatment: it takes `DocumentLifecycle` as the
component that produces results, and adds to each what the code does for the OCR in the same
transaction. `DocumentScan` is shown to implement `DocumentLifecycle` under the mapping `Outcomes`
(checked by `scan_safety`, proved in `DocumentScanProofs`): that is what justifies the
substitution. `DocumentSweep` is `DocumentScan` with the sweep's transaction taken apart: two UPDATEs
with a snapshot each, SKIP LOCKED at each row, a send for each row put back, commit or rollback. It
implements `DocumentScan` (`SweepsAreAtomic`), and that is why `DocumentScan` may have a sweep as one
step. `LoginLimits` implements `AttemptLimits` (the attempts of an account behave as one at a
time) and, with the windows that have not ended as `window` and the answers as they are, `FixedWindow`
(a bucket kept too long, or dropped too soon, would show in an answer); both are checked by `login_limits` and proved in `LoginLimitsProofs`. `CaseFile`
takes the worker as what its promises allow: a round of the treatment and an execution of the OCR
are one step each, with any outcome.

**Abstractions.** A document is its columns, the bytes are the outcomes they may lead to (clean,
infected, error; text, error, transient error). A claim token is compared for equality only, so it
is a model value in `DocumentScan`, fresh among those anybody remembers, and the pair of round and
attempt in `DocumentOcr`. Time appears as "the lease has run out" and "the job has expired", which
may happen at any moment. In `DocumentUpload` the sum of the file sizes is kept as a counter,
as rows are never changed or deleted. In `DocumentOcr` and `EmailOutbox` a death, an expired job, a
failed statement or a redelivery is a *mishap*, and there is a budget of them. In `Sessions` and
`LoginLimits` time is a clock of a few ticks, as durations are compared; a token is the session
it belongs to. `LoginLimits` is about one of the three endpoints in each behaviour (`kind`): they share
code and nothing else. In `FileTreatment` clamd's answers are a few letters for each of their
words, the names of threats letter by letter and with the terminator that the client does not ask for, so that
an answer can be cut anywhere. A 4-byte field of a PNG is one word; a JPEG is walked byte by byte. An answer of the API in `CaseFile` is the set of
its lines: to whom, about what.

## 3. The runs

| Run | Instance | Distinct states | Shows |
|---|---|---|---|
| `scan_safety` | 1 image, 2 handlers, 2 jobs, 1 request, 2 attempts, 2 deliveries, every fault, symmetry in handlers and jobs | 1 181 669 | `OneHolder`, `FailedWhenExhausted`, `AuditMatchesStatus`, `ColumnsMatchStatus`, `LiveClaimEndsByItsHolder`, `ImplementsLifecycle` |
| `scan_progress` | 1 image, 2 handlers, 3 jobs, as many deliveries as attempts, overruns and a worker that sweeps statement by statement, with rollbacks | 394 315 | `PendingHasJob`, `EventuallyTreated`, `SweepsAreAtomic` |
| `scan_recovery` | 1 image, 1 handler, reprocessing delivered late and again, every fault | 120 291 | `ClaimsEnd`, `CleanImageHasCopy` |
| `upload` | 3 uploads of a user, 1 or 2 units each, quota 3 used up to any amount before, every fault | 319 956 | `QuotaRespected`, `QuotaRefusalIsTrue`, `RefusalLeavesNothing`, `UploadsEnd` |
| `ocr` | 1 document of either type, 2 handlers, 2 attempts, 2 deliveries, a reprocessing of each kind, 2 starts, 1 mishap | 491 832 | `ScopeAgrees`, `ResultsMatchRounds`, `NoPdfSent`, `PendingHasJob`, `LiveClaimEndsByItsHolder`, `OcrEnds` |
| `outbox` | 3 emails of a user, 1 broken, 2 dispatchers with limit 2, 1 mishap | 104 070 | `DeliveredOnce`, `LinkWorks`, `EveryEmailSent` |
| `sessions` | 3 sessions, 2 requests of any kind at once, a clock of 3 ticks, windows of 2 and 3, rotation due and grace over after 1, symmetry | 1 431 056 | `OneSuccessor`, `WindowsKept`, `OneEventPerLogout`, `OnlyNewerSurvive`, `RevokedForGood` |
| `login_limits` | each endpoint, 1 account, 2 clients, 2 attempts at once, 2 requests per window of 2 ticks, delays of 2 and 3 from the second event on, a clock of 5 ticks, symmetry | 491 393 | `DelayHolds`, `RetryAfterEnough`, `RetryAfterTight`, `NothingKeptLong`, `OneAtATime`, `LimiterAnswers` |
| `file_treatment` | a file of 2 chunks with or without a threat, three names of threats of which two begin with OK, every answer cut anywhere, and every JPEG and PNG of a few parts, cut anywhere | 365 790 | `VerdictIsAboutTheFile`, `CopyIsExact`, `ScanEnds` |
| `case_file` | 2 users and an ADMIN, 2 cases, a document, 2 requests at once, a reprocessing of each kind, 2 executions of the OCR, symmetry | 989 003 | `OnlyOwnShown`, `CompletedHasText` |
| `scan_copy_lost`, `sessions_survivor` | the smallest instance that shows it | | a finding each, see section 6 |

**Why these bounds.**

- *One document* where a property is about a row and its history: rows share nothing but handlers
  and the sweep, which decides on each row by its own columns. The safety properties of the treatment are proved
  for any number of documents, `SweepsAreAtomic` too, for any number of workers that sweep at once; the run has one
  row and one sweep against two handlers, which take the row over, finish it and release it between its statements.
- *Two handlers* are what a race over a claim takes: one whose claim was taken over and one that
  took it. Two attempts make a first failure that is retried and a second that is final, a takeover
  in between, and both sides of each comparison with the limit.
- *One reprocessing* makes a second round while handlers and jobs of the first are still around.
- *Three uploads of one or two units for a quota of three*: two fit, three do not, and a big one may
  lose its place to small ones. Users share neither quota nor lock, so there is one.
- *Three emails* with a broken one and runs of two: the broken one is the oldest, and takes one of
  the two places at every run.
- *Two starts of the worker* go from off to any configuration to any other, with a stop and an
  activation between them.
- *Three sessions* are a login and two successors, or two logins and a successor; *two requests* are
  a rotation and what it races: another rotation, a logout, a closing, a touch. The ticks let an
  idle window and a grace end with a request in between; as `WindowsKept` is about lengths, how long
  they are does not matter, and the theorems hold for any.
- *A limit of two, a base of two, a cap of three and a window of five ticks* have attempts below, at and
  above the limit, a delay that doubles and one that is capped, and, as a tick may be several units long, events
  that leave the window. Two attempts are what the advisory lock is for; two clients let one fill its
  window while the other's ends, is swept or is kept. Two units of time make a second, so that rounding up shows.
- *The images* have up to three parts with fill bytes, data with stuffed bytes and restart
  markers, payloads that look like a marker or a chunk type, and bytes after the end.
- *Two owners and two cases* make another's case, and the case of a document that is another's;
  with `MaxShown` lines answered no request arrives any more, which loses nothing as both
  properties look at each line alone.
- Bounds that are no constants of the code are named in their modules: `Jobs` and `Requests` (ids
  that are used again once a job is finished for good), `Tokens`, `MaxScanRounds`,
  `MaxReprocesses`, `MaxStarts`, `MaxMishaps`, `Entries`, `MaxTime`, `MaxAsked`, `MaxTexts`, `MaxShown`.
  The recycled `Tokens` suffice as a new one
  only has to differ from those in the row and in the handlers.

*Every fault* of `scan_safety` and `scan_recovery` is all of `FaultKinds` but `"rollback"`: there a sweep is one
step, and one that is rolled back is none.

`CHECK_DEADLOCK FALSE` is everywhere, as every one of these systems may come to rest: all documents
treated, all requests answered, all emails sent, the clock or the sessions used up. The liveness properties say
what must have happened before.

`ClaimsEnd` is checked with a single handler and `EventuallyTreated` without
crashes; `PendingHasJob` of `DocumentOcr` and `OcrEnds` for no more mishaps than a job has retries;
`EveryEmailSent` for fewer broken emails than a run handles. Beyond these conditions the code does
not guarantee them: section 6 says what happens.

## 4. Fairness

- **Treatment.** Weak fairness of the handlers: every await of theirs has a time limit. Strong
  fairness of each job's delivery: pg-boss fetches in order of creation, so a job that waits is not
  overtaken for ever, although at times no handler is free. Weak fairness of the expiry of active
  jobs (pg-boss supervises it), of the passing of the lease, and of the sweep for a row it
  would change (it runs every `SCAN_SWEEP_INTERVAL_SECONDS` and survives an error). In `DocumentSweep`
  it is the statements of each worker's sweeps that are fair, and from some time on none is rolled back: the run
  finds that every document is treated under that, too. No fault is
  fair: nothing depends on a failure to end.
- **Upload.** Weak fairness of each request; PostgreSQL grants an advisory lock in turn, and the
  lock of a transaction that fails or dies is released.
- **OCR.** Weak fairness of deliveries, handlers, leases and the sweep while the worker runs. `Stop`,
  `Activate` and `Start` are not fair: the operator need not do anything.
- **Outbox.** Weak fairness of each dispatcher: the command that calls `dispatchPendingEmails()` is
  run again and again. Users need not use a link.
- **Antivirus client.** Weak fairness of `Timeout` alone: Node fires a timer that is due. clamd and
  the network owe nothing.
- **Sessions, limits, cases.** Safety only: each request is a few statements, and nothing waits
  for it to come.

## 5. The proofs

| Module | Theorems |
|---|---|
| `DocumentScanProofs` | `TypeCorrect`, `OneHolderCorrect`, `AuditCorrect`, `ColumnsCorrect`, `FailedCorrect`, `LiveClaimCorrect`, `LifecycleImplemented`, `SweepsAtomicCorrect`, `PendingCorrect`, `CopyCorrect` |
| `DocumentUploadProofs` | `UploadTypeCorrect`, `QuotaCorrect`, `QuotaRefusalCorrect`, `CreatedCorrect`, `RefusalCorrect`, `ObjectCorrect` |
| `DocumentOcrProofs` | `OcrTypeCorrect`, `ScopeCorrect`, `ResultsCorrect`, `PdfCorrect`, `PendingOcrCorrect`, `OcrLiveClaimCorrect` |
| `EmailOutboxProofs` | `OutboxTypeCorrect`, `DeliveredOnceCorrect`, `LinkWorksCorrect` |
| `SessionsProofs` | `SessionsTypeCorrect`, `OneSuccessorCorrect`, `WindowsKeptCorrect`, `OneEventCorrect`, `OnlyNewerSurviveCorrect`, `RevokedForGoodCorrect` |
| `LoginLimitsProofs` | `LimitsTypeCorrect`, `DelayCorrect`, `RetryAfterCorrect`, `RetryAfterTightCorrect`, `OneAtATimeCorrect`, `LimiterAnswersCorrect`, `NothingKeptLongCorrect` |
| `FileTreatmentProofs` | `TreatmentTypeCorrect`, `VerdictCorrect`, `CopyExact` |
| `CaseFileProofs` | `CaseFileTypeCorrect`, `OnlyOwnCorrect`, `CompletedCorrect` |

They hold for any sets of documents, handlers, jobs, users, uploads, entries, dispatchers, sessions,
cases, clients and concurrent requests, any number of attempts, retries and mishaps, any durations
and limits, and any subset of the faults, except for the two that say otherwise: `PendingCorrect` and
`CopyCorrect` state what the code promises, and it promises them only in the deployments their
hypotheses describe. They assume what the modules assume of their constants
(`ScanAssumption`, `UploadAssumption`, `OcrAssumption`, `OutboxAssumption`, `SessionsAssumption`,
`LimitsAssumption`, `CaseFileAssumption`, `TreatmentAssumption`, `ImagesAssumption`, which TLC evaluates in the runs): that
limits are numbers, that at least one attempt is allowed, that an idle window is not longer than a lifetime,
that `None` is none of the ids, and that images are of the parts an image may have.

**Treatment.** The status alone is not inductive: a handler's last UPDATE is accepted when status
and token match, so the invariant must know what a match implies. `IInv` has four parts:
`TypeInv` (types, and that a handler at work has a document), `DistinctTokens` (no two handlers
that remember a claim of a document remember the same token), `HolderAttempts` (a handler that
still holds the row remembers the row's number of attempts) and `RowInv` (columns, audit counts
and attempts of a row, by its status). `DistinctTokens` rests on a new token being none of the
remembered ones; `OneHolder` follows, and with `HolderAttempts` so does that `markFailed()` by
its holder is right about the attempts although it decides on a remembered number. The steps are
first summarized per row (`StepOfARow`: whatever action happened, a row is kept, taken, ended,
returned, given up or reopened) and per handler (`StepOfAHandler`), so that each part needs a few
cases instead of one per action. `LifecycleImplemented` uses the same invariant: a step maps to
`Pass`, `Condemn`, `GiveUp` of the rows a sweep ends, `Reopen`, or a stutter.

`SweepsAtomicCorrect` is about `DocumentSweep`: its statements are stutters of `DocumentScan` but for the
commit, which is `Sweep` of the rows locked, or nothing. That these still need it when it commits is
`SweepInv`: the rows a transaction means to fail are `Exhausted`, those to put back `Requeueable`, and no two
transactions have locked the same row. It survives the other steps because they leave a locked row
alone, and a claim that has lapsed stays so while its row does not change (`LapsedKept`).

`PendingCorrect` is proved for `OnlyOverruns`: no worker dies and no statement is lost, a claim lapses
before the job it came with expires, a job has a delivery for each attempt, and nobody asks for a
reprocessing; section 6 says what happens without. Handlers may still outlive their jobs and their
claims, and be overtaken any number of times. That a PENDING_SCAN document has a job is not inductive:
the handler that holds a SCANNING row may put it back without sending a job, as it counts on the one that
brought it. `WaitInv` says what that is worth. A job *promises* a document (`Promising`) while it is
queued, while a handler is about to claim with it, and while a handler that threw has it with
deliveries left. Every delivery whose handler got past the claim counted an attempt, so a job has had no
more deliveries than its row has attempts (`Counted`), and a handler that releases, which it
only does with attempts left, gives back a job with deliveries left. A handler that holds its row
without its job has lapsed (`OverrunLapsed`) and, while attempts are left, some job promises its
document (`OverrunPromised`): the one that expired under it, waiting again or
running again. A second handler that runs that job cannot skip the document, since the claim has lapsed.
The lemmas say what a delivery, an expiry, a sweep and the end of a handler do to these promises; they
rest on `JobsInv`, that a handler which has a job has it alone, and the job is active.

`CopyCorrect` is proved for `NoRoundsMeet`: one handler, or no reprocessing; `scan_copy_lost` is what
happens otherwise. `CopyInv` says that who may mark an image CLEAN has stored its copy
(`CopyStored`), and that a handler about to remove a copy does so before any later round can be
treated (`CopyOfNoUse`): its row is failed for good, or it is the only handler there is.

**Upload.** `RequestInv` says per request what its place in the code implies: who holds the lock;
that under the lock and past the count it still fits; that an answer matches what is recorded.
`QuotaRespected` is inductive only together with the second: the sum that was counted is still
the sum when the row is inserted. `ObjectCorrect` shows that without a commit in doubt every
document has its object, so the commit in doubt of section 6 is the only way to lose one.

**OCR.** `IInv` joins `TypeOK`, `ScopeAgrees`, `ResultsMatchRounds` and `WorkerInv` (no handler
survives a stop; one that reads or recognizes a PDF is in a worker that may). That a stop waits
for the handlers is what makes `NoPdfSent` provable across restarts. `PendingOcrCorrect` adds
`DeliveriesCounted` (only a mishap makes a job be delivered again, so a handler's job has had at most
one delivery more than there were mishaps, and one that a mishap takes has retries left) and
`PendingPromised`, which counts on jobs that wait and on handlers about to claim, but not on those whose
job has expired: their job waits again. That such a handler claims, and does not skip, is `ScopeAgrees`:
a PENDING document is clean.

**Outbox.** `LocksHold` (an entry is handled by one dispatcher, and is pending then),
`DeliveriesBounded` (deliveries are at most the mishaps, plus one for an entry that is sent or about
to be committed), `TokensOfEntries` (tokens belong to link emails that were used) and `LinkWorks`.
`LinkWorks` survives two dispatchers because each stores its own token when it replaces others.

**Sessions.** `OneSuccessor` is inductive alone, as a rotation claims the row in its first
statement. `WindowsKept` needs what a request carries: its copy of the row was made with the
lifetime and window the row still has (`CopyOK`), however many touches came between. For
`OnlyNewerSurvive`, `SweepOK` says that the rows a closing found are whole logins up to a
moment: whatever they lack of a login is newer than all they have of it; and `TipIsNewest` that the
session not rotated is the newest of its login, so that a rotation's successor is newer still. `Kept`
summarizes what any step leaves to a stored row.

**Limits.** What an attempt has read of the log is still what it would read there (`ReadOK`), since
only it holds the lock of its account; so its event is as far from the others as the delay says
(`CountedLater`), and its commit is an `Attempt` of `AttemptLimits`. A `Retry-After` promises a time
not sooner than the end of the delay by some reading of the same log (`PromiseOK`); a later reading
of that log counts no more events, as they only leave the window, so its delay ends no later
(`EndsNoLater`), for which `2 ^ n` has to be monotone (`PowerMonotone`, by counting subsets). For
`RetryAfterTight`, an attempt is refused while the delay lasts, and the seconds are rounded up by less than one, so
that a second earlier it still lasts if the same events count (`StillDelayed`). `LimiterAnswersCorrect` maps
every answer of `consume()` to the one of `FixedWindow` (`ConsumeAnswers`): a sweep drops only buckets that have
ended, an ended one is started anew, and one that lasts admits and refuses as its window does. `KeptInv`
relates each bucket to the next sweep, for `NothingKeptLong`: none ended a window or more before it.

**Cases.** What a request has checked still holds when it goes on (`ReqOK`), because what it checked
is `Settled`: the owner of a case, the case and the type of a document, CLEAN, and a COMPLETED OCR
with its results. The last is why two statements, with the worker between them, cannot answer
COMPLETED without a text.

**Verdict.** While a scan waits, the letters it has received and those on their way are together a
beginning of clamd's answer (`SentInv`): a piece that is read moves from one to the other, and whatever
loses a letter (a reset, an answer beyond the limit) settles the scan as an error at once; one found clean receives no more (`SettledInv`).
clamd approves and detects only when it has every chunk, and as the file is (`AnswerAboutFile`). So what is
received at the end of the stream is read as FOUND only if clamd detected a threat, and as OK only if
clamd approved, or detected a threat whose name begins with OK and died after these two letters.

**Copy.** `CopyExact` is about the code's algorithm: what the walks over bytes compute, for every image of
`ImagesAssumption`. These are the images made of parts as a camera or an editor writes them
(`JpegParts`, `PngParts`): any number of segments or chunks, in any order and of any size the format has,
with any bytes in them (markers, too), fill bytes before them, anything after the end, and cut anywhere
or not at all. The one thing it leaves out that a JPEG may have is a fill byte in the data of a scan
(section 6). What the walks do with a file that is not of such parts is not stated. The walks
are functions whose values depend on those further on (`Filled`, `DataEnd`, `JpegWalk`, `PngWalk`).
`Recursion` says that such an equation has a solution, from the least position at which there would
be none, so that the function has the values its definition says (`JpegWalkStep`, `PngWalkStep`).
`FileLayout` says where in the file each part is, as far as it was not cut off; `PartWalked` and
`ChunkWalked`, that the walk at a part goes on at the next one, with the part kept or not, and makes
nothing of one that is not whole; `Copying` puts these steps together from the last part to the first.
That the data of a scan ends where its part does (`ScanFound`) is the delicate one: no byte in the data
is taken for a marker, and the part that follows, its fill bytes too, is not taken for data (`PartMarked`).
An image that is cut inside a scan never reaches an end.

**Left to TLC.** Liveness (`EventuallyTreated`, `ClaimsEnd`, `UploadsEnd`, `OcrEnds`,
`EveryEmailSent`, `ScanEnds`), which the prover does not handle. Every safety invariant and every
action property of the runs that pass has a theorem. That 201 means stored (`CreatedIsStored`) is proved
and not in a run.

## 6. Findings

Two are the counterexamples of a run that checks what a comment or a document says:

- `scan_copy_lost`: the copy of a failed treatment is removed after the failure was committed,
  when the document may have been reopened, treated again and found CLEAN: its copy is the one
  removed (comment at `scan-document.ts:70`).
- `sessions_survivor`: a rotation commits the successor of a session after the UPDATE of
  `revokeAllOwnSessions()` or of `resetPassword()` has begun. Under READ COMMITTED that UPDATE does
  not see the new row, which stays open after a closing of all sessions (`API_SPEC.md:210`, `:235`).
  `OnlyNewerSurvive` is what does hold.

Seen while modelling, and without a run of their own:

- The terminator of clamd's answer is optional for `parseClamdReply()` (`clamav.ts:24`), so an answer that is cut
  before it may be a verdict, which the comment above it excludes ("truncated [...] text", `clamav.ts:19-21`):
  `stream: OK` may be the beginning of the answer about a threat whose name begins with OK. Such names
  are unlikely; asking for the terminator would exclude it. `VerdictIsAboutTheFile` names this one case.
- A Retry-After of a login counts the failures that are in the window when it is said (`auth.service.ts:237`).
  If one of them leaves the window before the time is over the delay gets shorter, and an attempt is let in earlier
  than Retry-After said, which `API_SPEC.md:436` calls exact (and `:452` the seconds to the next attempt
  allowed). With a limit of 2, a base of 1, a cap of 2 and a window of 4, failures at 0, 0 and 1 make an attempt at 1
  wait until 3; with failures at 0, 0, 1 and 3 one at 3 is told to come at 5, but at 4 it is let in.
  `RetryAfterTight` says what does hold.
- A worker that dies between `release()` and the refusal of its job uses up a delivery. If it was the
  last one, the document stays `PENDING_SCAN` without a job, and the sweep does not look at
  `PENDING_SCAN` (`DATABASE_SPEC.md:274`, `:295`): `PendingHasJob` fails in `DocumentScan` with the
  fault `"crash"`.
- A reprocessing that meets a handler which outlived its job can strand a document the same way: the
  retry of the old round's job, with its deliveries used up, takes the first attempt of the new
  round, and the new round's job finds nothing to claim and is completed (`scan-document.ts:45`); when
  that attempt fails for a passing reason the row returns to `PENDING_SCAN`, and its job has no retry
  left. That is why `PendingCorrect` is about rounds nobody asked for.
- A commit of an upload whose answer is lost is taken for a rollback, and the object of a document that
  exists is deleted (`documents.service.ts:200`): the fault `"inDoubt"` of `DocumentUpload`.
- The OCR provider may be called after the claim was swept away, as the claim is not looked at after
  the file was read (`ocr-document.ts:50` says "never").
- Two dispatchers that send two emails of one user and kind at once leave two links that work
  (`API_SPEC.md:181`: a new one replaces the earlier ones).
- Of two touches of a session the one that read first may land last, and moves `last_seen_at` and the
  end of the idle window back; one that lands late also revives a session that had expired by
  idleness meanwhile (`auth.session.ts:110`).
- A login that presents a session in its grace revokes that one, and its successor stays open; one
  that fails between creating its session and revoking the one of the browser leaves both usable
  (`auth.service.ts:308`); one that verified the old password may create its session after a reset.
- A rotation whose answer is lost leaves the browser with the old cookie, which dies with its grace.
- A fill byte in the data of a JPEG's scan (`FF FF 00`) ends it for `stripJpegMetadata()`, which takes
  the stuffed byte for a marker and the bytes after it for its length, so that the copy may not be the
  file without its metadata. The images of the run and of `ImagesAssumption`
  have no fill bytes inside a scan (`ScanData`).
- `SCAN_MAX_ATTEMPTS` may be up to 20 (`config.ts:34`) while a `document.scan` job has five
  deliveries: attempts beyond them need the sweep, which only takes up `SCANNING`.
- A sweep that gives a document up leaves the copy its treatment had stored (`queue.ts:85`, compare
  `DATABASE_SPEC.md:293`).
- A takeover of an abandoned claim does not look at the limit, so a document may be treated once
  more than `SCAN_MAX_ATTEMPTS` (`scan.repository.ts:46`).
- A `document.reprocess` job that is delivered again after its round has failed once more opens
  another round nobody asked for (`queue.ts:177`; `API_SPEC.md:321`).
- `SCAN_LEASE_SECONDS` may be up to 3600, although its comment wants it below the queue's 15 minutes
  (`config.ts:35`): the fault `longLease`.
- As many broken emails as a run handles hold up all others; `dispatch.ts:14` says one never does,
  and with a limit of 1 one does.
- At this commit `main.ts` builds no OCR provider, so the OCR cannot be started: `DocumentOcr` models
  the code as its tests run it, with a provider.

## 7. Limits, and what is not modelled

- A `putObject` that is applied after its removal was answered is not in `DocumentUpload`.
- Activating the OCR while an old worker still runs is forbidden by the procedure and not modelled.
- A link that expires is one nobody uses. Aborts by a deadlock among token rows are mishaps without
  a cause. The progressive delays before a resend or a reset request are left out.
- In `DocumentOcr` the recognized text, its pages and its error codes are the outcome of a step;
  `ocr_results` are counted.
- `Sessions` and `LoginLimits` assume that the clocks of the API and of PostgreSQL agree and do not go
  back. A deadlock between a rotation and a closing, which lock rows in different orders, is one
  failed request (`Fail`). The CSRF token of a session is a value compared for equality; two pages that
  fetch one overwrite each other's, and one of them gets a 403. Suspending a user is something no
  handler of the API does. The choice of cookie names and of durations by role are constants.
- In `LoginLimits` an endpoint is seen alone, and the limiter of registration, a fourth instance of the
  same class, is not there. Accounts whose hashes share a lock key only wait for each other.
- In `FileTreatment` the file is read before the scan begins, and a letter of an answer is received whole
  (the code decodes the bytes once it has them all).
- In `CaseFile` a reprocess job may be taken up any number of times, which is more than pg-boss
  does. A case has no transitions: the matrix of `case-status.ts` is called by no handler, so that
  what it allows restricts nothing yet. Pages, ordering and signatures of URLs are layout.
- *HTTP layer*: the order of limit, session and service is in the modules; headers, parsing and
  the mapping of errors keep no state. *Contracts* are schemas.
- *Web client*: what it sends is any request at any time; its only state is the browser's
  cookies.
- *Storage*: one request each; errors before and after the effect are choices of the steps
  that call it.
- *Database privileges and triggers*: they reject writes the code does not make.
- *Seeding* is a script run once; *the pricing, legal and AI packages* are empty at this commit.

## 8. Plan

In the order of what can go wrong most. Steps 1 to 10 are done; what is left of the
properties is liveness, which stays with TLC.

1. `DocumentScan` with `DocumentLifecycle` as its promise; types, safety and refinement proved; `DocumentSweep`,
   its sweep statement by statement, proved to be one step.
2. `DocumentUpload`; quota, answers and compensation proved.
3. `DocumentOcr` with the activation, over `DocumentLifecycle`; scope and results proved.
4. `EmailOutbox` with tokens and links; single delivery and a working link proved.
5. `Sessions`; one-way revocation, one successor, windows, events and what a closing leaves proved.
6. `LoginLimits` over `AttemptLimits` and `FixedWindow`; delay, Retry-After on both sides and both refinements,
   the limiter's by its answers, proved.
7. `FileTreatment` with `ImageMetadata`; checked on every order of events and every small image, and the
   copy proved for every image.
8. `CaseFile`; who is answered with what, over everything the worker does meanwhile, proved.
9. `PendingHasJob` of the treatment and of the OCR, and `CleanImageHasCopy`, proved where the code
   promises them.
10. The verdict of a scan proved for every file and every way of cutting the answer, its terminator included.
11. `DocumentPipeline`: upload, treatment and OCR composed over their promises: every uploaded
    document gets a result, and only clean ones are served or recognized. Today `DocumentOcr` and
    `CaseFile` each compose a part of it.
12. The transitions of a case, once handlers call `case-status.ts`.
