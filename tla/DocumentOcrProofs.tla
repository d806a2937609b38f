-------------------------- MODULE DocumentOcrProofs --------------------------
(***************************************************************************)
(* Theorems about the OCR, for any number of documents and handlers, any   *)
(* number of attempts and of retries, and any bounds: they only restrict   *)
(* what may happen.                                                        *)
(***************************************************************************)
EXTENDS DocumentOcr, TLAPS

PCs == {"idle", "claiming", "returning"} \cup InClaim

\* The handler's last write, under its claim.
Record(e) == MarkCompleted(e) \/ MarkFailed(e) \/ ReleaseForRetry(e) \/ MarkExcluded(e)

\* A handler at work is at work on a document.
ExecTyped ==
  /\ exec \in [Executions -> Exec]
  /\ \A e \in Executions : exec[e].pc # "idle" => exec[e].doc \in Docs

-----------------------------------------------------------------------------
(***************************************************************************)
(* Type correctness, one group of variables at a time                      *)
(***************************************************************************)
LEMMA GotoTyped ==
  ASSUME TypeOK, NEW e \in Executions, exec[e].pc # "idle", NEW pc \in PCs, Goto(e, pc)
  PROVE  /\ ExecTyped'
         /\ exec'[e].pc = pc
         /\ exec'[e].doc = exec[e].doc
         /\ \A f \in Executions \ {e} : exec'[f] = exec[f]
  BY DEF TypeOK, ExecTyped, Exec, Goto, PCs, InClaim

LEMMA IdleTyped ==
  ASSUME TypeOK, NEW e \in Executions, exec' = [exec EXCEPT ![e] = IdleExec]
  PROVE  /\ ExecTyped'
         /\ exec'[e].pc = "idle"
         /\ \A f \in Executions \ {e} : exec'[f] = exec[f]
  BY DEF TypeOK, ExecTyped, Exec, IdleExec, NoClaim, Claims

LEMMA ExecTypedNext == TypeOK /\ [Next]_vars => ExecTyped'
  <1> SUFFICES ASSUME TypeOK, [Next]_vars PROVE ExecTyped'
    OBVIOUS
  <1>0. ExecTyped
    BY DEF TypeOK, ExecTyped
  <1>1. ASSUME UNCHANGED exec PROVE ExecTyped'
    BY <1>0, <1>1 DEF ExecTyped
  <1>2. ASSUME NEW e \in Executions, NEW d \in Docs, NEW n \in 0..RetryLimit, Deliver(e, d, n)
        PROVE  ExecTyped'
    <2>1. [pc |-> "claiming", doc |-> d, deliveries |-> n + 1, claim |-> NoClaim] \in Exec
      BY OcrAssumption DEF Exec, NoClaim, Claims
    <2> QED
      BY <1>0, <1>2, <2>1 DEF ExecTyped, Deliver
  <1>3. ASSUME NEW e \in Executions, Claim(e) PROVE ExecTyped'
    <2> DEFINE d == exec[e].doc
    <2>1. exec[e].pc = "claiming" /\ d \in Docs /\ exec[e].deliveries \in Nat
      BY <1>0, <1>3 DEF Claim, ExecTyped, Exec
    <2>2. CASE Goto(e, "returning")
      BY <2>1, <2>2, GotoTyped DEF PCs
    <2>3. CASE exec' = [exec EXCEPT ![e] =
                          [pc |-> AfterClaim(d), doc |-> d, deliveries |-> exec[e].deliveries,
                           claim |-> [round |-> reprocessed[d], attempts |-> Counted(d)]]]
      <3>1. reprocessed[d] \in Nat /\ Counted(d) \in Nat
        BY <2>1 DEF TypeOK, Row, Counted
      <3>2. AfterClaim(d) \in InClaim
        BY DEF AfterClaim, InClaim
      <3>3. [pc |-> AfterClaim(d), doc |-> d, deliveries |-> exec[e].deliveries,
             claim |-> [round |-> reprocessed[d], attempts |-> Counted(d)]] \in Exec
        BY <2>1, <3>1, <3>2 DEF Exec, Claims
      <3> HIDE DEF d
      <3> QED
        BY <1>0, <2>1, <2>3, <3>3 DEF ExecTyped
    <2> QED
      BY <1>3, <2>2, <2>3 DEF Claim
  <1>4. ASSUME NEW e \in Executions, Read(e) \/ Recognize(e) PROVE ExecTyped'
    <2>1. PICK pc \in PCs : Goto(e, pc)
      BY <1>4 DEF Read, Recognize, AfterError, PCs, InClaim
    <2> QED
      BY <1>4, <2>1, GotoTyped DEF Read, Recognize
  <1>5. ASSUME NEW e \in Executions, Record(e) PROVE ExecTyped'
    BY <1>5, GotoTyped
    DEF Record, MarkCompleted, MarkFailed, ReleaseForRetry, MarkExcluded, PCs
  <1>6. ASSUME NEW e \in Executions, Return(e) \/ Die(e) PROVE ExecTyped'
    BY <1>6, IdleTyped DEF Return, Die
  <1>7. ASSUME NEW e \in Executions, JobExpires(e) PROVE ExecTyped'
    BY <1>0, <1>7 DEF JobExpires, ExecTyped, Exec
  <1> QED
    BY <1>1, <1>2, <1>3, <1>4, <1>5, <1>6, <1>7
    DEF Next, DeliverSome, Handle, Record, vars, LeaseExpires, RequestReprocess, ReprocessOcr, Scan,
        ScanClean, ScanInfected, ScanFails, ScanAgain, Sweep, Stop, Activate, Start

LEMMA SendTyped ==
  ASSUME TypeOK, NEW S, Send(S)
  PROVE  queued' \in [Docs -> [0..RetryLimit -> Nat]]
  BY OcrAssumption DEF TypeOK, Send

LEMMA RetryTyped ==
  ASSUME TypeOK, NEW d \in Docs, NEW n \in Nat, Retry(d, n)
  PROVE  queued' \in [Docs -> [0..RetryLimit -> Nat]]
  BY OcrAssumption DEF TypeOK, Retry

LEMMA QueueTypedNext == TypeOK /\ [Next]_vars => queued' \in [Docs -> [0..RetryLimit -> Nat]]
  <1> DEFINE Q == queued' \in [Docs -> [0..RetryLimit -> Nat]]
  <1> SUFFICES ASSUME TypeOK, [Next]_vars PROVE Q
    OBVIOUS
  <1>1. ASSUME UNCHANGED queued PROVE Q
    BY <1>1 DEF TypeOK
  <1>2. ASSUME NEW e \in Executions, NEW d \in Docs, NEW n \in 0..RetryLimit, Deliver(e, d, n)
        PROVE  Q
    <2>1. queued[d] \in [0..RetryLimit -> Nat]
      BY DEF TypeOK
    <2>3. queued[d][n] \in Nat /\ queued[d][n] > 0
      BY <1>2, <2>1 DEF Deliver
    <2>2. [queued[d] EXCEPT ![n] = queued[d][n] - 1] \in [0..RetryLimit -> Nat]
      BY <2>1, <2>3
    <2> QED
      BY <1>2, <2>2 DEF Deliver, TypeOK
  <1>3. ASSUME NEW S, Send(S) PROVE Q
    BY <1>3, SendTyped
  <1>4. ASSUME NEW e \in Executions, Die(e) \/ JobExpires(e) PROVE Q
    <2>1. exec[e].doc \in Docs /\ exec[e].deliveries \in Nat
      BY <1>4 DEF Die, JobExpires, TypeOK, Exec
    <2> QED
      BY <1>4, <2>1, RetryTyped DEF Die, JobExpires
  <1>5. ASSUME NEW e \in Executions, Record(e) PROVE Q
    BY <1>1, <1>3, <1>5 DEF Record, MarkCompleted, MarkFailed, ReleaseForRetry, MarkExcluded, Lost
  <1>6. ASSUME NEW d \in Docs, ReprocessOcr(d) \/ Scan(d) PROVE Q
    BY <1>1, <1>3, <1>6
    DEF ReprocessOcr, Scan, ScanClean, ScanInfected, ScanFails, ScanAgain
  <1>7. ASSUME NEW S, Sweep(S) PROVE Q
    BY <1>3, <1>7 DEF Sweep
  <1> HIDE DEF Q
  <1> QED
    BY <1>1, <1>2, <1>4, <1>5, <1>6, <1>7
    DEF Next, DeliverSome, Handle, Record, vars, Claim, Read, Recognize, Return, LeaseExpires,
        RequestReprocess, Stop, Activate, Start

\* A write to the OCR columns of one row.
LEMMA SetStatusTyped ==
  ASSUME TypeOK, NEW d \in Docs, NEW status \in OcrStatuses, SetStatus(d, status)
  PROVE  /\ row' \in [Docs -> Row]
         /\ row'[d].status = status
         /\ \A c \in Docs \ {d} : row'[c] = row[c]
  BY DEF TypeOK, SetStatus, Row

RowTyped ==
  /\ row \in [Docs -> Row]
  /\ lapsed \in SUBSET Docs
  /\ results \in [Docs -> Results]
  /\ reprocessed \in [Docs -> Nat]
  /\ asked \in [Docs -> Nat]

LEMMA RecordTyped ==
  ASSUME TypeOK, NEW e \in Executions, Record(e)
  PROVE  RowTyped'
  <1> DEFINE d == exec[e].doc
  <1>1. d \in Docs
    BY DEF TypeOK, Record, MarkCompleted, MarkFailed, ReleaseForRetry, MarkExcluded
  <1>2. UNCHANGED <<lapsed, reprocessed, asked>>
    BY DEF Record, MarkCompleted, MarkFailed, ReleaseForRetry, MarkExcluded
  <1>3. row' \in [Docs -> Row]
    <2>1. CASE UNCHANGED row
      BY <2>1 DEF TypeOK
    <2>2. ASSUME NEW status \in OcrStatuses, SetStatus(d, status) PROVE row' \in [Docs -> Row]
      BY <1>1, <2>2, SetStatusTyped
    <2> QED
      BY <2>1, <2>2
      DEF Record, MarkCompleted, MarkFailed, ReleaseForRetry, MarkExcluded, Lost, OcrStatuses
  <1>4. results' \in [Docs -> Results]
    <2>1. results[d].completed + 1 \in Nat /\ results[d].failed + 1 \in Nat
      BY <1>1 DEF TypeOK, Results
    <2>2. CASE UNCHANGED results
      BY <2>2 DEF TypeOK
    <2>3. CASE results' = [results EXCEPT ![d].completed = results[d].completed + 1]
      BY <2>1, <2>3 DEF TypeOK, Results
    <2>4. CASE results' = [results EXCEPT ![d].failed = results[d].failed + 1]
      BY <2>1, <2>4 DEF TypeOK, Results
    <2> QED
      BY <2>2, <2>3, <2>4
      DEF Record, MarkCompleted, MarkFailed, ReleaseForRetry, MarkExcluded, Lost
  <1> QED
    BY <1>2, <1>3, <1>4 DEF RowTyped, TypeOK

LEMMA RowTypedNext == TypeOK /\ [Next]_vars => RowTyped'
  <1> SUFFICES ASSUME TypeOK, [Next]_vars PROVE RowTyped'
    OBVIOUS
  <1>0. RowTyped
    BY DEF TypeOK, RowTyped
  <1>1. ASSUME UNCHANGED <<row, lapsed, results, reprocessed, asked>> PROVE RowTyped'
    BY <1>0, <1>1 DEF RowTyped
  <1>2. ASSUME NEW e \in Executions, Claim(e) PROVE RowTyped'
    <2>1. exec[e].doc \in Docs
      BY <1>2 DEF Claim, TypeOK
    <2>2. Counted(exec[e].doc) \in Nat
      BY <2>1 DEF TypeOK, Row, Counted
    <2>3. [status |-> "PROCESSING", attempts |-> Counted(exec[e].doc)] \in Row
      BY <2>2 DEF Row, OcrStatuses
    <2>4. row' \in [Docs -> Row]
      BY <1>0, <1>2, <2>1, <2>3 DEF Claim, RowTyped
    <2> QED
      BY <1>0, <1>2, <2>4 DEF Claim, RowTyped
  <1>3. ASSUME NEW e \in Executions, Record(e) PROVE RowTyped'
    BY <1>3, RecordTyped
  <1>4. ASSUME NEW d \in Docs, LeaseExpires(d) PROVE RowTyped'
    BY <1>0, <1>4 DEF LeaseExpires, RowTyped
  <1>5. ASSUME NEW d \in Docs, RequestReprocess(d) PROVE RowTyped'
    BY <1>0, <1>5 DEF RequestReprocess, RowTyped
  <1>6. ASSUME NEW d \in Docs, ReprocessOcr(d) PROVE RowTyped'
    <2>1. [status |-> "PENDING", attempts |-> 0] \in Row
      BY DEF Row, OcrStatuses
    <2>2. row' \in [Docs -> Row]
      BY <1>0, <1>6, <2>1 DEF ReprocessOcr, RowTyped
    <2>3. reprocessed' \in [Docs -> Nat]
      BY <1>0, <1>6 DEF ReprocessOcr, RowTyped
    <2>4. asked[d] \in Nat /\ asked[d] > 0
      BY <1>0, <1>6 DEF ReprocessOcr, RowTyped
    <2>5. asked' \in [Docs -> Nat]
      BY <1>0, <1>6, <2>4 DEF ReprocessOcr, RowTyped
    <2> QED
      BY <1>0, <1>6, <2>2, <2>3, <2>5 DEF ReprocessOcr, RowTyped
  <1>7. ASSUME NEW d \in Docs, Scan(d) PROVE RowTyped'
    <2>1. CleanStatus(d) \in OcrStatuses
      BY <1>0 DEF RowTyped, CleanStatus, Row, OcrStatuses
    <2>2. row' \in [Docs -> Row]
      <3>1. CASE UNCHANGED row
        BY <1>0, <3>1 DEF RowTyped
      <3>2. ASSUME NEW status \in OcrStatuses, SetStatus(d, status) PROVE row' \in [Docs -> Row]
        BY <3>2, SetStatusTyped
      <3> QED
        BY <1>7, <2>1, <3>1, <3>2
        DEF Scan, ScanClean, ScanInfected, ScanFails, ScanAgain, OcrStatuses
    <2> QED
      BY <1>0, <1>7, <2>2 DEF RowTyped, Scan, ScanClean, ScanInfected, ScanFails, ScanAgain
  <1>8. ASSUME NEW S \in SUBSET Docs, Sweep(S) PROVE RowTyped'
    <2>1. row' \in [Docs -> Row]
      BY <1>0, <1>8 DEF Sweep, RowTyped, Row, OcrStatuses
    <2>2. \A d \in Docs : [results[d] EXCEPT !.failed = results[d].failed + 1] \in Results
      BY <1>0 DEF RowTyped, Results
    <2>3. results' \in [Docs -> Results]
      BY <1>0, <1>8, <2>2 DEF Sweep, RowTyped
    <2> QED
      BY <1>0, <1>8, <2>1, <2>3 DEF Sweep, RowTyped
  <1>9. ASSUME Activate PROVE RowTyped'
    <2>1. row' \in [Docs -> Row]
      BY <1>0, <1>9 DEF Activate, RowTyped, Row, OcrStatuses
    <2> QED
      BY <1>0, <1>9, <2>1 DEF Activate, RowTyped
  <1> QED
    BY <1>1, <1>2, <1>3, <1>4, <1>5, <1>6, <1>7, <1>8, <1>9
    DEF Next, DeliverSome, Handle, Record, vars, Deliver, Read, Recognize, Return, Die, JobExpires,
        Stop, Start

\* What the treatment and the deployment leave behind.
OtherTyped ==
  /\ state \in [Docs -> Treatment!States]
  /\ log \in [Docs -> Treatment!Log]
  /\ fileType \in [Docs -> {"image", "pdf"}]
  /\ worker \in {"stopped", "off", "on", "onWithPdf"}
  /\ starts \in Nat
  /\ mishaps \in Nat

LEMMA OtherTypedNext == TypeOK /\ [Next]_vars => OtherTyped'
  <1> SUFFICES ASSUME TypeOK, [Next]_vars PROVE OtherTyped'
    OBVIOUS
  <1>0. OtherTyped
    BY DEF TypeOK, OtherTyped
  <1>1. ASSUME UNCHANGED <<treatment, deployment, mishaps>> PROVE OtherTyped'
    BY <1>0, <1>1 DEF OtherTyped, treatment, deployment
  <1>2. ASSUME NEW d \in Docs, Scan(d) PROVE OtherTyped'
    <2>1. UNCHANGED <<deployment, mishaps>>
      BY <1>2 DEF Scan, ScanClean, ScanInfected, ScanFails, ScanAgain
    <2>2. /\ log[d] \in Treatment!Log
          /\ log[d].clean + 1 \in Nat /\ log[d].infected + 1 \in Nat
          /\ log[d].failed + 1 \in Nat /\ log[d].reprocessed + 1 \in Nat
      BY <1>0 DEF OtherTyped, Treatment!Log
    <2>3. state' \in [Docs -> Treatment!States]
      BY <1>0, <1>2 DEF OtherTyped, Scan, ScanClean, ScanInfected, ScanFails, ScanAgain,
        Treatment!Pass, Treatment!Condemn, Treatment!GiveUp, Treatment!Reopen, Treatment!States
    <2>4. log' \in [Docs -> Treatment!Log]
      BY <1>0, <1>2, <2>2 DEF OtherTyped, Scan, ScanClean, ScanInfected, ScanFails, ScanAgain,
        Treatment!Pass, Treatment!Condemn, Treatment!GiveUp, Treatment!Reopen, Treatment!Log
    <2> QED
      BY <1>0, <2>1, <2>3, <2>4 DEF OtherTyped, deployment
  <1>3. ASSUME NEW e \in Executions, Die(e) \/ JobExpires(e) PROVE OtherTyped'
    BY <1>0, <1>3 DEF OtherTyped, Die, JobExpires, treatment, deployment
  <1>4. ASSUME NEW d \in Docs, ReprocessOcr(d) PROVE OtherTyped'
    BY <1>0, <1>4 DEF OtherTyped, ReprocessOcr, treatment, deployment
  <1>5. ASSUME Stop \/ \E mode \in {"off", "on", "onWithPdf"} : Start(mode) PROVE OtherTyped'
    BY <1>0, <1>5 DEF OtherTyped, Stop, Start, treatment
  <1> QED
    BY <1>1, <1>2, <1>3, <1>4, <1>5
    DEF Next, DeliverSome, Handle, vars, Deliver, Claim, Read, Recognize, Return,
        MarkCompleted, MarkFailed, ReleaseForRetry, MarkExcluded, LeaseExpires, RequestReprocess,
        Sweep, Activate

LEMMA TypeNext == TypeOK /\ [Next]_vars => TypeOK'
  BY ExecTypedNext, QueueTypedNext, RowTypedNext, OtherTypedNext
  DEF ExecTyped, RowTyped, OtherTyped, TypeOK

-----------------------------------------------------------------------------
(***************************************************************************)
(* The inductive invariant.  A stopped worker runs no handler, so what a   *)
(* handler checked against the configuration holds to its end.             *)
(***************************************************************************)
WorkerInv ==
  /\ NoPdfSent
  /\ ~Running => \A e \in Executions : exec[e].pc = "idle"

IInv == TypeOK /\ ScopeAgrees /\ ResultsMatchRounds /\ WorkerInv

LEMMA InitIInv == Init => IInv
  <1> SUFFICES ASSUME Init PROVE IInv
    OBVIOUS
  <1>1. TypeOK
    BY OcrAssumption
    DEF Init, TypeOK, Treatment!Init, Treatment!States, Treatment!Log, Row, OcrStatuses, Results,
        Exec, IdleExec, NoClaim, Claims
  <1>2. ScopeAgrees /\ ResultsMatchRounds /\ WorkerInv
    BY DEF Init, Treatment!Init, ScopeAgrees, ResultsMatchRounds, WorkerInv, NoPdfSent, IdleExec,
           Active, Running
  <1> QED
    BY <1>1, <1>2 DEF IInv

LEMMA WorkerNext == TypeOK /\ WorkerInv /\ [Next]_vars => WorkerInv'
  <1> SUFFICES ASSUME TypeOK, WorkerInv, [Next]_vars PROVE WorkerInv'
    OBVIOUS
  <1> USE DEF WorkerInv, NoPdfSent, Running, PdfAllowed
  <1>1. ASSUME UNCHANGED <<exec, fileType, worker>> PROVE WorkerInv'
    BY <1>1
  \* The steps of a handler, and those that end it.
  <1>2. ASSUME NEW e \in Executions, UNCHANGED <<fileType, worker>>, Running,
               \A f \in Executions \ {e} : exec'[f] = exec[f],
               exec'[e].pc \in {"reading", "recognizing"} /\ fileType[exec'[e].doc] = "pdf"
                 => PdfAllowed
        PROVE  WorkerInv'
    BY <1>2
  <1>3. ASSUME NEW e \in Executions, exec[e].pc # "idle" PROVE Running
    BY <1>3
  <1>4. ASSUME NEW e \in Executions, NEW d \in Docs, NEW n \in 0..RetryLimit, Deliver(e, d, n)
        PROVE  WorkerInv'
    <2>1. Running /\ UNCHANGED <<fileType, worker>>
      BY <1>4 DEF Deliver, Active, deployment
    <2>2. exec'[e].pc = "claiming" /\ \A f \in Executions \ {e} : exec'[f] = exec[f]
      BY <1>4 DEF Deliver, TypeOK
    <2> QED
      BY <1>2, <2>1, <2>2
  <1>5. ASSUME NEW e \in Executions, Claim(e) PROVE WorkerInv'
    <2>1. Running /\ UNCHANGED <<fileType, worker>>
      BY <1>3, <1>5 DEF Claim, deployment
    <2>2. CASE Goto(e, "returning")
      BY <1>2, <1>5, <2>1, <2>2, GotoTyped DEF Claim, PCs
    <2>3. CASE ~Goto(e, "returning")
      <3>1. exec'[e].pc = AfterClaim(exec[e].doc) /\ exec'[e].doc = exec[e].doc
            /\ \A f \in Executions \ {e} : exec'[f] = exec[f]
        BY <1>5, <2>3 DEF Claim, TypeOK
      <3>2. AfterClaim(exec[e].doc) = "reading" /\ fileType[exec[e].doc] = "pdf" => PdfAllowed
        BY DEF AfterClaim
      <3> QED
        BY <1>2, <2>1, <3>1, <3>2 DEF AfterClaim
    <2> QED
      BY <2>2, <2>3
  <1>6. ASSUME NEW e \in Executions, Read(e) \/ Recognize(e) PROVE WorkerInv'
    <2>1. Running /\ UNCHANGED <<fileType, worker>>
      BY <1>3, <1>6 DEF Read, Recognize, deployment
    <2>2. PICK pc \in PCs : Goto(e, pc)
      BY <1>6 DEF Read, Recognize, AfterError, PCs, InClaim
    <2>3. /\ exec'[e].doc = exec[e].doc
          /\ \A f \in Executions \ {e} : exec'[f] = exec[f]
      BY <1>6, <2>2, GotoTyped DEF Read, Recognize
    <2>4. fileType[exec[e].doc] = "pdf" => PdfAllowed
      BY <1>6 DEF Read, Recognize
    <2> QED
      BY <1>2, <2>1, <2>3, <2>4
  <1>7. ASSUME NEW e \in Executions, Record(e) PROVE WorkerInv'
    <2>1. Running /\ UNCHANGED <<fileType, worker>>
      BY <1>3, <1>7
      DEF Record, MarkCompleted, MarkFailed, ReleaseForRetry, MarkExcluded, deployment
    <2>2. exec'[e].pc = "returning" /\ \A f \in Executions \ {e} : exec'[f] = exec[f]
      BY <1>7, GotoTyped
      DEF Record, MarkCompleted, MarkFailed, ReleaseForRetry, MarkExcluded, PCs
    <2> QED
      BY <1>2, <2>1, <2>2
  <1>8. ASSUME NEW e \in Executions, Return(e) \/ Die(e) PROVE WorkerInv'
    <2>1. Running /\ UNCHANGED <<fileType, worker>>
      BY <1>3, <1>8 DEF Return, Die, deployment
    <2> QED
      BY <1>2, <1>8, <2>1, IdleTyped DEF Return, Die
  <1>9. ASSUME NEW e \in Executions, JobExpires(e) PROVE WorkerInv'
    <2>1. Running /\ UNCHANGED <<fileType, worker>>
      BY <1>3, <1>9 DEF JobExpires, deployment
    <2>2. /\ exec'[e].pc = exec[e].pc /\ exec'[e].doc = exec[e].doc
          /\ \A f \in Executions \ {e} : exec'[f] = exec[f]
      BY <1>9 DEF JobExpires, TypeOK, Exec
    <2> QED
      BY <1>2, <2>1, <2>2
  <1>10. ASSUME Stop \/ \E mode \in {"off", "on", "onWithPdf"} : Start(mode) PROVE WorkerInv'
    BY <1>10 DEF Stop, Start
  <1> QED
    BY <1>1, <1>4, <1>5, <1>6, <1>7, <1>8, <1>9, <1>10
    DEF Next, DeliverSome, Handle, Record, vars, deployment, LeaseExpires, RequestReprocess,
        ReprocessOcr, Scan, ScanClean, ScanInfected, ScanFails, ScanAgain, Sweep, Activate

-----------------------------------------------------------------------------
(***************************************************************************)
(* What the steps do to the rows                                           *)
(***************************************************************************)
Decided == OcrStatuses \ {"NOT_STARTED", "NOT_APPLICABLE"}

\* A handler writes only the row it holds, once, with the result it says.
LEMMA RecordWrites ==
  ASSUME TypeOK, NEW e \in Executions, Record(e)
  PROVE  \/ UNCHANGED <<row, results>>
         \/ /\ Holds(e)
            /\ row[exec[e].doc].status = "PROCESSING"
            /\ row'[exec[e].doc].status \in {"PENDING", "COMPLETED", "FAILED", "EXCLUDED"}
            /\ \A d \in Docs \ {exec[e].doc} : row'[d] = row[d] /\ results'[d] = results[d]
            /\ results'[exec[e].doc].completed =
                 results[exec[e].doc].completed
                   + IF row'[exec[e].doc].status = "COMPLETED" THEN 1 ELSE 0
            /\ results'[exec[e].doc].failed =
                 results[exec[e].doc].failed
                   + IF row'[exec[e].doc].status = "FAILED" THEN 1 ELSE 0
  <1> DEFINE d == exec[e].doc
  <1>1. d \in Docs /\ results[d].completed \in Nat /\ results[d].failed \in Nat
    BY DEF TypeOK, Results, Record, MarkCompleted, MarkFailed, ReleaseForRetry, MarkExcluded
  <1>2. CASE Lost(e)
    BY <1>2 DEF Lost
  <1>3. CASE Holds(e) /\ SetStatus(d, "COMPLETED")
             /\ results' = [results EXCEPT ![d].completed = results[d].completed + 1]
    BY <1>1, <1>3, SetStatusTyped DEF Holds, TypeOK, Results, OcrStatuses
  <1>4. CASE Holds(e) /\ SetStatus(d, "FAILED")
             /\ results' = [results EXCEPT ![d].failed = results[d].failed + 1]
    BY <1>1, <1>4, SetStatusTyped DEF Holds, TypeOK, Results, OcrStatuses
  <1>5. CASE Holds(e) /\ (SetStatus(d, "PENDING") \/ SetStatus(d, "EXCLUDED"))
             /\ UNCHANGED results
    BY <1>1, <1>5, SetStatusTyped DEF Holds, TypeOK, Results, OcrStatuses
  <1> QED
    BY <1>2, <1>3, <1>4, <1>5
    DEF Record, MarkCompleted, MarkFailed, ReleaseForRetry, MarkExcluded

LEMMA ClaimWrites ==
  ASSUME TypeOK, NEW e \in Executions, Claim(e)
  PROVE  \/ UNCHANGED row
         \/ /\ exec[e].doc \in Docs
            /\ Claimable(exec[e].doc)
            /\ row'[exec[e].doc].status = "PROCESSING"
            /\ \A d \in Docs \ {exec[e].doc} : row'[d] = row[d]
  <1>1. exec[e].doc \in Docs
    BY DEF Claim, TypeOK
  <1> QED
    BY <1>1 DEF Claim, TypeOK

\* While its treatment is under way a document is not in the OCR.
LEMMA PendingNotStarted ==
  ASSUME TypeOK, ScopeAgrees, NEW d \in Docs, state[d] \notin {"clean", "infected"}
  PROVE  row[d].status = "NOT_STARTED"
  BY DEF TypeOK, ScopeAgrees, Row, OcrStatuses

\* The OCR's own steps decide about clean documents only, and never undecide.
LEMMA ScopeKept ==
  ASSUME TypeOK, ScopeAgrees, UNCHANGED <<state, worker>>,
         \A d \in Docs : \/ row'[d].status = row[d].status
                         \/ state[d] = "clean" /\ row'[d].status \in Decided
  PROVE  ScopeAgrees'
  BY DEF ScopeAgrees, Decided, Active

LEMMA ScopeNext == TypeOK /\ ScopeAgrees /\ [Next]_vars => ScopeAgrees'
  <1> SUFFICES ASSUME TypeOK, ScopeAgrees, [Next]_vars PROVE ScopeAgrees'
    OBVIOUS
  <1>1. ASSUME UNCHANGED <<state, worker, row>> PROVE ScopeAgrees'
    BY <1>1, ScopeKept
  <1>2. ASSUME NEW e \in Executions, Claim(e) PROVE ScopeAgrees'
    BY <1>2, ScopeKept, ClaimWrites
    DEF Claim, Claimable, treatment, deployment, Decided, OcrStatuses
  <1>3. ASSUME NEW e \in Executions, Record(e) PROVE ScopeAgrees'
    <2>1. UNCHANGED <<state, worker>> /\ exec[e].doc \in Docs
      BY <1>3 DEF Record, MarkCompleted, MarkFailed, ReleaseForRetry, MarkExcluded, treatment,
                  deployment, TypeOK
    <2>2. row[exec[e].doc].status = "PROCESSING" => state[exec[e].doc] = "clean"
      BY <2>1 DEF ScopeAgrees
    <2> QED
      BY <1>3, <2>1, <2>2, RecordWrites, ScopeKept DEF Decided, OcrStatuses
  <1>4. ASSUME NEW d \in Docs, ReprocessOcr(d) PROVE ScopeAgrees'
    <2>1. UNCHANGED <<state, worker>>
      BY <1>4 DEF ReprocessOcr, treatment, deployment
    <2>2. CASE UNCHANGED row
      BY <2>1, <2>2, ScopeKept
    <2>3. CASE ~UNCHANGED row
      <3>1. state[d] = "clean" /\ row'[d].status = "PENDING"
            /\ \A c \in Docs \ {d} : row'[c] = row[c]
        BY <1>4, <2>3 DEF ReprocessOcr, TypeOK
      <3> QED
        BY <2>1, <3>1, ScopeKept DEF Decided, OcrStatuses
    <2> QED
      BY <2>2, <2>3
  <1>5. ASSUME NEW S \in SUBSET Docs, Sweep(S) PROVE ScopeAgrees'
    <2>1. \A d \in S : state[d] = "clean"
      BY <1>5 DEF Sweep, Abandoned, ScopeAgrees
    <2> QED
      BY <1>5, <2>1, ScopeKept DEF Sweep, treatment, deployment, Decided, OcrStatuses
  <1>6. ASSUME NEW d \in Docs, Scan(d) PROVE ScopeAgrees'
    <2> DEFINE s == row'[d].status
    <2>1. UNCHANGED worker
      BY <1>6 DEF Scan, ScanClean, ScanInfected, ScanFails, ScanAgain, deployment
    <2>2. row[d].status = "NOT_STARTED"
      BY <1>6, PendingNotStarted
      DEF Scan, ScanClean, ScanInfected, ScanFails, ScanAgain,
          Treatment!Pass, Treatment!Condemn, Treatment!GiveUp, Treatment!Reopen
    <2>3. \A c \in Docs \ {d} : row'[c] = row[c] /\ state'[c] = state[c]
      BY <1>6 DEF Scan, ScanClean, ScanInfected, ScanFails, ScanAgain, SetStatus, TypeOK,
          Treatment!Pass, Treatment!Condemn, Treatment!GiveUp, Treatment!Reopen
    <2>4. CASE ScanClean(d)
      <3>1. state'[d] = "clean" /\ s = CleanStatus(d)
        BY <2>4 DEF ScanClean, Treatment!Pass, SetStatus, TypeOK, Row
      <3>2. CleanStatus(d) \in {"NOT_STARTED", "EXCLUDED", "PENDING"}
            /\ (Active => CleanStatus(d) # "NOT_STARTED")
        BY <2>2 DEF CleanStatus
      <3> QED
        BY <2>1, <2>3, <3>1, <3>2 DEF ScopeAgrees, Active
    <2>5. CASE ScanInfected(d)
      <3>1. state'[d] = "infected" /\ s \in {"NOT_STARTED", "NOT_APPLICABLE"}
        BY <2>2, <2>5 DEF ScanInfected, Treatment!Condemn, SetStatus, TypeOK, Row
      <3> QED
        BY <2>1, <2>3, <3>1 DEF ScopeAgrees, Active
    <2>6. CASE ScanFails(d) \/ ScanAgain(d)
      <3>1. state'[d] \in {"failed", "pending"} /\ s = "NOT_STARTED"
        BY <2>2, <2>6 DEF ScanFails, ScanAgain, Treatment!GiveUp, Treatment!Reopen, TypeOK
      <3> QED
        BY <2>1, <2>3, <3>1 DEF ScopeAgrees, Active
    <2> QED
      BY <1>6, <2>4, <2>5, <2>6 DEF Scan
  <1>7. ASSUME Stop \/ \E mode \in {"off", "on", "onWithPdf"} : Start(mode) PROVE ScopeAgrees'
    BY <1>7 DEF Stop, Start, Activated, ScopeAgrees, Active, treatment
  <1>8. ASSUME Activate PROVE ScopeAgrees'
    <2>1. UNCHANGED <<state, worker>> /\ worker = "stopped"
      BY <1>8 DEF Activate, Running, treatment, deployment
    <2>2. ASSUME NEW d \in Docs
          PROVE  row'[d].status = IF row[d].status # "NOT_STARTED" THEN row[d].status
                                  ELSE IF state[d] = "clean" THEN "EXCLUDED"
                                  ELSE IF state[d] = "infected" THEN "NOT_APPLICABLE"
                                  ELSE "NOT_STARTED"
      BY <1>8 DEF Activate
    <2> QED
      BY <2>1, <2>2 DEF ScopeAgrees, Active
  <1> QED
    BY <1>1, <1>2, <1>3, <1>4, <1>5, <1>6, <1>7, <1>8
    DEF Next, DeliverSome, Handle, Record, vars, treatment, deployment, Deliver, Read, Recognize,
        Return, Die, JobExpires, LeaseExpires, RequestReprocess

ResultsMatch(d) ==
  /\ results[d].completed = IF row[d].status = "COMPLETED" THEN 1 ELSE 0
  /\ results[d].failed = reprocessed[d] + IF row[d].status = "FAILED" THEN 1 ELSE 0

LEMMA ResultsNext == TypeOK /\ ScopeAgrees /\ ResultsMatchRounds /\ [Next]_vars => ResultsMatchRounds'
  <1> SUFFICES ASSUME TypeOK, ScopeAgrees, ResultsMatchRounds, [Next]_vars, NEW c \in Docs
               PROVE  ResultsMatch(c)'
    BY DEF ResultsMatchRounds, ResultsMatch
  <1>0. ResultsMatch(c) /\ results[c].completed \in Nat /\ results[c].failed \in Nat
        /\ reprocessed[c] \in Nat
    BY DEF ResultsMatchRounds, ResultsMatch, TypeOK, Results
  \* A row that neither ends nor leaves an end has the results it had.
  <1>1. ASSUME UNCHANGED <<results, reprocessed>>,
               \/ row'[c].status = row[c].status
               \/ /\ row[c].status \notin {"COMPLETED", "FAILED"}
                  /\ row'[c].status \notin {"COMPLETED", "FAILED"}
        PROVE  ResultsMatch(c)'
    BY <1>0, <1>1 DEF ResultsMatch
  <1>2. ASSUME NEW e \in Executions, Claim(e) PROVE ResultsMatch(c)'
    <2>1. UNCHANGED <<results, reprocessed>>
      BY <1>2 DEF Claim
    <2> QED
      BY <1>1, <1>2, <2>1, ClaimWrites DEF Claimable, Abandoned
  <1>3. ASSUME NEW e \in Executions, Record(e) PROVE ResultsMatch(c)'
    <2>1. UNCHANGED reprocessed
      BY <1>3 DEF Record, MarkCompleted, MarkFailed, ReleaseForRetry, MarkExcluded
    <2>2. CASE UNCHANGED <<row, results>>
      BY <1>1, <2>1, <2>2
    <2>3. CASE ~UNCHANGED <<row, results>>
      BY <1>0, <1>3, <2>1, <2>3, RecordWrites DEF ResultsMatch
    <2> QED
      BY <2>2, <2>3
  <1>4. ASSUME NEW d \in Docs, ReprocessOcr(d) PROVE ResultsMatch(c)'
    <2>1. UNCHANGED results
      BY <1>4 DEF ReprocessOcr
    <2>2. CASE UNCHANGED <<row, reprocessed>> \/ c # d
      BY <1>0, <1>4, <2>1, <2>2 DEF ResultsMatch, ReprocessOcr, TypeOK
    <2>3. CASE ~UNCHANGED <<row, reprocessed>> /\ c = d
      <3>1. row[c].status = "FAILED" /\ row'[c].status = "PENDING"
            /\ reprocessed'[c] = reprocessed[c] + 1
        BY <1>4, <2>3 DEF ReprocessOcr, TypeOK
      <3> QED
        BY <1>0, <2>1, <3>1 DEF ResultsMatch
    <2> QED
      BY <2>2, <2>3
  <1>5. ASSUME NEW S \in SUBSET Docs, Sweep(S) PROVE ResultsMatch(c)'
    <2>1. UNCHANGED reprocessed
      BY <1>5 DEF Sweep
    <2>2. CASE c \notin S
      <3>1. row'[c] = row[c] /\ results'[c] = results[c]
        BY <1>5, <2>2 DEF Sweep
      <3> QED
        BY <1>0, <2>1, <3>1 DEF ResultsMatch
    <2>3. CASE c \in S
      <3>1. row[c].status = "PROCESSING"
        BY <1>5, <2>3 DEF Sweep, Abandoned
      <3>2. CASE row[c].attempts >= MaxAttempts
        <4>1. row'[c].status = "FAILED" /\ results'[c].failed = results[c].failed + 1
              /\ results'[c].completed = results[c].completed
          BY <1>5, <2>3, <3>2 DEF Sweep, TypeOK, Results
        <4> QED
          BY <1>0, <2>1, <3>1, <4>1 DEF ResultsMatch
      <3>3. CASE ~(row[c].attempts >= MaxAttempts)
        <4>1. row'[c].status = "PENDING" /\ results'[c] = results[c]
          BY <1>5, <2>3, <3>3 DEF Sweep, TypeOK, Results
        <4> QED
          BY <1>0, <2>1, <3>1, <4>1 DEF ResultsMatch
      <3> QED
        BY <3>2, <3>3
    <2> QED
      BY <2>2, <2>3
  <1>6. ASSUME NEW d \in Docs, Scan(d) PROVE ResultsMatch(c)'
    <2>1. UNCHANGED <<results, reprocessed>>
      BY <1>6 DEF Scan, ScanClean, ScanInfected, ScanFails, ScanAgain
    <2>2. row[d].status = "NOT_STARTED"
      BY <1>6, PendingNotStarted
      DEF Scan, ScanClean, ScanInfected, ScanFails, ScanAgain,
          Treatment!Pass, Treatment!Condemn, Treatment!GiveUp, Treatment!Reopen
    <2>3. CleanStatus(d) \notin {"COMPLETED", "FAILED"}
      BY <2>2 DEF CleanStatus
    <2>4. CASE c = d
      BY <1>1, <1>6, <2>1, <2>2, <2>3, <2>4
      DEF Scan, ScanClean, ScanInfected, ScanFails, ScanAgain, SetStatus, TypeOK, Row
    <2>5. CASE c # d
      BY <1>1, <1>6, <2>1, <2>5
      DEF Scan, ScanClean, ScanInfected, ScanFails, ScanAgain, SetStatus, TypeOK, Row
    <2> QED
      BY <2>4, <2>5
  <1>7. ASSUME Activate PROVE ResultsMatch(c)'
    BY <1>1, <1>7 DEF Activate
  <1>8. ASSUME UNCHANGED <<row, results, reprocessed>> PROVE ResultsMatch(c)'
    BY <1>1, <1>8
  <1> QED
    BY <1>2, <1>3, <1>4, <1>5, <1>6, <1>7, <1>8
    DEF Next, DeliverSome, Handle, Record, vars, Deliver, Read, Recognize, Return, Die, JobExpires,
        LeaseExpires, RequestReprocess, Stop, Start

LEMMA Invariance == Spec => []IInv
  <1>1. IInv /\ [Next]_vars => IInv'
    BY TypeNext, ScopeNext, ResultsNext, WorkerNext DEF IInv
  <1> QED
    BY <1>1, InitIInv, PTL DEF Spec

-----------------------------------------------------------------------------
\* Every step of the handler, the sweep, the reprocessing, the treatment and the activation keeps
\* rows, results, queues and handlers of their types.
THEOREM OcrTypeCorrect == Spec => []TypeOK
  <1>1. IInv => TypeOK
    BY DEF IInv
  <1> QED
    BY <1>1, Invariance, PTL

\* The activation invariant and the scope of the OCR: ocrStatusFor(), activateOcr() and the check at
\* start-up leave no clean document undecided while the OCR is active, and claim() takes no other.
THEOREM ScopeCorrect == Spec => []ScopeAgrees
  <1>1. IInv => ScopeAgrees
    BY DEF IInv
  <1> QED
    BY <1>1, Invariance, PTL

\* finish(), sweepAbandonedOcr() and reprocessOcr() record one result for each round, no matter how
\* many handlers, deliveries and takeovers it went through.
THEOREM ResultsCorrect == Spec => []ResultsMatchRounds
  <1>1. IInv => ResultsMatchRounds
    BY DEF IInv
  <1> QED
    BY <1>1, Invariance, PTL

\* ocrDocument() calls no provider with a PDF that its worker may not process.
THEOREM PdfCorrect == Spec => []NoPdfSent
  <1>1. IInv => NoPdfSent
    BY DEF IInv, WorkerInv
  <1> QED
    BY <1>1, Invariance, PTL

\* While a claim is within its lease only the handler that holds it changes the row.
LiveClaimStep ==
  \A d \in Docs :
    row[d].status = "PROCESSING" /\ d \notin lapsed /\ row'[d] # row[d]
      => \E e \in Executions : /\ exec[e].doc = d /\ exec[e].pc \in InClaim
                               /\ Holds(e) /\ exec'[e].pc = "returning"

LEMMA LiveClaimNext == IInv /\ [Next]_vars => LiveClaimStep
  <1> SUFFICES ASSUME IInv, [Next]_vars, NEW c \in Docs,
                      row[c].status = "PROCESSING", c \notin lapsed, row'[c] # row[c]
               PROVE  \E e \in Executions : /\ exec[e].doc = c /\ exec[e].pc \in InClaim
                                            /\ Holds(e) /\ exec'[e].pc = "returning"
    BY DEF LiveClaimStep
  <1>0. TypeOK /\ ScopeAgrees
    BY DEF IInv
  <1>1. ASSUME NEW e \in Executions, Record(e)
        PROVE  /\ exec[e].doc = c /\ exec[e].pc \in InClaim
               /\ Holds(e) /\ exec'[e].pc = "returning"
    <2>1. exec[e].pc \in InClaim /\ exec'[e].pc = "returning"
      BY <1>0, <1>1, GotoTyped
      DEF Record, MarkCompleted, MarkFailed, ReleaseForRetry, MarkExcluded, PCs, InClaim
    <2> QED
      BY <1>0, <1>1, <2>1, RecordWrites
  <1>2. ASSUME NEW e \in Executions, Claim(e) PROVE FALSE
    BY <1>0, <1>2, ClaimWrites DEF Claimable, Abandoned
  <1>3. ASSUME NEW d \in Docs, ReprocessOcr(d) PROVE FALSE
    BY <1>0, <1>3 DEF ReprocessOcr, TypeOK
  <1>4. ASSUME NEW S \in SUBSET Docs, Sweep(S) PROVE FALSE
    BY <1>4 DEF Sweep, Abandoned
  <1>5. ASSUME NEW d \in Docs, Scan(d) PROVE FALSE
    <2>1. row[d].status = "NOT_STARTED"
      BY <1>0, <1>5, PendingNotStarted
      DEF Scan, ScanClean, ScanInfected, ScanFails, ScanAgain,
          Treatment!Pass, Treatment!Condemn, Treatment!GiveUp, Treatment!Reopen
    <2> QED
      BY <1>0, <1>5, <2>1
      DEF Scan, ScanClean, ScanInfected, ScanFails, ScanAgain, SetStatus, TypeOK
  <1>6. ASSUME Activate PROVE FALSE
    BY <1>0, <1>6 DEF Activate, TypeOK, Row
  <1>7. ~UNCHANGED row
    OBVIOUS
  <1> QED
    BY <1>1, <1>2, <1>3, <1>4, <1>5, <1>6, <1>7
    DEF Next, DeliverSome, Handle, Record, vars, Deliver, Read, Recognize, Return, Die, JobExpires,
        LeaseExpires, RequestReprocess, Stop, Start

\* claim() and sweepAbandonedOcr() leave a claim alone until its lease is over: until then only its
\* holder's own markCompleted(), markFailed(), releaseForRetry() or markExcluded() ends it.
THEOREM OcrLiveClaimCorrect == Spec => LiveClaimEndsByItsHolder
  <1>1. IInv /\ [Next]_vars => [LiveClaimStep]_vars
    BY LiveClaimNext
  <1> QED
    BY <1>1, Invariance, PTL DEF Spec, LiveClaimEndsByItsHolder, LiveClaimStep

-----------------------------------------------------------------------------
(***************************************************************************)
(* Waiting documents.  A job of the OCR is delivered again only after a    *)
(* mishap, so with no more mishaps than it has retries no delivery is its  *)
(* last, and a handler about to claim either claims or gives its job back. *)
(* One whose job has expired promises nothing: its job already waits again.*)
(***************************************************************************)
Waits(d) == \E n \in 0..RetryLimit : queued[d][n] > 0

OnItsWay(d) ==
  \E e \in Executions : exec[e].pc = "claiming" /\ exec[e].doc = d /\ exec[e].deliveries > 0

DeliveriesCounted ==
  /\ mishaps <= MaxMishaps
  /\ \A d \in Docs : \A n \in 0..RetryLimit : queued[d][n] > 0 => n <= mishaps
  /\ \A e \in Executions : exec[e].deliveries <= mishaps + 1

PendingPromised ==
  MaxMishaps <= RetryLimit =>
    \A d \in Docs : row[d].status = "PENDING" => Waits(d) \/ OnItsWay(d)

JobsKept == \A d \in Docs : \A n \in 0..RetryLimit : queued[d][n] > 0 => queued'[d][n] > 0

LEMMA OneMore ==
  ASSUME NEW jobs \in [0..RetryLimit -> Nat], NEW after, NEW k \in 0..RetryLimit,
         NEW n \in 0..RetryLimit,
         after = [jobs EXCEPT ![k] = jobs[k] + 1]
  PROVE  /\ jobs[n] \in Nat
         /\ after[n] = IF n = k THEN jobs[n] + 1 ELSE jobs[n]
  OBVIOUS

\* A new job waits at once, and no other is touched.
LEMMA JobsSent ==
  ASSUME TypeOK, NEW S, Send(S)
  PROVE  /\ JobsKept
         /\ \A d \in Docs : d \in S => Waits(d)'
         /\ \A d \in Docs : \A n \in 0..RetryLimit :
              queued'[d][n] > 0 => queued[d][n] > 0 \/ n = 0
  <1>1. 0 \in 0..RetryLimit
    BY OcrAssumption
  <1>2. ASSUME NEW d \in Docs
        PROVE  /\ queued[d] \in [0..RetryLimit -> Nat]
               /\ d \in S => queued'[d] = [queued[d] EXCEPT ![0] = queued[d][0] + 1]
               /\ d \notin S => queued'[d] = queued[d]
    BY DEF Send, TypeOK
  <1>3. ASSUME NEW d \in Docs, NEW n \in 0..RetryLimit
        PROVE  /\ queued[d][n] \in Nat
               /\ queued'[d][n] = IF d \in S /\ n = 0 THEN queued[d][n] + 1 ELSE queued[d][n]
    <2>1. CASE d \in S
      <3> DEFINE jobs == queued[d]
                 after == queued'[d]
      <3>1. jobs \in [0..RetryLimit -> Nat] /\ after = [jobs EXCEPT ![0] = jobs[0] + 1]
        BY <1>2, <2>1
      <3> HIDE DEF jobs, after
      <3>2. jobs[n] \in Nat /\ after[n] = IF n = 0 THEN jobs[n] + 1 ELSE jobs[n]
        BY <1>1, <3>1, OneMore
      <3> QED
        BY <2>1, <3>2 DEF jobs, after
    <2>2. CASE d \notin S
      BY <1>2, <2>2
    <2> QED
      BY <2>1, <2>2
  <1> QED
    BY <1>1, <1>3 DEF JobsKept, Waits

\* So with a job whose delivery came to nothing, as long as it has retries left.
LEMMA JobsRetried ==
  ASSUME TypeOK, NEW d \in Docs, NEW k \in Nat, Retry(d, k)
  PROVE  /\ JobsKept
         /\ k \in 1..RetryLimit => Waits(d)'
         /\ \A c \in Docs : \A n \in 0..RetryLimit :
              queued'[c][n] > 0 => queued[c][n] > 0 \/ n = k
  <1>1. k \in 1..RetryLimit => k \in 0..RetryLimit
    BY OcrAssumption
  <1>2. ASSUME NEW c \in Docs
        PROVE  /\ queued[c] \in [0..RetryLimit -> Nat]
               /\ c = d /\ k \in 1..RetryLimit
                    => queued'[c] = [queued[c] EXCEPT ![k] = queued[c][k] + 1]
               /\ ~(c = d /\ k \in 1..RetryLimit) => queued'[c] = queued[c]
    BY DEF Retry, TypeOK
  <1>3. ASSUME NEW c \in Docs, NEW n \in 0..RetryLimit
        PROVE  /\ queued[c][n] \in Nat
               /\ queued'[c][n] = IF c = d /\ k \in 1..RetryLimit /\ n = k
                                  THEN queued[c][n] + 1 ELSE queued[c][n]
    <2>1. CASE c = d /\ k \in 1..RetryLimit
      <3> DEFINE jobs == queued[c]
                 after == queued'[c]
      <3>1. jobs \in [0..RetryLimit -> Nat] /\ after = [jobs EXCEPT ![k] = jobs[k] + 1]
        BY <1>2, <2>1
      <3> HIDE DEF jobs, after
      <3>2. jobs[n] \in Nat /\ after[n] = IF n = k THEN jobs[n] + 1 ELSE jobs[n]
        BY <1>1, <2>1, <3>1, OneMore
      <3> QED
        BY <2>1, <3>2 DEF jobs, after
    <2>2. CASE ~(c = d /\ k \in 1..RetryLimit)
      BY <1>2, <2>2
    <2> QED
      BY <2>1, <2>2
  <1> QED
    BY <1>1, <1>3 DEF JobsKept, Waits

LEMMA CountedNext == TypeOK /\ DeliveriesCounted /\ [Next]_vars => DeliveriesCounted'
  <1> SUFFICES ASSUME TypeOK, DeliveriesCounted, [Next]_vars PROVE DeliveriesCounted'
    OBVIOUS
  <1>0. /\ mishaps \in Nat /\ MaxMishaps \in Nat
        /\ \A e \in Executions : exec[e].deliveries \in Nat
        /\ \A d \in Docs : queued[d] \in [0..RetryLimit -> Nat]
    BY OcrAssumption DEF TypeOK, Exec
  \* No more mishaps than are counted, and jobs and handlers that had their deliveries.
  <1>1. ASSUME mishaps' = mishaps \/ (mishaps < MaxMishaps /\ mishaps' = mishaps + 1),
               \A d \in Docs : \A n \in 0..RetryLimit :
                 queued'[d][n] > 0 => queued[d][n] > 0 \/ n <= mishaps',
               \A e \in Executions : exec'[e].deliveries \in {0, exec[e].deliveries}
        PROVE  DeliveriesCounted'
    <2>1. mishaps <= mishaps' /\ mishaps' <= MaxMishaps /\ mishaps' \in Nat
      BY <1>0, <1>1 DEF DeliveriesCounted
    <2>2. ASSUME NEW d \in Docs, NEW n \in 0..RetryLimit, queued'[d][n] > 0 PROVE n <= mishaps'
      BY <1>0, <1>1, <2>1, <2>2, OcrAssumption DEF DeliveriesCounted
    <2>3. ASSUME NEW e \in Executions PROVE exec'[e].deliveries <= mishaps' + 1
      BY <1>0, <1>1, <2>1 DEF DeliveriesCounted
    <2> QED
      BY <2>1, <2>2, <2>3 DEF DeliveriesCounted
  <1>2. ASSUME NEW e \in Executions, NEW d \in Docs, NEW n \in 0..RetryLimit, Deliver(e, d, n)
        PROVE  DeliveriesCounted'
    <2>1. n <= mishaps /\ UNCHANGED mishaps
      BY <1>2 DEF Deliver, DeliveriesCounted
    <2>2. exec'[e].deliveries = n + 1 /\ \A f \in Executions \ {e} : exec'[f] = exec[f]
      BY <1>2 DEF Deliver, TypeOK
    <2>3. ASSUME NEW c \in Docs, NEW m \in 0..RetryLimit, queued'[c][m] > 0 PROVE queued[c][m] > 0
      BY <1>0, <1>2, <2>3 DEF Deliver, TypeOK
    <2>4. ASSUME NEW f \in Executions PROVE exec'[f].deliveries <= mishaps + 1
      BY <1>0, <2>1, <2>2, OcrAssumption DEF DeliveriesCounted
    <2> QED
      BY <2>1, <2>3, <2>4 DEF DeliveriesCounted
  <1>3. ASSUME NEW e \in Executions, Die(e) \/ JobExpires(e) PROVE DeliveriesCounted'
    <2> DEFINE k == exec[e].deliveries
    <2>1. /\ exec[e].doc \in Docs /\ k \in Nat /\ Retry(exec[e].doc, k)
          /\ mishaps < MaxMishaps /\ mishaps' = mishaps + 1
      BY <1>0, <1>3 DEF Die, JobExpires, TypeOK
    <2>2. k <= mishaps'
      BY <2>1 DEF DeliveriesCounted
    <2>3. \A d \in Docs : \A n \in 0..RetryLimit :
            queued'[d][n] > 0 => queued[d][n] > 0 \/ n <= mishaps'
      BY <2>1, <2>2, JobsRetried
    <2>4. \A f \in Executions : exec'[f].deliveries \in {0, exec[f].deliveries}
      BY <1>3 DEF Die, JobExpires, TypeOK, Exec, IdleExec
    <2> QED
      BY <1>1, <2>1, <2>3, <2>4
  <1>4. ASSUME NEW S, Send(S) \/ UNCHANGED queued
        PROVE  \A d \in Docs : \A n \in 0..RetryLimit :
                 queued'[d][n] > 0 => queued[d][n] > 0 \/ n <= mishaps
    BY <1>0, <1>4, JobsSent
  <1>5. ASSUME NEW e \in Executions, Handle(e) PROVE DeliveriesCounted'
    <2>1. UNCHANGED mishaps
      BY <1>5 DEF Handle, Claim, Read, Recognize, MarkCompleted, MarkFailed, ReleaseForRetry,
                  MarkExcluded, Return
    <2>2. Send({exec[e].doc}) \/ UNCHANGED queued
      BY <1>5 DEF Handle, Claim, Read, Recognize, MarkCompleted, MarkFailed, ReleaseForRetry,
                  MarkExcluded, Return, Lost
    <2>3. \A f \in Executions : exec'[f].deliveries \in {0, exec[f].deliveries}
      <3>1. CASE \E pc \in PCs : Goto(e, pc)
        BY <3>1 DEF Goto, TypeOK, Exec
      <3>2. CASE /\ exec[e].pc = "claiming"
                 /\ exec' = [exec EXCEPT ![e] =
                      [pc |-> AfterClaim(exec[e].doc), doc |-> exec[e].doc,
                       deliveries |-> exec[e].deliveries,
                       claim |-> [round |-> reprocessed[exec[e].doc],
                                  attempts |-> Counted(exec[e].doc)]]]
        BY <3>2 DEF TypeOK
      <3>3. CASE Return(e)
        BY <3>3 DEF Return, TypeOK, IdleExec
      <3> QED
        BY <1>5, <3>1, <3>2, <3>3
        DEF Handle, Claim, Read, Recognize, MarkCompleted, MarkFailed, ReleaseForRetry,
            MarkExcluded, AfterError, PCs, InClaim
    <2> QED
      BY <1>1, <1>4, <2>1, <2>2, <2>3
  <1>6. ASSUME NEW d \in Docs, ReprocessOcr(d) PROVE DeliveriesCounted'
    <2>1. /\ mishaps' = mishaps \/ (mishaps < MaxMishaps /\ mishaps' = mishaps + 1)
          /\ Send({d}) \/ UNCHANGED queued
          /\ UNCHANGED exec
      BY <1>6 DEF ReprocessOcr
    <2>2. \A c \in Docs : \A n \in 0..RetryLimit :
            queued'[c][n] > 0 => queued[c][n] > 0 \/ n <= mishaps'
      BY <1>0, <1>4, <2>1, OcrAssumption
    <2> QED
      BY <1>1, <2>1, <2>2
  <1>7. ASSUME NEW d \in Docs, Scan(d) PROVE DeliveriesCounted'
    <2>1. UNCHANGED <<exec, mishaps>> /\ (Send({d}) \/ UNCHANGED queued)
      BY <1>7 DEF Scan, ScanClean, ScanInfected, ScanFails, ScanAgain
    <2> QED
      BY <1>1, <1>4, <2>1
  <1>8. ASSUME NEW S \in SUBSET Docs, Sweep(S) PROVE DeliveriesCounted'
    <2>1. UNCHANGED <<exec, mishaps>> /\ Send(S \ {d \in S : row[d].attempts >= MaxAttempts})
      BY <1>8 DEF Sweep
    <2> QED
      BY <1>1, <1>4, <2>1
  <1>9. ASSUME UNCHANGED <<queued, exec, mishaps>> PROVE DeliveriesCounted'
    BY <1>1, <1>9
  <1> QED
    BY <1>2, <1>3, <1>5, <1>6, <1>7, <1>8, <1>9
    DEF Next, DeliverSome, vars, LeaseExpires, RequestReprocess, Stop, Activate, Start

LEMMA PromisedNext ==
  IInv /\ DeliveriesCounted /\ PendingPromised /\ [Next]_vars => PendingPromised'
  <1> SUFFICES ASSUME IInv, DeliveriesCounted, PendingPromised, [Next]_vars,
                      MaxMishaps <= RetryLimit, NEW c \in Docs, row'[c].status = "PENDING"
               PROVE  Waits(c)' \/ OnItsWay(c)'
    BY DEF PendingPromised
  <1>0. TypeOK /\ ScopeAgrees
    BY DEF IInv
  \* Who waited is still waited for, unless its handler left, and no other starts to wait.
  <1>1. ASSUME JobsKept, row[c].status = "PENDING",
               \A e \in Executions :
                 exec[e].pc = "claiming" /\ exec[e].doc = c => exec'[e] = exec[e]
        PROVE  Waits(c)' \/ OnItsWay(c)'
    BY <1>1 DEF PendingPromised, Waits, OnItsWay, JobsKept
  <1>2. ASSUME NEW e \in Executions, NEW d \in Docs, NEW n \in 0..RetryLimit, Deliver(e, d, n)
        PROVE  Waits(c)' \/ OnItsWay(c)'
    <2>1. /\ exec[e].pc = "idle"
          /\ exec'[e].pc = "claiming" /\ exec'[e].doc = d /\ exec'[e].deliveries = n + 1
          /\ \A f \in Executions \ {e} : exec'[f] = exec[f]
          /\ UNCHANGED row
      BY <1>0, <1>2 DEF Deliver, TypeOK
    <2>2. CASE c = d
      <3>1. exec'[e].deliveries > 0
        BY <2>1, OcrAssumption
      <3> QED
        BY <2>1, <2>2, <3>1 DEF OnItsWay
    <2>3. CASE c # d
      <3>1. queued'[c] = queued[c]
        BY <1>0, <1>2, <2>3 DEF Deliver, TypeOK
      <3>2. Waits(c) \/ OnItsWay(c)
        BY <2>1 DEF PendingPromised
      <3>3. OnItsWay(c) => OnItsWay(c)'
        BY <2>1 DEF OnItsWay
      <3> QED
        BY <3>1, <3>2, <3>3 DEF Waits
    <2> QED
      BY <2>2, <2>3
  <1>3. ASSUME NEW e \in Executions, Die(e) \/ JobExpires(e) PROVE Waits(c)' \/ OnItsWay(c)'
    <2> DEFINE k == exec[e].deliveries
    <2>0. PICK d \in Docs : d = exec[e].doc
      BY <1>0, <1>3 DEF Die, JobExpires, TypeOK
    <2>1. k \in Nat /\ Retry(d, k) /\ mishaps < MaxMishaps /\ UNCHANGED row
      BY <1>0, <1>3, <2>0 DEF Die, JobExpires, TypeOK, Exec
    <2> HIDE DEF k
    <2>2. JobsKept /\ (k \in 1..RetryLimit => Waits(d)')
      <3>1. PICK m \in Nat : m = k
        BY <2>1
      <3> QED
        BY <1>0, <2>1, <3>1, JobsRetried
    <2>3. CASE exec[e].doc = c /\ k > 0
      <3>1. k \in 1..RetryLimit
        BY <1>0, <2>1, <2>3, OcrAssumption DEF DeliveriesCounted, TypeOK, k
      <3> QED
        BY <2>0, <2>2, <2>3, <3>1
    <2>4. CASE ~(exec[e].doc = c /\ k > 0)
      <3>1. \A f \in Executions \ {e} : exec'[f] = exec[f]
        BY <1>0, <1>3 DEF Die, JobExpires, TypeOK
      <3>2. Waits(c) \/ OnItsWay(c)
        BY <2>1 DEF PendingPromised
      <3>3. OnItsWay(c) => OnItsWay(c)'
        BY <2>4, <3>1 DEF OnItsWay, k
      <3>4. Waits(c) => Waits(c)'
        BY <2>2 DEF Waits, JobsKept
      <3> QED
        BY <3>2, <3>3, <3>4
    <2> QED
      BY <2>3, <2>4
  <1>4. ASSUME NEW e \in Executions, Claim(e) PROVE Waits(c)' \/ OnItsWay(c)'
    <2>1. row[c].status = "PENDING" /\ (exec[e].doc = c => ~Claimable(c))
      <3>1. CASE UNCHANGED row
        BY <1>0, <1>4, <3>1 DEF Claim, Claimable, TypeOK
      <3>2. CASE exec[e].doc # c
        BY <1>0, <1>4, <3>2, ClaimWrites
      <3>3. CASE ~UNCHANGED row /\ exec[e].doc = c
        BY <1>0, <1>4, <3>3, ClaimWrites
      <3> QED
        BY <3>1, <3>2, <3>3
    <2>2. exec[e].doc # c
      BY <2>1 DEF Claimable, ScopeAgrees, IInv
    <2>3. \A f \in Executions \ {e} : exec'[f] = exec[f]
      BY <1>0, <1>4 DEF Claim, Goto, TypeOK
    <2>4. JobsKept
      BY <1>4 DEF Claim, JobsKept
    <2> QED
      BY <1>1, <2>1, <2>2, <2>3, <2>4
  <1>5. ASSUME NEW e \in Executions, Read(e) \/ Recognize(e) \/ Return(e)
        PROVE  Waits(c)' \/ OnItsWay(c)'
    <2>1. exec[e].pc # "claiming" /\ \A f \in Executions \ {e} : exec'[f] = exec[f]
      BY <1>0, <1>5 DEF Read, Recognize, Return, Goto, TypeOK
    <2>2. UNCHANGED <<row, queued>>
      BY <1>5 DEF Read, Recognize, Return
    <2> QED
      BY <1>1, <2>1, <2>2 DEF JobsKept
  <1>6. ASSUME NEW e \in Executions, Record(e) PROVE Waits(c)' \/ OnItsWay(c)'
    <2>1. exec[e].pc # "claiming" /\ \A f \in Executions \ {e} : exec'[f] = exec[f]
      BY <1>0, <1>6 DEF Record, MarkCompleted, MarkFailed, ReleaseForRetry, MarkExcluded, Goto, TypeOK
    <2>2. CASE UNCHANGED queued
      <3>1. row[c].status = "PENDING"
        <4> DEFINE d == exec[e].doc
        <4>1. d \in Docs
          BY <1>0, <1>6
          DEF TypeOK, Record, MarkCompleted, MarkFailed, ReleaseForRetry, MarkExcluded
        <4>2. \/ UNCHANGED row
              \/ \E s \in {"COMPLETED", "FAILED", "EXCLUDED"} : SetStatus(d, s)
          <5>1. ~Send({d})
            BY <1>0, <2>2, <4>1, OcrAssumption DEF Send, TypeOK
          <5> QED
            BY <1>6, <5>1
            DEF Record, MarkCompleted, MarkFailed, ReleaseForRetry, MarkExcluded, Lost
        <4> QED
          BY <1>0, <4>1, <4>2, SetStatusTyped DEF OcrStatuses
      <3> QED
        BY <1>1, <2>1, <2>2, <3>1 DEF JobsKept
    <2>3. CASE ReleaseForRetry(e) /\ Send({exec[e].doc}) /\ SetStatus(exec[e].doc, "PENDING")
      <3>1. exec[e].doc \in Docs
        BY <1>0, <2>3 DEF TypeOK, ReleaseForRetry
      <3>2. exec[e].doc # c => row[c].status = "PENDING"
        BY <1>0, <2>3, <3>1, SetStatusTyped DEF OcrStatuses
      <3> QED
        BY <1>0, <1>1, <2>1, <2>3, <3>1, <3>2, JobsSent
    <2> QED
      BY <1>6, <2>2, <2>3
      DEF Record, MarkCompleted, MarkFailed, ReleaseForRetry, MarkExcluded, Lost
  \* The steps that are no handler's: who starts to wait is sent a job.
  <1>7. ASSUME NEW S, Send(S), UNCHANGED exec, c \notin S => row[c].status = "PENDING"
        PROVE  Waits(c)' \/ OnItsWay(c)'
    BY <1>0, <1>1, <1>7, JobsSent
  <1>8. ASSUME UNCHANGED <<queued, exec>>, row[c].status = "PENDING"
        PROVE  Waits(c)' \/ OnItsWay(c)'
    BY <1>1, <1>8 DEF JobsKept
  <1>9. ASSUME NEW d \in Docs, ReprocessOcr(d) PROVE Waits(c)' \/ OnItsWay(c)'
    BY <1>0, <1>7, <1>8, <1>9 DEF ReprocessOcr, TypeOK
  <1>10. ASSUME NEW d \in Docs, Scan(d) PROVE Waits(c)' \/ OnItsWay(c)'
    <2>1. CASE ScanClean(d)
      BY <1>0, <1>7, <1>8, <2>1 DEF ScanClean, SetStatus, TypeOK, Row
    <2>2. CASE ~ScanClean(d)
      <3>1. UNCHANGED <<queued, exec>> /\ row[c].status = "PENDING"
        BY <1>0, <1>10, <2>2
        DEF Scan, ScanInfected, ScanFails, ScanAgain, SetStatus, TypeOK, Row
      <3> QED
        BY <1>8, <3>1
    <2> QED
      BY <2>1, <2>2
  <1>11. ASSUME NEW S \in SUBSET Docs, Sweep(S) PROVE Waits(c)' \/ OnItsWay(c)'
    <2> DEFINE T == S \ {d \in S : row[d].attempts >= MaxAttempts}
    <2>1. Send(T) /\ UNCHANGED exec
      BY <1>11 DEF Sweep
    <2>2. c \notin T => row[c].status = "PENDING"
      BY <1>0, <1>11 DEF Sweep, TypeOK
    <2> HIDE DEF T
    <2> QED
      BY <1>7, <2>1, <2>2
  <1>12. ASSUME Activate PROVE Waits(c)' \/ OnItsWay(c)'
    BY <1>8, <1>12 DEF Activate
  <1>13. ASSUME UNCHANGED <<row, queued, exec>> PROVE Waits(c)' \/ OnItsWay(c)'
    BY <1>8, <1>13
  <1> QED
    BY <1>2, <1>3, <1>4, <1>5, <1>6, <1>9, <1>10, <1>11, <1>12, <1>13
    DEF Next, DeliverSome, Handle, Record, vars, LeaseExpires, RequestReprocess, Stop, Start

\* A row put back to PENDING by releaseForRetry(), sweepAbandonedOcr(), reprocessOcr() or a clean
\* result of the treatment has a job that will bring it, through deliveries that die and jobs that
\* expire, as long as there are no more of them than retryLimit.
THEOREM PendingOcrCorrect == Spec => []PendingHasJob
  <1>1. Init => DeliveriesCounted /\ PendingPromised
    BY OcrAssumption DEF Init, DeliveriesCounted, PendingPromised, IdleExec
  <1>2. IInv /\ DeliveriesCounted /\ PendingPromised /\ [Next]_vars
          => (DeliveriesCounted /\ PendingPromised)'
    BY CountedNext, PromisedNext DEF IInv
  <1>3. PendingPromised => PendingHasJob
    BY DEF PendingPromised, PendingHasJob, Waits, OnItsWay
  <1> QED
    BY <1>1, <1>2, <1>3, Invariance, PTL DEF Spec
=============================================================================
