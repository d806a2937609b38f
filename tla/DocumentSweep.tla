--------------------------- MODULE DocumentSweep ---------------------------
(***************************************************************************)
(* The recovery sweep of DocumentScan statement by statement, with several *)
(* workers that sweep at once (sweepUntreatedDocuments() and               *)
(* startPeriodicSweep(), queue.ts).  Its transaction has an UPDATE that    *)
(* fails rows, an UPDATE that puts rows back, and a send for each of       *)
(* these.  At READ COMMITTED each UPDATE has a snapshot of its own, which  *)
(* sees what was committed after the one before it.                        *)
(*                                                                         *)
(* FOR UPDATE SKIP LOCKED: an UPDATE goes through the rows that its        *)
(* snapshot shows, passes over a locked one, checks the condition again on *)
(* one that is not, and locks it.  Nobody else changes a locked row until  *)
(* the transaction ends, and nobody sees what it did until it commits.     *)
(***************************************************************************)
EXTENDS DocumentScan

CONSTANT Workers  \* the worker processes: each runs one sweep at a time

VARIABLE sweep    \* the transaction of each

sweepVars == <<vars, sweep>>

\* todo: the rows the statement in course has still to look at, or the sends still to make.
Transaction == [pc: {"idle", "failing", "requeueing", "sending"},
                todo: SUBSET Docs, failed: SUBSET Docs, requeued: SUBSET Docs]
NoTransaction == [pc |-> "idle", todo |-> {}, failed |-> {}, requeued |-> {}]

SweepInit == Init /\ sweep = [s \in Workers |-> NoTransaction]

\* Mutant of Locked: the rows are read without FOR UPDATE.
LockedByNobody(s) == {}

\* The rows the transaction of s has locked.
Locked(s) == sweep[s].failed \cup sweep[s].requeued

AllLocked == UNION {Locked(s) : s \in Workers}

-----------------------------------------------------------------------------
\* The UPDATE to SCAN_FAILED begins.
Begin(s) ==
  /\ sweep[s].pc = "idle"
  /\ sweep' = [sweep EXCEPT ![s] = [NoTransaction EXCEPT !.pc = "failing",
                                                         !.todo = {d \in Docs : Exhausted(d)}]]
  /\ UNCHANGED vars

\* It comes to a row of its snapshot.
FailRow(s, d) ==
  /\ sweep[s].pc = "failing"
  /\ d \in sweep[s].todo
  /\ sweep' = [sweep EXCEPT
       ![s].todo = @ \ {d},
       ![s].failed = IF d \notin AllLocked /\ Exhausted(d) THEN @ \cup {d} ELSE @]
  /\ UNCHANGED vars

\* Mutant of BeginRequeueing: nothing failed, nothing to recover.
BeginRequeueingAfterFailures(s) ==
  /\ sweep[s].pc = "failing"
  /\ sweep[s].todo = {}
  /\ sweep' = [sweep EXCEPT ![s] = IF sweep[s].failed = {} THEN NoTransaction ELSE [@ EXCEPT
                 !.pc = "requeueing", !.todo = {d \in Docs : Requeueable(d)}]]
  /\ UNCHANGED vars

\* The UPDATE to PENDING_SCAN begins.
BeginRequeueing(s) ==
  /\ sweep[s].pc = "failing"
  /\ sweep[s].todo = {}
  /\ sweep' = [sweep EXCEPT ![s].pc = "requeueing", ![s].todo = {d \in Docs : Requeueable(d)}]
  /\ UNCHANGED vars

RequeueRow(s, d) ==
  /\ sweep[s].pc = "requeueing"
  /\ d \in sweep[s].todo
  /\ sweep' = [sweep EXCEPT
       ![s].todo = @ \ {d},
       ![s].requeued = IF d \notin AllLocked /\ Requeueable(d) THEN @ \cup {d} ELSE @]
  /\ UNCHANGED vars

BeginSending(s) ==
  /\ sweep[s].pc = "requeueing"
  /\ sweep[s].todo = {}
  /\ sweep' = [sweep EXCEPT ![s].pc = "sending", ![s].todo = sweep[s].requeued]
  /\ UNCHANGED vars

\* Mutant of Send: outside the transaction.
SendAtOnce(s, d) ==
  /\ sweep[s].pc = "sending"
  /\ d \in sweep[s].todo
  /\ sweep' = [sweep EXCEPT ![s].todo = @ \ {d}]
  /\ \E k \in Jobs : job[d][k].state = "idle" /\ job' = [job EXCEPT ![d][k] = NewJob]
  /\ UNCHANGED <<doc, lapsed, request, exec, copy, audit>>

\* boss.send() in the transaction: the job is there for others when it commits.
Send(s, d) ==
  /\ sweep[s].pc = "sending"
  /\ d \in sweep[s].todo
  /\ sweep' = [sweep EXCEPT ![s].todo = @ \ {d}]
  /\ UNCHANGED vars

Commit(s) ==
  /\ sweep[s].pc = "sending"
  /\ sweep[s].todo = {}
  /\ Recover(sweep[s].failed, sweep[s].requeued)
  /\ sweep' = [sweep EXCEPT ![s] = NoTransaction]

\* A statement or a send fails, or the worker dies.  If no row was changed yet, the sweep is as good
\* as committed.
Rollback(s) ==
  /\ "rollback" \in Faults
  /\ Locked(s) # {}
  /\ sweep' = [sweep EXCEPT ![s] = NoTransaction]
  /\ UNCHANGED vars

\* Every other UPDATE that would change a locked row waits: its step is taken once the row is free.
Others ==
  /\ Elsewhere
  /\ \A d \in AllLocked : doc'[d] = doc[d]
  /\ UNCHANGED sweep

-----------------------------------------------------------------------------
Statement(s) ==
  \/ Begin(s)
  \/ \E d \in Docs : FailRow(s, d) \/ RequeueRow(s, d) \/ Send(s, d)
  \/ BeginRequeueing(s)
  \/ BeginSending(s)
  \/ Commit(s)

SweepNext == Others \/ \E s \in Workers : Statement(s) \/ Rollback(s)

SweepSpec == SweepInit /\ [][SweepNext]_sweepVars

(***************************************************************************)
(* A worker sweeps when it starts and then periodically, and from some     *)
(* time on its sweeps do not fail.  An UPDATE that waits for a row gets it *)
(* when the sweep that locked it ends, before a later one locks it again.  *)
(***************************************************************************)
FairSweepSpec ==
  /\ SweepSpec
  /\ FairnessElsewhere
  /\ \A s \in Workers : WF_sweepVars(Statement(s)) /\ <>[][~Rollback(s)]_sweepVars

-----------------------------------------------------------------------------
SweepTypeOK == TypeOK /\ sweep \in [Workers -> Transaction]

(***************************************************************************)
(* However many workers sweep at once, and whatever handlers, leases and   *)
(* reprocessings do between two statements of a sweep, each sweep that     *)
(* commits is one step of DocumentScan: every row it fails or puts back    *)
(* still needs it, has one sweep, and gets its audit row or its job; one   *)
(* that does not commit leaves no job and no row behind (the comment at    *)
(* queue.ts:67-78).                                                        *)
(***************************************************************************)
SweepsAreAtomic == Spec

=============================================================================
