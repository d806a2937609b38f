-------------------------- MODULE EmailOutboxProofs --------------------------
(***************************************************************************)
(* Type correctness, that emails are not sent twice, and that a user who   *)
(* was sent links keeps one that works, for every value of the constants.  *)
(***************************************************************************)
EXTENDS EmailOutbox, TLAPS

PCs == {"idle", "selecting"} \cup Handling

(***************************************************************************)
(* Types                                                                   *)
(***************************************************************************)
RunOK(r) == r \in Run /\ (r.pc \in Handling => r.entry \in Entries)

LEMMA IdleRunOK == RunOK(IdleRun)
BY OutboxAssumption DEF RunOK, IdleRun, Run, Handling

LEMMA NextRunOK ==
  ASSUME TypeOK, NEW d \in Dispatchers, NEW handled \in Nat, NextOf(d, handled)
  PROVE  \A c \in Dispatchers : RunOK(run'[c])
<1>1. RunOK([IdleRun EXCEPT !.pc = "selecting", !.handled = handled, !.attempted = run[d].attempted])
  <2>1. run[d].attempted \in SUBSET Entries
    BY DEF TypeOK, Run
  <2> QED
    BY <2>1 DEF RunOK, IdleRun, Run, Handling
<1> QED
  BY <1>1, IdleRunOK DEF NextOf, TypeOK, RunOK

\* A run that goes on to another statement of its transaction.
LEMMA GotoRunOK ==
  ASSUME TypeOK, NEW d \in Dispatchers, NEW pc \in PCs,
         pc \in Handling => run[d].entry \in Entries, Goto(d, pc)
  PROVE  \A c \in Dispatchers : RunOK(run'[c])
<1>1. RunOK([run[d] EXCEPT !.pc = pc])
  <2>1. run[d] \in Run
    BY DEF TypeOK
  <2> QED
    BY <2>1 DEF RunOK, Run, PCs
<1> QED
  BY <1>1 DEF Goto, TypeOK, RunOK

LEMMA RunTypes ==
  ASSUME TypeOK, [Next]_vars
  PROVE  run' \in [Dispatchers -> Run] /\ \A d \in Dispatchers : RunOK(run'[d])
<1> DEFINE Goal == \A c \in Dispatchers : RunOK(run'[c])
<1>1. \A d \in Dispatchers : RunOK(run[d]) /\ run[d].handled + 1 \in Nat
  BY DEF TypeOK, RunOK, Run
<1>2. CASE UNCHANGED run
  BY <1>1, <1>2 DEF TypeOK, RunOK
<1>3. ASSUME NEW d \in Dispatchers, Start(d) PROVE Goal
  BY <1>3, GotoRunOK DEF Start, PCs, Handling
<1>4. ASSUME NEW d \in Dispatchers, Select(d) PROVE Goal
  <2>1. ASSUME NEW e \in Entries,
               run' = [run EXCEPT ![d] = [run[d] EXCEPT !.pc = "composing", !.entry = e,
                                                        !.attempted = Attempted(d, e)]]
        PROVE  Goal
    <3>1. Attempted(d, e) \in SUBSET Entries
      BY DEF Attempted, TypeOK, Run
    <3>2. run[d] \in Run
      BY DEF TypeOK
    <3>3. RunOK([run[d] EXCEPT !.pc = "composing", !.entry = e, !.attempted = Attempted(d, e)])
      BY <3>1, <3>2 DEF RunOK, Run, Handling
    <3> QED
      BY <1>1, <2>1, <3>3 DEF TypeOK
  <2> QED
    BY <1>1, <1>4, <2>1, IdleRunOK DEF Select, Selectable, TypeOK
<1>5. ASSUME NEW d \in Dispatchers, Compose(d) PROVE Goal
  <2> DEFINE e == run[d].entry
             earlier == IF entry[e].kind \in LinkKinds THEN Of(e, live) ELSE {}
             pc == IF entry[e].kind \in LinkKinds THEN "replacing" ELSE "delivering"
  <2>1. ASSUME run' = [run EXCEPT ![d] = [run[d] EXCEPT !.pc = pc, !.earlier = earlier]]
        PROVE  Goal
    <3>1. earlier \in SUBSET Token /\ pc \in Handling /\ e \in Entries /\ run[d] \in Run
      BY <1>5 DEF Compose, Of, TypeOK, Handling
    <3> HIDE DEF earlier, pc
    <3>2. RunOK([run[d] EXCEPT !.pc = pc, !.earlier = earlier])
      BY <3>1 DEF RunOK, Run
    <3> QED
      BY <1>1, <2>1, <3>2 DEF TypeOK
  <2> QED
    BY <1>1, <1>5, <2>1, NextRunOK DEF Compose
<1>6. ASSUME NEW d \in Dispatchers, Replace(d) PROVE Goal
  <2>1. run[d] \in Run /\ run[d].entry \in Entries /\ run[d].earlier \cap live \in SUBSET Token
    BY <1>6 DEF Replace, TypeOK, Handling
  <2>2. RunOK([run[d] EXCEPT !.pc = "delivering", !.earlier = run[d].earlier \cap live])
    BY <2>1 DEF RunOK, Run, Handling
  <2> QED
    BY <1>1, <1>6, <2>2 DEF Replace, TypeOK
<1>7. ASSUME NEW d \in Dispatchers, Deliver(d) PROVE Goal
  BY <1>7, GotoRunOK DEF Deliver, PCs, Handling, TypeOK
<1>8. ASSUME NEW d \in Dispatchers, Commit(d) PROVE Goal
  BY <1>1, <1>8, NextRunOK DEF Commit
<1>9. ASSUME NEW d \in Dispatchers, Mishap(d) PROVE Goal
  <2>1. CASE run' = [run EXCEPT ![d] = IdleRun]
    BY <1>1, <2>1, IdleRunOK DEF TypeOK
  <2> QED
    BY <1>1, <1>9, <2>1, NextRunOK DEF Mishap
<1>10. \A c \in Dispatchers : RunOK(run'[c])
  BY <1>2, <1>3, <1>4, <1>5, <1>6, <1>7, <1>8, <1>9
     DEF Next, vars, Dispatch, Enqueue, UseLink, VerifyEmail, ResetPassword
<1>11. run' = [c \in Dispatchers |-> run'[c]]
  BY DEF TypeOK, Next, vars, Dispatch, Enqueue, UseLink, VerifyEmail, ResetPassword, Start, Goto,
         Select, Compose, NextOf, Replace, Deliver, Commit, Mishap
<1> QED
  BY <1>10, <1>11 DEF RunOK

LEMMA PendingType ==
  ASSUME TypeOK, NEW e \in Entries, NEW u \in Users, NEW k \in Kinds, Pending(e, u, k)
  PROVE  entry' \in [Entries -> Entry]
BY DEF TypeOK, Pending, Entry

LEMMA TypeNext == ASSUME TypeOK, [Next]_vars PROVE TypeOK'
<1> DEFINE Rest == /\ entry' \in [Entries -> Entry]
                   /\ composed' \in [Entries -> Nat]
                   /\ delivered' \in [Entries -> Nat]
                   /\ live' \in SUBSET Token
                   /\ used' \in SUBSET Token
                   /\ mishaps' \in Nat
<1>1. ASSUME UNCHANGED <<entry, composed, delivered, live, used, mishaps>> PROVE Rest
  BY <1>1 DEF TypeOK
<1>2. ASSUME NEW e \in Entries, NEW u \in Users, NEW k \in Kinds, Enqueue(e, u, k) PROVE Rest
  BY <1>2, PendingType DEF Enqueue, TypeOK
<1>3. ASSUME NEW t \in live, VerifyEmail(t) PROVE Rest
  BY <1>3 DEF VerifyEmail, TypeOK
<1>4. ASSUME NEW t \in live, NEW e \in Entries, ResetPassword(t, e) PROVE Rest
  <2>1. t.entry \in Entries /\ t \in Token
    BY DEF TypeOK, Token
  <2>2. entry[t.entry].user \in Users \cup {None}
    BY <2>1 DEF TypeOK, Entry
  <2>3. entry' \in [Entries -> Entry]
    BY <1>4, <2>2 DEF ResetPassword, Pending, TypeOK, Entry, Kinds
  <2> QED
    BY <1>4, <2>1, <2>3 DEF ResetPassword, TypeOK
<1>5. ASSUME NEW d \in Dispatchers, Compose(d) PROVE Rest
  <2>1. run[d].entry \in Entries /\ composed[run[d].entry] + 1 \in Nat
    BY <1>5 DEF Compose, TypeOK, Handling
  <2> QED
    BY <1>5, <2>1 DEF Compose, Rollback, TypeOK
<1>6. ASSUME NEW d \in Dispatchers, Deliver(d) PROVE Rest
  <2>1. run[d].entry \in Entries /\ delivered[run[d].entry] + 1 \in Nat
    BY <1>6 DEF Deliver, TypeOK, Handling
  <2> QED
    BY <1>6, <2>1 DEF Deliver, TypeOK
<1>7. ASSUME NEW d \in Dispatchers, Commit(d) PROVE Rest
  <2>1. run[d].entry \in Entries
    BY <1>7 DEF Commit, TypeOK, Handling
  <2>2. [entry |-> run[d].entry, n |-> composed[run[d].entry]] \in Token
    BY <2>1 DEF TypeOK, Token
  <2>3. live' \in SUBSET Token
    BY <1>7, <2>2 DEF Commit, TypeOK
  <2>4. entry' \in [Entries -> Entry]
    BY <1>7, <2>1 DEF Commit, TypeOK, Entry
  <2> QED
    BY <1>7, <2>3, <2>4 DEF Commit, TypeOK
<1>8. ASSUME NEW d \in Dispatchers, Mishap(d) PROVE Rest
  BY <1>8 DEF Mishap, Rollback, TypeOK
<1>9. ASSUME NEW d \in Dispatchers, Start(d) \/ Select(d) \/ Replace(d) PROVE Rest
  BY <1>1, <1>9 DEF Start, Select, Replace
<1>10. Rest
  <2> HIDE DEF Rest
  <2>1. CASE UNCHANGED vars
    BY <1>1, <2>1 DEF vars
  <2>2. CASE UseLink
    BY <1>3, <1>4, <2>2 DEF UseLink
  <2>3. ASSUME NEW d \in Dispatchers, Dispatch(d) PROVE Rest
    BY <1>5, <1>6, <1>7, <1>9, <2>3 DEF Dispatch
  <2> QED
    BY <1>2, <1>8, <2>1, <2>2, <2>3 DEF Next
<1>11. /\ run' \in [Dispatchers -> Run]
       /\ \A d \in Dispatchers : run'[d].pc \in Handling => run'[d].entry \in Entries
  BY RunTypes DEF RunOK
<1> QED
  BY <1>10, <1>11 DEF TypeOK


-----------------------------------------------------------------------------
(***************************************************************************)
(* The inductive invariant: an entry that is handled is pending and its    *)
(* row is locked by one dispatcher; an entry that no one is committing was *)
(* delivered only by dispatches that failed; the tokens a dispatcher is    *)
(* replacing are of the user and the kind of its entry.                    *)
(***************************************************************************)
Handles(d, e) == run[d].pc \in Handling /\ run[d].entry = e

LocksHold ==
  /\ \A d \in Dispatchers : run[d].pc \in Handling => entry[run[d].entry].state = "pending"
  /\ \A c, d \in Dispatchers, e \in Entries : Handles(c, e) /\ Handles(d, e) => c = d

Committing(e) == \E d \in Dispatchers : run[d].pc = "committing" /\ run[d].entry = e

DeliveriesBounded ==
  \A e \in Entries :
    /\ delivered[e] <= 1 + mishaps
    /\ entry[e].state = "unused" => delivered[e] = 0
    /\ entry[e].state = "pending" /\ ~Committing(e) => delivered[e] <= mishaps

TokensOfEntries ==
  /\ \A t \in live \cup used : entry[t.entry].state # "unused"
  /\ \A d \in Dispatchers : \A t \in run[d].earlier :
       /\ run[d].pc \in Handling
       /\ SameScope(t.entry, run[d].entry)
       /\ entry[t.entry].state # "unused"

IInv == TypeOK /\ LocksHold /\ DeliveriesBounded /\ TokensOfEntries /\ LinkWorks

LEMMA InitIInv == Init => IInv
<1> SUFFICES ASSUME Init PROVE IInv
  OBVIOUS
<1>1. TypeOK
  BY IdleRunOK DEF Init, TypeOK, RunOK, Entry, Kinds, LinkKinds
<1>2. \A d \in Dispatchers : run[d].pc \notin Handling
  BY DEF Init, IdleRun, Handling
<1>3. LocksHold /\ TokensOfEntries
  BY <1>2 DEF LocksHold, Handles, TokensOfEntries, Init, IdleRun
<1>4. DeliveriesBounded /\ LinkWorks
  BY DEF Init, DeliveriesBounded, LinkWorks
<1> QED
  BY <1>1, <1>3, <1>4 DEF IInv

(***************************************************************************)
(* Steps                                                                   *)
(***************************************************************************)
\* An entry in use keeps its user and kind, and only Commit makes it anything but what it was.
LEMMA EntryNext ==
  ASSUME TypeOK, [Next]_vars, NEW e \in Entries
  PROVE  /\ entry[e].state # "unused" =>
              entry'[e].user = entry[e].user /\ entry'[e].kind = entry[e].kind
         /\ \/ entry'[e] = entry[e]
            \/ entry[e].state = "unused" /\ entry'[e].state = "pending"
            \/ /\ entry'[e].state = "sent"
               /\ \E d \in Dispatchers : Commit(d) /\ run[d].entry = e
<1> DEFINE Goal == /\ entry[e].state # "unused" =>
                        entry'[e].user = entry[e].user /\ entry'[e].kind = entry[e].kind
                   /\ \/ entry'[e] = entry[e]
                      \/ entry[e].state = "unused" /\ entry'[e].state = "pending"
                      \/ /\ entry'[e].state = "sent"
                         /\ \E d \in Dispatchers : Commit(d) /\ run[d].entry = e
<1>1. ASSUME UNCHANGED entry PROVE Goal
  BY <1>1
<1>2. ASSUME NEW f \in Entries, NEW u, NEW k, entry[f].state = "unused", Pending(f, u, k)
      PROVE  Goal
  BY <1>2 DEF Pending, TypeOK
<1>3. ASSUME NEW d \in Dispatchers, Commit(d) PROVE Goal
  BY <1>3 DEF Commit, TypeOK, Entry
<1> HIDE DEF Goal
<1>4. Goal
  BY <1>1, <1>2, <1>3
     DEF Next, vars, UseLink, VerifyEmail, ResetPassword, Enqueue, Dispatch, Start, Select, Compose,
         Rollback, Replace, Deliver, Mishap
<1> QED
  BY <1>4 DEF Goal

\* What a step does to the transaction of each dispatcher.
LEMMA RunNext ==
  ASSUME TypeOK, [Next]_vars, NEW c \in Dispatchers, run'[c].pc \in Handling
  PROVE  \/ run'[c] = run[c]
         \/ Select(c) /\ run'[c].pc = "composing" /\ run'[c].earlier = run[c].earlier
            /\ run'[c].entry \in Selectable(c)
         \/ /\ run[c].pc \in Handling /\ run'[c].entry = run[c].entry
            /\ \/ Compose(c) /\ run'[c].pc # "committing"
                  /\ run'[c].earlier \in {{}, Of(run[c].entry, live)}
               \/ Replace(c) /\ run'[c].pc = "delivering"
                  /\ run'[c].earlier = run[c].earlier \cap live
               \/ Deliver(c) /\ run'[c].pc = "committing" /\ run'[c].earlier = run[c].earlier
<1> DEFINE Goal ==
         \/ run'[c] = run[c]
         \/ Select(c) /\ run'[c].pc = "composing" /\ run'[c].earlier = run[c].earlier
            /\ run'[c].entry \in Selectable(c)
         \/ /\ run[c].pc \in Handling /\ run'[c].entry = run[c].entry
            /\ \/ Compose(c) /\ run'[c].pc # "committing"
                  /\ run'[c].earlier \in {{}, Of(run[c].entry, live)}
               \/ Replace(c) /\ run'[c].pc = "delivering"
                  /\ run'[c].earlier = run[c].earlier \cap live
               \/ Deliver(c) /\ run'[c].pc = "committing" /\ run'[c].earlier = run[c].earlier
<1>a. run[c] \in Run /\ DOMAIN run = Dispatchers
  BY DEF TypeOK
<1>1. ASSUME NEW d \in Dispatchers, d # c, Dispatch(d) \/ Mishap(d) PROVE run'[c] = run[c]
  BY <1>1 DEF TypeOK, Dispatch, Start, Goto, Select, Compose, NextOf, Replace, Deliver, Commit, Mishap
<1>2. ASSUME NEW h, NextOf(c, h) PROVE FALSE
  BY <1>2, <1>a DEF NextOf, IdleRun, Handling
<1>3. ASSUME run' = [run EXCEPT ![c] = IdleRun] PROVE FALSE
  BY <1>3, <1>a DEF IdleRun, Handling
<1>4. CASE Start(c)
  BY <1>4, <1>a DEF Start, Goto, Handling
<1>5. CASE Select(c)
  <2>1. PICK e \in Selectable(c) :
          run' = [run EXCEPT ![c] = [run[c] EXCEPT !.pc = "composing", !.entry = e,
                                                   !.attempted = Attempted(c, e)]]
    BY <1>3, <1>5 DEF Select
  <2>2. run'[c] = [run[c] EXCEPT !.pc = "composing", !.entry = e, !.attempted = Attempted(c, e)]
    BY <1>a, <2>1
  <2>3. run'[c].pc = "composing" /\ run'[c].entry = e /\ run'[c].earlier = run[c].earlier
    BY <1>a, <2>2 DEF Run
  <2> QED
    BY <1>5, <2>3
<1>6. CASE Compose(c)
  <2>1. run[c].pc \in Handling
    BY <1>6 DEF Compose, Handling
  <2> DEFINE e == run[c].entry
             link == entry[e].kind \in LinkKinds
             pc == IF link THEN "replacing" ELSE "delivering"
             earlier == IF link THEN Of(e, live) ELSE {}
  <2>2. run' = [run EXCEPT ![c] = [run[c] EXCEPT !.pc = pc, !.earlier = earlier]]
    BY <1>2, <1>6 DEF Compose
  <2>3. pc # "committing" /\ earlier \in {{}, Of(run[c].entry, live)}
    OBVIOUS
  <2> HIDE DEF pc, earlier
  <2>4. run'[c] = [run[c] EXCEPT !.pc = pc, !.earlier = earlier]
    BY <1>a, <2>2
  <2>5. run'[c].pc = pc /\ run'[c].earlier = earlier /\ run'[c].entry = run[c].entry
    BY <1>a, <2>4 DEF Run
  <2> QED
    BY <1>6, <2>1, <2>3, <2>5
<1>7. CASE Replace(c)
  BY <1>7, <1>a DEF Replace, Run, Handling
<1>8. CASE Deliver(c)
  BY <1>8, <1>a DEF Deliver, Goto, Run, Handling
<1>9. ASSUME Commit(c) \/ Mishap(c) PROVE FALSE
  BY <1>9, <1>2, <1>3 DEF Commit, Mishap
<1>10. CASE UNCHANGED run
  BY <1>10
<1> QED
  BY <1>1, <1>4, <1>5, <1>6, <1>7, <1>8, <1>9, <1>10
     DEF Next, vars, UseLink, VerifyEmail, ResetPassword, Enqueue, Dispatch

LEMMA LocksNext == ASSUME TypeOK, LocksHold, [Next]_vars PROVE LocksHold'
<1>1. ASSUME NEW c \in Dispatchers, run'[c].pc \in Handling
      PROVE  /\ run'[c].entry \in Entries
             /\ entry[run'[c].entry].state = "pending"
             /\ \/ Handles(c, run'[c].entry)
                \/ Select(c) /\ Free(run'[c].entry)
  BY <1>1, RunNext DEF Handles, LocksHold, Selectable, TypeOK
<1>2. ASSUME NEW c \in Dispatchers, run'[c].pc \in Handling
      PROVE  entry'[run'[c].entry].state = "pending"
  <2> DEFINE e == run'[c].entry
  <2>1. e \in Entries /\ entry[e].state = "pending"
    BY <1>1, <1>2
  <2>2. ASSUME NEW d \in Dispatchers, Commit(d), run[d].entry = e PROVE FALSE
    <3>1. Handles(d, e)
      BY <2>2 DEF Commit, Handles, Handling
    <3>2. ~Free(e)
      BY <3>1 DEF Free, Handles
    <3>3. Handles(c, e) \/ (Select(c) /\ Free(e))
      BY <1>1, <1>2
    <3>4. c = d
      BY <2>1, <3>1, <3>2, <3>3 DEF LocksHold
    <3>5. ~(run'[d].pc \in Handling)
      BY <2>2 DEF Commit, NextOf, IdleRun, TypeOK, Handling
    <3> QED
      BY <1>2, <3>4, <3>5
  <2> QED
    BY <2>1, <2>2, EntryNext
<1>3. ASSUME NEW c \in Dispatchers, NEW d \in Dispatchers, NEW e \in Entries,
             Handles(c, e)', Handles(d, e)'
      PROVE  c = d
  <2>1. run'[c].pc \in Handling /\ run'[c].entry = e /\ run'[d].pc \in Handling /\ run'[d].entry = e
    BY <1>3 DEF Handles
  <2>2. CASE Handles(c, e) /\ Handles(d, e)
    BY <2>2 DEF LocksHold
  <2>3. CASE Select(c) /\ Free(e)
    <3>1. ~Handles(d, e)
      BY <2>3 DEF Free, Handles
    <3>2. Select(d)
      BY <1>1, <2>1, <3>1
    <3> QED
      BY <2>1, <2>3, <3>1, <3>2 DEF Select, TypeOK, Handles
  <2>4. CASE Select(d) /\ Free(e)
    <3>1. ~Handles(c, e)
      BY <2>4 DEF Free, Handles
    <3>2. Select(c)
      BY <1>1, <2>1, <3>1
    <3> QED
      BY <2>1, <2>4, <3>1, <3>2 DEF Select, TypeOK, Handles
  <2> QED
    BY <1>1, <2>1, <2>2, <2>3, <2>4
<1> QED
  BY <1>2, <1>3 DEF LocksHold

\* A dispatcher that has delivered commits, or fails.
LEMMA CommittingNext ==
  ASSUME TypeOK, [Next]_vars, NEW d \in Dispatchers, run[d].pc = "committing"
  PROVE  run'[d] = run[d] \/ Commit(d) \/ Mishap(d)
<1>1. ASSUME NEW c \in Dispatchers, c # d, Dispatch(c) \/ Mishap(c) PROVE run'[d] = run[d]
  BY <1>1 DEF TypeOK, Dispatch, Start, Goto, Select, Compose, NextOf, Replace, Deliver, Commit, Mishap
<1>2. ASSUME Dispatch(d) PROVE Commit(d)
  BY <1>2 DEF Dispatch, Start, Select, Compose, Replace, Deliver
<1> QED
  BY <1>1, <1>2 DEF Next, vars, UseLink, VerifyEmail, ResetPassword, Enqueue

LEMMA DeliveriesNext ==
  ASSUME TypeOK, LocksHold, DeliveriesBounded, [Next]_vars PROVE DeliveriesBounded'
<1> SUFFICES ASSUME NEW e \in Entries
             PROVE  /\ delivered'[e] <= 1 + mishaps'
                    /\ entry'[e].state = "unused" => delivered'[e] = 0
                    /\ entry'[e].state = "pending" /\ ~Committing(e)' => delivered'[e] <= mishaps'
  BY DEF DeliveriesBounded
<1>1. /\ delivered[e] \in Nat /\ mishaps \in Nat
      /\ delivered[e] <= 1 + mishaps
      /\ entry[e].state = "unused" => delivered[e] = 0
      /\ entry[e].state = "pending" /\ ~Committing(e) => delivered[e] <= mishaps
  BY DEF DeliveriesBounded, TypeOK
<1>2. mishaps' \in {mishaps, mishaps + 1}
  BY DEF Next, vars, UseLink, VerifyEmail, ResetPassword, Enqueue, Dispatch, Start, Select, Compose,
         Replace, Deliver, Commit, Mishap
<1>3. CASE \E d \in Dispatchers : Deliver(d) /\ run[d].entry = e
  <2>1. PICK d \in Dispatchers : Deliver(d) /\ run[d].entry = e
    BY <1>3
  <2>2. Handles(d, e) /\ run[d].pc = "delivering" /\ entry[e].state = "pending"
    BY <2>1 DEF Deliver, Handles, Handling, LocksHold
  <2>3. ~Committing(e)
    <3> SUFFICES ASSUME NEW c \in Dispatchers, run[c].pc = "committing", run[c].entry = e
                 PROVE  FALSE
      BY DEF Committing
    <3>1. Handles(c, e)
      BY DEF Handles, Handling
    <3> QED
      BY <2>2, <3>1 DEF LocksHold
  <2>4. delivered'[e] = delivered[e] + 1 /\ entry' = entry
    BY <2>1 DEF Deliver, TypeOK
  <2>5. Committing(e)'
    BY <2>1 DEF Deliver, Goto, Committing, TypeOK, Run
  <2> QED
    BY <1>1, <1>2, <2>2, <2>3, <2>4, <2>5
<1>4. CASE ~(\E d \in Dispatchers : Deliver(d) /\ run[d].entry = e)
  <2>1. delivered'[e] = delivered[e]
    BY <1>4 DEF Next, vars, UseLink, VerifyEmail, ResetPassword, Enqueue, Dispatch, Start, Select,
                Compose, Rollback, Replace, Deliver, Commit, Mishap, TypeOK
  <2>2. entry'[e].state = "unused" => entry[e].state = "unused"
    BY EntryNext
  <2>3. ASSUME entry'[e].state = "pending", ~Committing(e)' PROVE delivered[e] <= mishaps'
    <3>1. entry[e].state \in {"unused", "pending"}
      BY <2>3, EntryNext
    <3>2. CASE entry[e].state = "unused" \/ ~Committing(e)
      BY <1>1, <1>2, <3>1, <3>2
    <3>3. CASE Committing(e)
      <4>1. PICK d \in Dispatchers : run[d].pc = "committing" /\ run[d].entry = e
        BY <3>3 DEF Committing
      <4>2. run'[d] # run[d]
        BY <2>3, <4>1 DEF Committing
      <4>3. ~Commit(d)
        BY <2>3, <4>1 DEF Commit, TypeOK, Entry
      <4>4. mishaps' = mishaps + 1
        BY <4>1, <4>2, <4>3, CommittingNext DEF Mishap
      <4> QED
        BY <1>1, <4>4
    <3> QED
      BY <3>1, <3>2, <3>3
  <2> QED
    BY <1>1, <1>2, <2>1, <2>2, <2>3
<1> QED
  BY <1>3, <1>4

\* Entries in use stay in use, and tokens of one scope stay of one scope.
LEMMA ScopeNext ==
  ASSUME TypeOK, [Next]_vars,
         NEW e \in Entries, entry[e].state # "unused",
         NEW f \in Entries, entry[f].state # "unused"
  PROVE  entry'[e].state # "unused" /\ (SameScope(e, f) <=> SameScope(e, f)')
<1>1. /\ entry'[e].user = entry[e].user /\ entry'[e].kind = entry[e].kind
      /\ entry'[f].user = entry[f].user /\ entry'[f].kind = entry[f].kind
      /\ entry'[e].state # "unused"
  BY EntryNext
<1> QED
  BY <1>1 DEF SameScope

\* A transaction that is over remembers no tokens.
LEMMA RunEnds ==
  ASSUME TypeOK, [Next]_vars, NEW c \in Dispatchers, run'[c].pc \notin Handling
  PROVE  \/ run'[c].earlier = {}
         \/ run[c].pc \notin Handling /\ run'[c].earlier = run[c].earlier
<1>a. run[c] \in Run /\ DOMAIN run = Dispatchers
  BY DEF TypeOK
<1>1. ASSUME NEW d \in Dispatchers, d # c, Dispatch(d) \/ Mishap(d) PROVE run'[c] = run[c]
  BY <1>1 DEF TypeOK, Dispatch, Start, Goto, Select, Compose, NextOf, Replace, Deliver, Commit, Mishap
<1>2. ASSUME NEW h, NextOf(c, h) PROVE run'[c].earlier = {}
  BY <1>2, <1>a DEF NextOf, IdleRun
<1>3. ASSUME run' = [run EXCEPT ![c] = IdleRun] PROVE run'[c].earlier = {}
  BY <1>3, <1>a DEF IdleRun
<1>4. CASE Start(c)
  BY <1>4, <1>a DEF Start, Goto, Handling, Run
<1>5. CASE Select(c)
  <2>1. ASSUME NEW e, run' = [run EXCEPT ![c] = [run[c] EXCEPT !.pc = "composing", !.entry = e,
                                                             !.attempted = Attempted(c, e)]]
        PROVE  FALSE
    BY <1>a, <2>1 DEF Handling, Run
  <2> QED
    BY <1>3, <1>5, <2>1 DEF Select
<1>6. CASE Compose(c)
  <2> DEFINE e == run[c].entry
             pc == IF entry[e].kind \in LinkKinds THEN "replacing" ELSE "delivering"
             earlier == IF entry[e].kind \in LinkKinds THEN Of(e, live) ELSE {}
  <2>1. ASSUME run' = [run EXCEPT ![c] = [run[c] EXCEPT !.pc = pc, !.earlier = earlier]]
        PROVE  FALSE
    <3>1. pc \in Handling
      BY DEF Handling
    <3> HIDE DEF pc, earlier
    <3> QED
      BY <1>a, <2>1, <3>1 DEF Run
  <2> QED
    BY <1>2, <1>6, <2>1 DEF Compose
<1>7. CASE Replace(c)
  BY <1>7, <1>a DEF Replace, Handling, Run
<1>8. CASE Deliver(c)
  BY <1>8, <1>a DEF Deliver, Goto, Handling, Run
<1>9. CASE Commit(c) \/ Mishap(c)
  BY <1>9, <1>2, <1>3 DEF Commit, Mishap
<1>10. CASE UNCHANGED run
  BY <1>10
<1> QED
  BY <1>1, <1>4, <1>5, <1>6, <1>7, <1>8, <1>9, <1>10
     DEF Next, vars, UseLink, VerifyEmail, ResetPassword, Enqueue, Dispatch

\* Where the tokens of a step come from, and what becomes of a token that is not live any more.
LEMMA TokensWritten ==
  ASSUME TypeOK, [Next]_vars
  PROVE  /\ used \subseteq used'
         /\ used' \subseteq used \cup live
         /\ \A t \in live' \ live : \E d \in Dispatchers : Commit(d) /\ t.entry = run[d].entry
         /\ \A t \in live \ live' : \/ \E s \in live \cap used' : s = t \/ SameScope(t.entry, s.entry)
                                  \/ \E d \in Dispatchers : Commit(d) /\ t \in run[d].earlier
<1> DEFINE Goal ==
         /\ used \subseteq used'
         /\ used' \subseteq used \cup live
         /\ \A t \in live' \ live : \E d \in Dispatchers : Commit(d) /\ t.entry = run[d].entry
         /\ \A t \in live \ live' : \/ \E s \in live \cap used' : s = t \/ SameScope(t.entry, s.entry)
                                  \/ \E d \in Dispatchers : Commit(d) /\ t \in run[d].earlier
<1>1. ASSUME UNCHANGED <<live, used>> PROVE Goal
  BY <1>1
<1>2. ASSUME NEW t \in live, VerifyEmail(t) PROVE Goal
  BY <1>2 DEF VerifyEmail
<1>3. ASSUME NEW t \in live, NEW e \in Entries, ResetPassword(t, e) PROVE Goal
  BY <1>3 DEF ResetPassword, Of
<1>4. ASSUME NEW d \in Dispatchers, Commit(d) PROVE Goal
  <2> DEFINE new == [entry |-> run[d].entry, n |-> composed[run[d].entry]]
  <2>1. live' \subseteq live \cup {new} /\ live \ live' \subseteq run[d].earlier /\ used' = used
    BY <1>4 DEF Commit
  <2>2. new.entry = run[d].entry
    OBVIOUS
  <2> HIDE DEF new
  <2> QED
    BY <1>4, <2>1, <2>2
<1> HIDE DEF Goal
<1>5. Goal
  BY <1>1, <1>2, <1>3, <1>4
     DEF Next, vars, UseLink, Enqueue, Dispatch, Start, Select, Compose, Rollback, Replace, Deliver,
         Mishap
<1> QED
  BY <1>5 DEF Goal

\* A dispatcher that commits handles a pending entry.
LEMMA CommitHandles ==
  ASSUME TypeOK, LocksHold, NEW d \in Dispatchers, Commit(d)
  PROVE  run[d].pc \in Handling /\ run[d].entry \in Entries /\ entry[run[d].entry].state = "pending"
BY DEF Commit, LocksHold, TypeOK, Handling

LEMMA TokensNext ==
  ASSUME TypeOK, LocksHold, TokensOfEntries, [Next]_vars PROVE TokensOfEntries'
<1>1. \A t \in live \cup used : t.entry \in Entries
  BY DEF TypeOK, Token
<1>2. \A d \in Dispatchers : run[d].earlier \subseteq Token
  BY DEF TypeOK, Run
<1>3. ASSUME NEW t \in live' \cup used' PROVE entry'[t.entry].state # "unused"
  <2>1. CASE t \in live \cup used
    BY <1>1, <2>1, ScopeNext DEF TokensOfEntries
  <2>2. CASE t \notin live \cup used
    <3>1. PICK d \in Dispatchers : Commit(d) /\ t.entry = run[d].entry
      BY <1>3, <2>2, TokensWritten
    <3> QED
      BY <3>1, CommitHandles, ScopeNext
  <2> QED
    BY <2>1, <2>2
<1>4. ASSUME NEW c \in Dispatchers, NEW t \in run'[c].earlier
      PROVE  /\ run'[c].pc \in Handling
             /\ SameScope(t.entry, run[c].entry)'
             /\ entry'[t.entry].state # "unused"
  <2>1. run'[c].pc \in Handling
    BY <1>4, RunEnds DEF TokensOfEntries
  <2> PICK e : e = run[c].entry
    OBVIOUS
  <2>2. /\ run[c].pc \in Handling /\ run'[c].entry = e
        /\ t \in run[c].earlier \/ t \in Of(e, live)
    <3>1. CASE run'[c] = run[c]
      BY <1>4, <2>1, <3>1
    <3>2. CASE run'[c].earlier = run[c].earlier /\ Select(c)
      BY <1>4, <3>2 DEF TokensOfEntries, Select, Handling
    <3> QED
      BY <1>4, <2>1, <3>1, <3>2, RunNext DEF Of
  <2>3. e \in Entries /\ entry[e].state # "unused"
    BY <2>2 DEF TypeOK, LocksHold
  <2>4. t.entry \in Entries /\ SameScope(t.entry, e) /\ entry[t.entry].state # "unused"
    BY <1>1, <1>2, <2>2 DEF TokensOfEntries, Of, Token
  <2>5. SameScope(t.entry, e)' /\ entry'[t.entry].state # "unused"
    BY <2>3, <2>4, ScopeNext
  <2> QED
    BY <2>1, <2>2, <2>5 DEF SameScope
<1> QED
  BY <1>3, <1>4 DEF TokensOfEntries

LEMMA LinkNext ==
  ASSUME TypeOK, LocksHold, TokensOfEntries, LinkWorks, [Next]_vars PROVE LinkWorks'
<1> SUFFICES ASSUME NEW e \in Entries, entry'[e].state = "sent", entry'[e].kind \in LinkKinds
             PROVE  \E t \in live' \cup used' : SameScope(t.entry, e)'
  BY DEF LinkWorks, Of
<1>1. \A t \in live \cup used : t.entry \in Entries /\ entry[t.entry].state # "unused"
  BY DEF TypeOK, Token, TokensOfEntries
\* Whoever commits, the new token has the scope of the entry.
<1>2. ASSUME NEW d \in Dispatchers, Commit(d), NEW t \in {e} \cup {s.entry : s \in live},
             entry[t].state # "unused", t \in Entries,
             SameScope(t, e), SameScope(t, run[d].entry), entry[e].state # "unused"
      PROVE  \E s \in live' : SameScope(s.entry, e)'
  <2> PICK f : f = run[d].entry
    OBVIOUS
  <2> DEFINE new == [entry |-> f, n |-> composed[f]]
  <2>1. f \in Entries /\ entry[f].state # "unused"
    BY <1>2, CommitHandles
  <2>2. SameScope(f, e) /\ entry[f].kind = entry[e].kind
    BY <1>2 DEF SameScope
  <2>3. SameScope(f, e)'
    BY <1>2, <2>1, <2>2, ScopeNext
  <2>4. entry[f].kind \in LinkKinds
    BY <1>2, <2>2, EntryNext
  <2>5. new \in live' /\ new.entry = f
    BY <1>2, <2>4 DEF Commit
  <2> QED
    BY <2>3, <2>5
<1>3. CASE entry[e].state = "sent"
  <2>1. PICK t \in live \cup used : SameScope(t.entry, e)
    <3>1. entry[e].kind \in LinkKinds
      BY <1>3, EntryNext
    <3> QED
      BY <1>3, <3>1 DEF LinkWorks, Of
  <2>2. ASSUME NEW s \in live \cup used, SameScope(s.entry, e) PROVE SameScope(s.entry, e)'
    BY <1>1, <1>3, <2>2, ScopeNext
  <2>3. CASE t \in live' \cup used'
    BY <2>1, <2>2, <2>3
  <2>4. CASE \E s \in live \cap used' : s = t \/ SameScope(t.entry, s.entry)
    <3>1. PICK s \in live \cap used' : SameScope(s.entry, e)
      BY <2>1, <2>4 DEF SameScope
    <3> QED
      BY <2>2, <3>1
  <2>5. ASSUME NEW d \in Dispatchers, Commit(d), t \in run[d].earlier, t \in live
        PROVE  \E s \in live' : SameScope(s.entry, e)'
    <3>1. SameScope(t.entry, run[d].entry)
      BY <2>5 DEF TokensOfEntries
    <3> QED
      BY <1>1, <1>2, <1>3, <2>1, <2>5, <3>1
  <2> QED
    BY <2>1, <2>3, <2>4, <2>5, TokensWritten
<1>4. CASE entry[e].state # "sent"
  <2>1. PICK d \in Dispatchers : Commit(d) /\ run[d].entry = e
    BY <1>4, EntryNext
  <2>2. entry[e].state = "pending"
    BY <2>1, CommitHandles
  <2> QED
    BY <1>2, <2>1, <2>2 DEF SameScope
<1> QED
  BY <1>3, <1>4

LEMMA Invariance == Spec => []IInv
<1>1. IInv /\ [Next]_vars => IInv'
  BY TypeNext, LocksNext, DeliveriesNext, TokensNext, LinkNext DEF IInv
<1> QED
  BY <1>1, InitIInv, PTL DEF Spec

-----------------------------------------------------------------------------
\* Every reachable state of the outbox is well typed.
THEOREM OutboxTypeCorrect == Spec => []TypeOK
BY Invariance, PTL DEF IInv

\* However many processes dispatch at once, and however often, an email goes out twice only after a
\* mishap (SKIP LOCKED and the transaction of dispatchNext()).
THEOREM DeliveredOnceCorrect == Spec => []DeliveredOnce
<1>1. IInv => DeliveredOnce
  BY DEF IInv, DeliveriesBounded, DeliveredOnce
<1> QED
  BY <1>1, Invariance, PTL

\* A user who was sent links and used none has one that works, whatever failed, and whoever replaced
\* which token meanwhile (replaceEmailVerificationToken(), replacePasswordResetToken()).
THEOREM LinkWorksCorrect == Spec => []LinkWorks
BY Invariance, PTL DEF IInv

=============================================================================
