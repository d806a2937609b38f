----------------------------- MODULE EmailOutbox -----------------------------
(***************************************************************************)
(* The emails of an account: the intents that operations record in         *)
(* email_outbox (notifications/outbox.repository.ts, auth.repository.ts),  *)
(* the runs of dispatchPendingEmails() that send them                      *)
(* (notifications/dispatch.ts), the tokens their composers put in the      *)
(* links (notifications/composers.ts) and the requests that use a link.    *)
(*                                                                         *)
(* The transaction of dispatchNext() is modelled statement by statement:   *)
(* what it writes is seen by others when it commits, the rows it changes   *)
(* are locked until then.  A link that has expired is one nobody uses.     *)
(***************************************************************************)
EXTENDS Naturals, FiniteSets

CONSTANTS
  Users,
  Entries,      \* rows of email_outbox, numbered by created_at
  Broken,       \* those without a composer, a recipient or a transport that takes them
  Dispatchers,  \* processes that call dispatchPendingEmails(), again and again
  Limit,        \* options.limit
  MaxMishaps,   \* bound: statements and deliveries that fail, processes that die
  None          \* no entry, no user

ASSUME OutboxAssumption ==
  /\ Entries \subseteq Nat
  /\ Broken \subseteq Entries
  /\ Limit \in Nat \ {0}
  /\ MaxMishaps \in Nat
  /\ None \notin Entries
  /\ None \notin Users

VARIABLES
  entry,      \* the rows of email_outbox
  composed,   \* how many messages were composed for each entry
  delivered,  \* how many of them the transport took
  live,       \* the stored tokens nobody has used nor replaced
  used,       \* the tokens that were used
  run,        \* the dispatchers
  mishaps     \* how many mishaps there were

vars == <<entry, composed, delivered, live, used, run, mishaps>>

-----------------------------------------------------------------------------
LinkKinds == {"EMAIL_VERIFICATION", "PASSWORD_RESET"}
Kinds     == LinkKinds \cup {"PASSWORD_RESET_COMPLETED"}
Entry     == [state: {"unused", "pending", "sent"}, user: Users \cup {None}, kind: Kinds]

\* The token of the n-th message of an entry.
Token == [entry: Entries, n: Nat]

Handling == {"composing", "replacing", "delivering", "committing"}
Run == [pc: {"idle", "selecting"} \cup Handling, handled: Nat, attempted: SUBSET Entries,
        entry: Entries \cup {None}, earlier: SUBSET Token]
IdleRun == [pc |-> "idle", handled |-> 0, attempted |-> {}, entry |-> None, earlier |-> {}]

Init ==
  /\ entry = [e \in Entries |-> [state |-> "unused", user |-> None, kind |-> "EMAIL_VERIFICATION"]]
  /\ composed = [e \in Entries |-> 0]
  /\ delivered = [e \in Entries |-> 0]
  /\ live = {}
  /\ used = {}
  /\ run = [d \in Dispatchers |-> IdleRun]
  /\ mishaps = 0

SameScope(e, f) == entry[e].user = entry[f].user /\ entry[e].kind = entry[f].kind

\* The tokens of S for the user and the kind of e.
Of(e, S) == {t \in S : SameScope(t.entry, e)}

\* The tokens a dispatcher has marked as used in its open transaction.
LockedBy(d) == IF run[d].pc \in {"delivering", "committing"} THEN run[d].earlier ELSE {}

\* Mutant of Free: FOR UPDATE SKIP LOCKED is left out.
FreeAnyway(e) == TRUE

\* No dispatcher has locked the entry.
Free(e) == \A d \in Dispatchers : run[d].pc \in Handling => run[d].entry # e

-----------------------------------------------------------------------------
(***************************************************************************)
(* The operations that cause an email                                      *)
(***************************************************************************)
Pending(e, u, k) == entry' = [entry EXCEPT ![e] = [state |-> "pending", user |-> u, kind |-> k]]

\* register(), the resend and the reset request.  The intent is seen when its cause commits, in
\* any order of created_at.
Enqueue(e, u, k) ==
  /\ entry[e].state = "unused"
  /\ k \in LinkKinds
  /\ Pending(e, u, k)
  /\ UNCHANGED <<composed, delivered, live, used, run, mishaps>>

\* consumeEmailVerificationToken(): one conditional UPDATE, which waits for a dispatcher that is
\* replacing the token.
VerifyEmail(t) ==
  /\ t \in live
  /\ entry[t.entry].kind = "EMAIL_VERIFICATION"
  /\ \A d \in Dispatchers : t \notin LockedBy(d)
  /\ live' = live \ {t}
  /\ used' = used \cup {t}
  /\ UNCHANGED <<entry, composed, delivered, run, mishaps>>

\* resetPassword(): the other links of the user end too, and a notice is due.
ResetPassword(t, e) ==
  /\ t \in live
  /\ entry[t.entry].kind = "PASSWORD_RESET"
  /\ \A d \in Dispatchers : Of(t.entry, live) \cap LockedBy(d) = {}
  /\ live' = live \ Of(t.entry, live)
  /\ used' = used \cup {t}
  /\ entry[e].state = "unused"
  /\ Pending(e, entry[t.entry].user, "PASSWORD_RESET_COMPLETED")
  /\ UNCHANGED <<composed, delivered, run, mishaps>>

-----------------------------------------------------------------------------
(***************************************************************************)
(* A run of dispatchPendingEmails()                                        *)
(***************************************************************************)
Goto(d, pc) == run' = [run EXCEPT ![d].pc = pc]

\* One more entry is handled, sent or failed; the run goes on up to its limit.
NextOf(d, handled) ==
  run' = [run EXCEPT ![d] = IF handled < Limit
                            THEN [IdleRun EXCEPT !.pc = "selecting", !.handled = handled,
                                                 !.attempted = run[d].attempted]
                            ELSE IdleRun]

Start(d) ==
  /\ run[d].pc = "idle"
  /\ Goto(d, "selecting")
  /\ UNCHANGED <<entry, composed, delivered, live, used, mishaps>>

\* Mutant of Attempted: a failed entry is tried again in the same run.
AttemptedNone(d, e) == {}

Attempted(d, e) == run[d].attempted \cup {e}

Selectable(d) ==
  {e \in Entries : entry[e].state = "pending" /\ e \notin run[d].attempted /\ Free(e)}

\* dispatchNext() locks the oldest entry that is left, or the run is over.
Select(d) ==
  /\ run[d].pc = "selecting"
  /\ \/ \E e \in Selectable(d) :
          /\ \A f \in Selectable(d) : e <= f
          /\ run' = [run EXCEPT ![d] = [run[d] EXCEPT !.pc = "composing", !.entry = e,
                                                      !.attempted = Attempted(d, e)]]
     \/ Selectable(d) = {} /\ run' = [run EXCEPT ![d] = IdleRun]
  /\ UNCHANGED <<entry, composed, delivered, live, used, mishaps>>

\* Mutant of Rollback: the earlier tokens are marked outside the transaction.
RollbackAfterReplacing(d) ==
  /\ live' = live \ LockedBy(d)
  /\ UNCHANGED <<entry, composed, delivered, used>>

\* Nothing that the transaction wrote is kept.
Rollback(d) == UNCHANGED <<entry, composed, delivered, live, used>>

\* A composer or the transport throws for an entry it never takes.
Compose(d) ==
  LET e == run[d].entry
  IN  /\ run[d].pc = "composing"
      /\ \/ e \in Broken /\ Rollback(d) /\ NextOf(d, run[d].handled + 1) /\ UNCHANGED composed
         \/ /\ e \notin Broken
            /\ composed' = [composed EXCEPT ![e] = composed[e] + 1]
            /\ run' = [run EXCEPT ![d] =
                         [run[d] EXCEPT
                            !.pc = IF entry[e].kind \in LinkKinds THEN "replacing" ELSE "delivering",
                            !.earlier = IF entry[e].kind \in LinkKinds THEN Of(e, live) ELSE {}]]
            /\ UNCHANGED <<entry, delivered, live, used>>
      /\ UNCHANGED mishaps

\* The UPDATE marks the unused tokens it saw when it began, once no one else is changing them.
Replace(d) ==
  /\ run[d].pc = "replacing"
  /\ \A c \in Dispatchers \ {d} : run[d].earlier \cap LockedBy(c) = {}
  /\ run' = [run EXCEPT ![d] = [run[d] EXCEPT !.pc = "delivering",
                                              !.earlier = run[d].earlier \cap live]]
  /\ UNCHANGED <<entry, composed, delivered, live, used, mishaps>>

Deliver(d) ==
  /\ run[d].pc = "delivering"
  /\ delivered' = [delivered EXCEPT ![run[d].entry] = delivered[run[d].entry] + 1]
  /\ Goto(d, "committing")
  /\ UNCHANGED <<entry, composed, live, used, mishaps>>

\* The entry is sent and its token is the one to use, for all to see.
Commit(d) ==
  LET e == run[d].entry
  IN  /\ run[d].pc = "committing"
      /\ entry' = [entry EXCEPT ![e].state = "sent"]
      /\ live' = (live \ run[d].earlier) \cup
                 IF entry[e].kind \in LinkKinds THEN {[entry |-> e, n |-> composed[e]]} ELSE {}
      /\ NextOf(d, run[d].handled + 1)
      /\ UNCHANGED <<composed, delivered, used, mishaps>>

\* A statement, the delivery or the commit fails, and is counted; or the process dies.  A delivery
\* that fails may have been taken.
Mishap(d) ==
  /\ mishaps < MaxMishaps
  /\ run[d].pc # "idle"
  /\ mishaps' = mishaps + 1
  /\ Rollback(d)
  /\ \/ NextOf(d, run[d].handled + 1)
     \/ run' = [run EXCEPT ![d] = IdleRun]

-----------------------------------------------------------------------------
Dispatch(d) == \/ Start(d) \/ Select(d) \/ Compose(d) \/ Replace(d) \/ Deliver(d) \/ Commit(d)

UseLink == \E t \in live : VerifyEmail(t) \/ \E e \in Entries : ResetPassword(t, e)

Next == \/ \E e \in Entries, u \in Users, k \in Kinds : Enqueue(e, u, k)
        \/ UseLink
        \/ \E d \in Dispatchers : Dispatch(d) \/ Mishap(d)

Spec == Init /\ [][Next]_vars

\* The dispatch is called again and again, and a run that is alive goes on.
FairSpec == Spec /\ \A d \in Dispatchers : WF_vars(Dispatch(d))

-----------------------------------------------------------------------------
TypeOK ==
  /\ entry \in [Entries -> Entry]
  /\ composed \in [Entries -> Nat]
  /\ delivered \in [Entries -> Nat]
  /\ live \in SUBSET Token
  /\ used \in SUBSET Token
  /\ run \in [Dispatchers -> Run]
  /\ \A d \in Dispatchers : run[d].pc \in Handling => run[d].entry \in Entries
  /\ mishaps \in Nat

\* An email is sent twice only if a mishap undid its dispatch: never because two dispatchers, or
\* two runs of one, took the same entry.
DeliveredOnce == \A e \in Entries : delivered[e] <= 1 + mishaps

\* A user who was sent a link and has used none has one that works: a dispatch that fails, or two at
\* once, never leave the user with replaced links only.
LinkWorks ==
  \A e \in Entries :
    entry[e].state = "sent" /\ entry[e].kind \in LinkKinds
      => Of(e, live) # {} \/ Of(e, used) # {}

\* Broken entries do not hold up the others, as long as they are fewer than a run handles.
EveryEmailSent ==
  Cardinality(Broken) < Limit
    => \A e \in Entries \ Broken : entry[e].state = "pending" ~> entry[e].state = "sent"

=============================================================================
