---------------------------- MODULE LoginLimits ----------------------------
(***************************************************************************)
(* The limits of POST /login, /email/verification/resend and               *)
(* /password/forgot: a fixed window per client IP in the memory of the     *)
(* process (rate-limiter.ts), then a progressive delay per account, which  *)
(* each attempt works out from the events of PostgreSQL under an advisory  *)
(* lock (auth.service.ts, auth.repository.ts).                             *)
(*                                                                         *)
(* The three endpoints have the same form, their own limiter and their own *)
(* namespace of locks: a behaviour is about one of them, kind.  The clocks *)
(* of the process and of PostgreSQL agree and do not go back.              *)
(***************************************************************************)
EXTENDS Integers, FiniteSets, Sequences

CONSTANTS
  Accounts,        \* emails, by their hash, or users
  Keys,            \* advisory lock keys
  Key,             \* loginLockKey(): accounts may share one
  Clients,         \* IP addresses
  Requests,        \* requests that may be served at the same time
  Max,             \* requests of a client per window of the limiter
  Length,          \* that window
  Limit, Base, Cap, Window,  \* see AttemptLimits
  Second,          \* units of time in a second
  MaxTime,         \* bound: where the clock stops
  None             \* no one, NULL

ASSUME LimitsAssumption ==
  /\ Key \in [Accounts -> Keys]
  /\ Max \in Nat \ {0} /\ Length \in Nat \ {0}
  /\ Limit \in Nat \ {0} /\ Base \in Nat \ {0} /\ Cap \in Nat \ {0} /\ Window \in Nat \ {0}
  /\ Second \in Nat \ {0}
  /\ MaxTime \in Nat
  /\ None \notin Clients \cup Accounts \cup Requests \cup Nat

VARIABLES
  kind,     \* the endpoint
  now,      \* the clock
  buckets,  \* the limiter's: for each client its bucket or None
  sweepAt,  \* nextSweepAt
  users,    \* for a resend, the accounts that are registered
  log,      \* the committed events that count, per account: their times
  lock,     \* who holds each advisory lock
  req,      \* the requests being served
  answer,   \* what the limiter told the last request of this instant
  promise   \* when a Retry-After said the account may be tried again, if nothing else counts

vars == <<kind, now, buckets, sweepAt, users, log, lock, req, answer, promise>>

Limits == INSTANCE AttemptLimits WITH Times <- 0 .. MaxTime

-----------------------------------------------------------------------------
\* Refused logins count; a resend and a request of a reset count when they are accepted.
Kinds == {"login", "resend", "forgot"}

Bucket == [count: Nat, resetAt: Nat]

\* A RateLimitResult, and whose it is: 0 seconds if it is allowed.
Answer == [client: Clients, retryAfter: Nat]

(***************************************************************************)
(* registering: a registration that found no user of that email.  Then     *)
(* the steps of an attempt's transaction: it waits for the lock, holds it, *)
(* has read n events, the last one at last, by the clock at; and has its   *)
(* outcome, to be committed.                                               *)
(***************************************************************************)
Request == [pc: {"idle", "registering", "waiting", "holding", "deciding", "committing"},
            account: Accounts \cup {None}, n: Nat, last: Nat, at: Nat,
            outcome: {"none", "throttled", "counted", "granted"}]
NoRequest == [pc |-> "idle", account |-> None, n |-> 0, last |-> 0, at |-> 0, outcome |-> "none"]

Init ==
  /\ kind \in Kinds
  /\ now = 0
  /\ buckets = [c \in Clients |-> None]
  /\ sweepAt = 0
  /\ users = IF kind = "resend" THEN {} ELSE Accounts
  /\ log = [a \in Accounts |-> <<>>]
  /\ lock = [k \in Keys |-> None]
  /\ req = [q \in Requests |-> NoRequest]
  /\ answer = None
  /\ promise = [a \in Accounts |-> None]

Tick ==
  /\ now' \in now + 1 .. MaxTime
  /\ answer' = None
  /\ UNCHANGED <<kind, buckets, sweepAt, users, log, lock, req, promise>>

-----------------------------------------------------------------------------
(***************************************************************************)
(* The limit per IP: FixedWindowRateLimiter.consume()                      *)
(***************************************************************************)

Ended(b) == b # None /\ b.resetAt <= now

\* Mutant of Swept: the sweep drops every bucket.
SweptAll == IF now < sweepAt THEN buckets ELSE [c \in Clients |-> None]

\* sweepExpired(), at most once per window
Swept == IF now < sweepAt THEN buckets
         ELSE [c \in Clients |-> IF Ended(buckets[c]) THEN None ELSE buckets[c]]

\* Mutant of NextSweep: every request puts the sweep off.
NextSweepPutOff == now + Length

NextSweep == IF now < sweepAt THEN sweepAt ELSE now + Length

\* Mutant of Fresh: a bucket lasts until it is swept.
FreshOnceSwept(c) == Swept[c] = None

Fresh(c) == Swept[c] = None \/ Ended(Swept[c])
Admitted(c) == Fresh(c) \/ Swept[c].count < Max

\* Math.ceil() of a time in seconds
InSeconds(time) == (time + Second - 1) \div Second

Consume(c) ==
  /\ sweepAt' = NextSweep
  /\ buckets' = CASE Fresh(c) -> [Swept EXCEPT ![c] = [count |-> 1, resetAt |-> now + Length]]
                  [] ~Fresh(c) /\ Admitted(c) -> [Swept EXCEPT ![c].count = @ + 1]
                  [] OTHER -> Swept
  /\ answer' = [client |-> c, retryAfter |-> IF Admitted(c) THEN 0 ELSE InSeconds(Swept[c].resetAt - now)]

-----------------------------------------------------------------------------
(***************************************************************************)
(* Registration                                                            *)
(***************************************************************************)

\* register() finds no user with the email.  Its limiter is another one, not in this model.
Register(q, a) ==
  /\ kind = "resend"
  /\ req[q].pc = "idle"
  /\ a \notin users
  /\ req' = [req EXCEPT ![q] = [NoRequest EXCEPT !.pc = "registering", !.account = a]]
  /\ UNCHANGED <<kind, now, buckets, sweepAt, users, log, lock, answer, promise>>

\* createUserWithEmailVerification(): the unique email lets one insert the user, with the email.
CreateUser(q) ==
  LET a == req[q].account IN
  /\ req[q].pc = "registering"
  /\ users' = users \cup {a}
  /\ log' = IF a \in users THEN log ELSE [log EXCEPT ![a] = Append(@, now)]
  /\ req' = [req EXCEPT ![q] = NoRequest]
  /\ UNCHANGED <<kind, now, buckets, sweepAt, lock, answer, promise>>

-----------------------------------------------------------------------------
(***************************************************************************)
(* An attempt                                                              *)
(***************************************************************************)

\* enforceIpLimit(), and the attempt begins its transaction.
Arrive(q, c, a) ==
  /\ req[q].pc = "idle"
  /\ a \in users
  /\ Consume(c)
  /\ req' = IF Admitted(c)
            THEN [req EXCEPT ![q] = [NoRequest EXCEPT !.pc = "waiting", !.account = a]]
            ELSE req
  /\ UNCHANGED <<kind, now, users, log, lock, promise>>

\* Mutant of Lock: it does not wait.
LockAnyway(q) ==
  /\ req[q].pc = "waiting"
  /\ req' = [req EXCEPT ![q].pc = "holding"]
  /\ lock' = [lock EXCEPT ![Key[req[q].account]] = q]
  /\ UNCHANGED <<kind, now, buckets, sweepAt, users, log, answer, promise>>

\* pg_advisory_xact_lock()
Lock(q) ==
  LET k == Key[req[q].account] IN
  /\ req[q].pc = "waiting"
  /\ lock[k] = None
  /\ lock' = [lock EXCEPT ![k] = q]
  /\ req' = [req EXCEPT ![q].pc = "holding"]
  /\ UNCHANGED <<kind, now, buckets, sweepAt, users, log, answer, promise>>

\* The count, in a statement that begins after the lock is held: it sees what was committed.
Read(q) ==
  LET times == log[req[q].account] IN
  /\ req[q].pc = "holding"
  /\ \E n \in 0 .. Len(times), last \in {times[i] : i \in DOMAIN times} \cup {0} :
       /\ Limits!Reading(times, now, n, last)
       /\ req' = [req EXCEPT ![q].pc = "deciding", ![q].n = n, ![q].last = last, ![q].at = now]
  /\ UNCHANGED <<kind, now, buckets, sweepAt, users, log, lock, answer, promise>>

Left(r) == Limits!Remaining(r.n, r.last, r.at)

\* Mutant of Wait: the seconds are rounded down.
WaitRoundedDown(r) == (Left(r) \div Second) * Second

\* Mutant of Wait: a second more, for safety.
WaitASecondMore(r) == (InSeconds(Left(r)) + 1) * Second

\* max(1, ceil(remaining)) seconds
Wait(r) == InSeconds(Left(r)) * Second

Decide(q, outcome) ==
  /\ req[q].pc = "deciding"
  /\ req' = [req EXCEPT ![q].pc = "committing", ![q].outcome = outcome]
  /\ UNCHANGED <<kind, now, buckets, sweepAt, users, log, lock, answer, promise>>

\* The delay is not over: auth.login.rate_limited for a login, nothing for the others.
Throttle(q) == Left(req[q]) > 0 /\ Decide(q, "throttled")

\* The password is wrong, the user unknown, suspended or kept out; or the email is enqueued.
Count(q) == Left(req[q]) <= 0 /\ Decide(q, "counted")

\* The password is right: nothing is written, and the failures stay.
Grant(q) == kind = "login" /\ Left(req[q]) <= 0 /\ Decide(q, "granted")

Released(q) == [k \in Keys |-> IF lock[k] = q THEN None ELSE lock[k]]

\* What the COMMIT makes visible, with the lock's release.
Recorded(r) == IF r.outcome = "counted" THEN [log EXCEPT ![r.account] = Append(@, r.at)] ELSE log
Promised(r) ==
  [a \in Accounts |->
     CASE log'[a] # log[a] -> None
       [] kind = "login" /\ r.outcome = "throttled" /\ a = r.account ->
            IF promise[a] = None \/ r.at + Wait(r) < promise[a] THEN r.at + Wait(r) ELSE promise[a]
       [] OTHER -> promise[a]]

\* The COMMIT, and the answer, which only it lets out.
Commit(q) ==
  /\ req[q].pc = "committing"
  /\ log' = Recorded(req[q])
  /\ lock' = Released(q)
  /\ promise' = Promised(req[q])
  /\ req' = [req EXCEPT ![q] = NoRequest]
  /\ UNCHANGED <<kind, now, buckets, sweepAt, users, answer>>

\* 503 or 500: no connection, lock_timeout, the transaction's own timeout, any failure.
Expire(q) ==
  /\ req[q].pc # "idle"
  /\ lock' = Released(q)
  /\ req' = [req EXCEPT ![q] = NoRequest]
  /\ UNCHANGED <<kind, now, buckets, sweepAt, users, log, answer, promise>>

\* The COMMIT was applied and its answer is lost: 500.
CommitInDoubt(q) ==
  /\ req[q].pc = "committing"
  /\ log' = Recorded(req[q])
  /\ lock' = Released(q)
  /\ promise' = [a \in Accounts |-> IF log'[a] # log[a] THEN None ELSE promise[a]]
  /\ req' = [req EXCEPT ![q] = NoRequest]
  /\ UNCHANGED <<kind, now, buckets, sweepAt, users, answer>>

Serve(q) ==
  \/ CreateUser(q) \/ Lock(q) \/ Read(q) \/ Throttle(q) \/ Count(q) \/ Grant(q)
  \/ Commit(q) \/ Expire(q) \/ CommitInDoubt(q)

Next ==
  \/ Tick
  \/ \E q \in Requests :
       \/ \E a \in Accounts : Register(q, a)
       \/ \E c \in Clients, a \in Accounts : Arrive(q, c, a)
       \/ Serve(q)

Spec == Init /\ [][Next]_vars

-----------------------------------------------------------------------------
TypeOK ==
  /\ kind \in Kinds
  /\ now \in 0 .. MaxTime
  /\ buckets \in [Clients -> Bucket \cup {None}]
  /\ sweepAt \in Nat
  /\ users \subseteq Accounts
  /\ log \in [Accounts -> Seq(0 .. MaxTime)]
  /\ lock \in [Keys -> Requests \cup {None}]
  /\ req \in [Requests -> Request]
  /\ answer \in Answer \cup {None}
  /\ promise \in [Accounts -> Nat \cup {None}]

(***************************************************************************)
(* However many attempts of an account run at the same time, the events    *)
(* that count are those of attempts made one at a time, each let in by all *)
(* the earlier ones (runLoginAttempt() and its like: the advisory lock,    *)
(* and a count that begins once it is held).                               *)
(***************************************************************************)
OneAtATime == Limits!Spec

(***************************************************************************)
(* Two events of an account that count are as far apart as ADR-002 says:   *)
(* with f earlier ones in the window, f >= Limit, the next comes no sooner *)
(* than min(Base * 2 ^ (f - Limit), Cap) after the last.                   *)
(***************************************************************************)
DelayHolds ==
  \A a \in Accounts : \A i \in 2 .. Len(log[a]) :
    LET f == Cardinality({j \in 1 .. i - 1 : log[a][i] - log[a][j] < Window})
        spacing == Base * 2 ^ (f - Limit)
    IN f >= Limit => log[a][i] - log[a][i - 1] >= IF spacing < Cap THEN spacing ELSE Cap

(***************************************************************************)
(* A Retry-After is never too short: whoever comes back after the seconds  *)
(* it said is not told to wait again, unless something was counted         *)
(* meanwhile.                                                              *)
(***************************************************************************)
RetryAfterEnough ==
  \A q \in Requests :
    LET r == req[q] IN
    r.pc = "committing" /\ r.outcome = "throttled" /\ promise[r.account] # None
      => r.at < promise[r.account]

(***************************************************************************)
(* Nor is it longer than it takes, as far as can be told when it is said:  *)
(* a second earlier the delay is not over by the events counted so far,    *)
(* unless one of them has left the window by then.  (In that case it is    *)
(* too long, although docs/API_SPEC.md:436 calls it exact.)                *)
(***************************************************************************)
RetryAfterTight ==
  \A q \in Requests :
    LET r     == req[q]
        times == log[r.account]
        early == r.at + Wait(r) - Second
    IN r.pc = "committing" /\ r.outcome = "throttled" /\ Limits!Recent(times, early) = Limits!Recent(times, r.at)
         => \A n \in 0 .. Len(times), last \in 0 .. MaxTime :
              Limits!Reading(times, early, n, last) => Limits!Remaining(n, last, early) > 0

(***************************************************************************)
(* What the limiter of each IP answers, and when, is what FixedWindow      *)
(* lets it: nobody is refused but by a full window that has not ended,     *)
(* nobody is let in beyond a full one, and every refusal says when it ends *)
(* (consume(), with buckets that are swept now and then).                  *)
(***************************************************************************)
Windows == [c \in Clients |->
              IF buckets[c] # None /\ buckets[c].resetAt > now THEN buckets[c] ELSE None]

PerClient == INSTANCE FixedWindow WITH window <- Windows

LimiterAnswers == PerClient!Spec

(***************************************************************************)
(* The buckets in memory are those of the clients of two windows at most:  *)
(* once a request was answered none is kept that ended a window ago        *)
(* (sweepExpired(), which a request calls at most once in a window).       *)
(***************************************************************************)
NothingKeptLong ==
  answer # None => \A c \in Clients : buckets[c] # None => now < buckets[c].resetAt + Length

=============================================================================
