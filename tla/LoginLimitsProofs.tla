------------------------- MODULE LoginLimitsProofs -------------------------
(***************************************************************************)
(* Type correctness of LoginLimits and its properties, for any number      *)
(* of accounts, lock keys, clients and concurrent attempts and any limits. *)
(*                                                                         *)
(* What an attempt has read stays true until it commits, as only it holds  *)
(* the lock of its account (ReadOK); a promise is never sooner than the    *)
(* delay that some reading of the same log gives (PromiseOK).              *)
(***************************************************************************)
EXTENDS LoginLimits, FiniteSetTheorems, SequenceTheorems, TLAPS

(***************************************************************************)
(* The delay                                                               *)
(***************************************************************************)

\* 2 ^ n is how many subsets a set of n elements has.
LEMMA PowerMonotone ==
  ASSUME NEW m \in Nat, NEW n \in Nat, m <= n
  PROVE  2 ^ m <= 2 ^ n
<1>1. \A k \in Nat : IsFiniteSet(1 .. k) /\ Cardinality(1 .. k) = k
  BY FS_Interval
<1>2. \A k \in Nat : IsFiniteSet(SUBSET (1 .. k)) /\ Cardinality(SUBSET (1 .. k)) = 2 ^ k
  BY <1>1, FS_SUBSET
<1>3. SUBSET (1 .. m) \subseteq SUBSET (1 .. n)
  OBVIOUS
<1>4. Cardinality(SUBSET (1 .. m)) <= Cardinality(SUBSET (1 .. n))
  BY <1>2, <1>3, FS_Subset
<1> QED
  BY <1>2, <1>4

LEMMA DelayType ==
  ASSUME NEW n \in Int
  PROVE  Limits!Delay(n) \in Int
BY LimitsAssumption DEF Limits!Delay

LEMMA DelayMonotone ==
  ASSUME NEW m \in Nat, NEW n \in Nat, Limit <= m, m <= n
  PROVE  Limits!Delay(m) <= Limits!Delay(n)
<1>1. m - Limit \in Nat /\ n - Limit \in Nat /\ m - Limit <= n - Limit
  BY LimitsAssumption
<1>2. PICK x \in Int, y \in Int : x = 2 ^ (m - Limit) /\ y = 2 ^ (n - Limit)
  <2>1. 2 ^ (m - Limit) \in Int /\ 2 ^ (n - Limit) \in Int
    BY <1>1
  <2> QED
    BY <2>1
<1>3. x <= y
  BY <1>1, <1>2, PowerMonotone
<1>4. Base * x <= Base * y
  BY <1>3, LimitsAssumption
<1>5. Base * x \in Int /\ Base * y \in Int
  BY LimitsAssumption
<1> QED
  BY <1>2, <1>4, <1>5, LimitsAssumption DEF Limits!Delay

LEMMA RemainingType ==
  ASSUME NEW n \in Nat, NEW last \in Nat, NEW t \in Nat
  PROVE  /\ Limits!Remaining(n, last, t) \in Int
         /\ n < Limit => Limits!Remaining(n, last, t) = 0
         /\ n >= Limit => Limits!Remaining(n, last, t) = last + Limits!Delay(n) - t
BY DelayType, LimitsAssumption DEF Limits!Remaining

\* AttemptLimits counts as LoginLimits does.
LEMMA SameCount ==
  ASSUME NEW times, NEW t, NEW n, NEW last, Limits!Reading(times, t, n, last)
  PROVE  n = Cardinality(Limits!Recent(times, t))
BY DEF Limits!Reading, Limits!Cardinality, Cardinality

(***************************************************************************)
(* Logs                                                                    *)
(***************************************************************************)
Past(times, t) == \A i \in DOMAIN times : times[i] <= t

Ordered(times) == \A i, j \in DOMAIN times : i <= j => times[i] <= times[j]

\* What DelayHolds says of one account.
Spaced(times) ==
  \A i \in 2 .. Len(times) :
    LET f == Cardinality({j \in 1 .. i - 1 : times[i] - times[j] < Window})
        spacing == Base * 2 ^ (f - Limit)
    IN f >= Limit => times[i] - times[i - 1] >= IF spacing < Cap THEN spacing ELSE Cap

LEMMA RecentFinite ==
  ASSUME NEW times \in Seq(Nat), NEW t \in Nat
  PROVE  /\ IsFiniteSet(Limits!Recent(times, t))
         /\ Cardinality(Limits!Recent(times, t)) \in Nat
         /\ Limits!Recent(times, t) # {} => Cardinality(Limits!Recent(times, t)) > 0
<1>1. IsFiniteSet(1 .. Len(times)) /\ DOMAIN times = 1 .. Len(times)
  BY FS_Interval
<1>2. Limits!Recent(times, t) \subseteq 1 .. Len(times)
  BY <1>1 DEF Limits!Recent
<1>3. IsFiniteSet(Limits!Recent(times, t))
  BY <1>1, <1>2, FS_Subset
<1> QED
  BY <1>3, FS_CardinalityType, FS_EmptySet

\* The event of an attempt that was let in.
LEMMA CountedLater ==
  ASSUME NEW times \in Seq(Nat), NEW t \in Nat, NEW n \in Nat, NEW last \in Nat,
         Past(times, t), Ordered(times), Spaced(times),
         Limits!Reading(times, t, n, last), Limits!Remaining(n, last, t) <= 0
  PROVE  Ordered(Append(times, t)) /\ Spaced(Append(times, t))
<1>1. PICK more \in Seq(Nat), len \in Nat : more = Append(times, t) /\ len = Len(times)
  <2>1. Append(times, t) \in Seq(Nat) /\ Len(times) \in Nat
    OBVIOUS
  <2> QED
    BY <2>1
<1>2. /\ DOMAIN times = 1 .. len /\ DOMAIN more = 1 .. len + 1 /\ Len(more) = len + 1
      /\ \A i \in 1 .. len : more[i] = times[i] /\ times[i] \in Nat
      /\ more[len + 1] = t
  BY <1>1
<1>3. Ordered(more)
  <2> SUFFICES ASSUME NEW i \in 1 .. len + 1, NEW j \in 1 .. len + 1, i <= j
               PROVE  more[i] <= more[j]
    BY <1>2 DEF Ordered
  <2>1. CASE j = len + 1
    <3>1. CASE i = len + 1
      BY <1>2, <2>1, <3>1
    <3>2. CASE i \in 1 .. len
      BY <1>2, <2>1, <3>2 DEF Past
    <3> QED
      BY <3>1, <3>2
  <2>2. CASE j \in 1 .. len
    <3>1. i \in 1 .. len
      BY <2>2
    <3>2. times[i] <= times[j]
      BY <1>2, <2>2, <3>1 DEF Ordered
    <3> QED
      BY <1>2, <2>2, <3>1, <3>2
  <2> QED
    BY <2>1, <2>2
<1>4. Spaced(more)
  <2> SUFFICES ASSUME NEW i \in 2 .. len + 1,
                      NEW f, f = Cardinality({j \in 1 .. i - 1 : more[i] - more[j] < Window}),
                      f >= Limit
               PROVE  more[i] - more[i - 1] >=
                        IF Base * 2 ^ (f - Limit) < Cap THEN Base * 2 ^ (f - Limit) ELSE Cap
    BY <1>2 DEF Spaced
  <2>1. CASE i \in 2 .. len
    <3>1. more[i] = times[i] /\ more[i - 1] = times[i - 1] /\ \A j \in 1 .. i - 1 : more[j] = times[j]
      <4>1. i - 1 \in 1 .. len /\ 1 .. i - 1 \subseteq 1 .. len
        BY <2>1
      <4> QED
        BY <1>2, <2>1, <4>1
    <3>2. {j \in 1 .. i - 1 : more[i] - more[j] < Window} = {j \in 1 .. i - 1 : times[i] - times[j] < Window}
      BY <3>1
    <3> QED
      BY <1>1, <2>1, <3>1, <3>2 DEF Spaced
  <2>2. CASE i = len + 1
    <3>1. {j \in 1 .. i - 1 : more[i] - more[j] < Window} = Limits!Recent(times, t)
      <4>1. more[i] = t /\ i - 1 = len
        BY <1>2, <2>2
      <4>2. \A j \in 1 .. len : more[i] - more[j] < Window <=> times[j] > t - Window
        BY <1>2, <4>1, LimitsAssumption
      <4> QED
        BY <1>2, <4>1, <4>2 DEF Limits!Recent
    <3>2. f = n
      BY <3>1, SameCount
    <3>3. Limits!Recent(times, t) # {}
      <4>1. f # 0
        BY LimitsAssumption
      <4> QED
        BY <3>1, <4>1, FS_EmptySet
    <3>4. PICK k \in 1 .. len : last = times[k] /\ times[k] > t - Window
      BY <1>2, <3>3 DEF Limits!Reading, Limits!Recent
    <3>5. times[k] <= times[len] /\ len \in 1 .. len
      <4>1. len \in 1 .. len /\ k <= len
        BY <1>1, <3>4
      <4> QED
        BY <1>2, <3>4, <4>1 DEF Ordered
    <3>6. len \in Limits!Recent(times, t)
      BY <1>2, <3>4, <3>5, LimitsAssumption DEF Limits!Recent
    <3>7. times[len] <= last
      BY <3>3, <3>6 DEF Limits!Reading
    <3>8. times[len] = last
      BY <1>2, <3>4, <3>5, <3>7
    <3>9. last + Limits!Delay(n) - t <= 0 /\ Limits!Delay(n) \in Int
      BY <3>2, RemainingType, DelayType
    <3>10. more[i] - more[i - 1] >= Limits!Delay(n)
      <4>1. more[i] = t /\ i - 1 = len /\ more[len] = times[len]
        BY <1>2, <2>2, <3>5
      <4> QED
        BY <3>8, <3>9, <4>1
    <3> QED
      BY <3>2, <3>10 DEF Limits!Delay
  <2> QED
    BY <1>2, <2>1, <2>2
<1> QED
  BY <1>1, <1>3, <1>4

\* With the same log, a later reading never gives a later end of the delay.
LEMMA EndsNoLater ==
  ASSUME NEW times \in Seq(Nat),
         NEW t1 \in Nat, NEW n1 \in Nat, NEW last1 \in Nat, Limits!Reading(times, t1, n1, last1),
         NEW t2 \in Nat, NEW n2 \in Nat, NEW last2 \in Nat, Limits!Reading(times, t2, n2, last2),
         t1 <= t2, n2 >= Limit
  PROVE  n1 >= Limit /\ last2 + Limits!Delay(n2) <= last1 + Limits!Delay(n1)
<1>1. Limits!Recent(times, t2) \subseteq Limits!Recent(times, t1)
  BY LimitsAssumption DEF Limits!Recent
<1>2. n2 <= n1
  <2>1. Cardinality(Limits!Recent(times, t2)) <= Cardinality(Limits!Recent(times, t1))
    BY <1>1, RecentFinite, FS_Subset
  <2> QED
    BY <2>1, SameCount
<1>3. Limits!Recent(times, t2) # {}
  <2>1. n2 # 0
    BY LimitsAssumption
  <2> QED
    BY <2>1, FS_EmptySet, SameCount
<1>4. last2 <= last1
  BY <1>1, <1>3 DEF Limits!Reading
<1>5. Limits!Delay(n2) <= Limits!Delay(n1) /\ Limits!Delay(n2) \in Int /\ Limits!Delay(n1) \in Int
  BY <1>2, DelayMonotone, DelayType
<1> QED
  BY <1>2, <1>4, <1>5, LimitsAssumption

(***************************************************************************)
(* The invariant                                                           *)
(***************************************************************************)

\* What an attempt has read of a log still is what it would read there at the same time.
ReadOK(times, r, time) ==
  /\ r.n \in 0 .. Len(times)
  /\ r.last \in {times[i] : i \in DOMAIN times} \cup {0}
  /\ Limits!Reading(times, r.at, r.n, r.last)
  /\ Past(times, r.at)
  /\ r.at <= time

ReqOK(q) ==
  LET r == req[q] IN
  /\ r.pc # "idle" => r.account \in Accounts
  /\ r.pc \in {"waiting", "holding", "deciding", "committing"} => r.account \in users
  /\ r.pc \in {"holding", "deciding", "committing"} => lock[Key[r.account]] = q
  /\ r.pc \in {"deciding", "committing"} =>
       /\ ReadOK(log[r.account], r, now)
       /\ Left(r) > 0 /\ promise[r.account] # None => r.at < promise[r.account]
  /\ r.pc = "committing" /\ r.outcome = "throttled" => Left(r) > 0
  /\ r.pc = "committing" /\ r.outcome = "counted" => Left(r) <= 0

\* A promise is not sooner than the end of the delay by some reading of these times.
PromiseOK(times, p, time) ==
  p # None =>
    \E t \in 0 .. time, n \in Nat, last \in Nat :
      Limits!Reading(times, t, n, last) /\ n >= Limit /\ last + Limits!Delay(n) <= p

LogOK(a) ==
  /\ a \notin users => log[a] = <<>> /\ promise[a] = None
  /\ Past(log[a], now)
  /\ Ordered(log[a])
  /\ Spaced(log[a])
  /\ PromiseOK(log[a], promise[a], now)

IInv ==
  /\ TypeOK
  /\ \A a \in Accounts : LogOK(a)
  /\ \A q \in Requests : ReqOK(q)

LEMMA NoRequestType == NoRequest \in Request
BY DEF NoRequest, Request

LEMMA LogType ==
  ASSUME TypeOK, NEW a \in Accounts
  PROVE  log[a] \in Seq(0 .. MaxTime) /\ log[a] \in Seq(Nat)
<1>1. log[a] \in Seq(0 .. MaxTime)
  BY DEF TypeOK
<1>2. 0 .. MaxTime \subseteq Nat
  OBVIOUS
<1> QED
  BY <1>1, <1>2, SeqMonotonic

LEMMA InitIInv == Init => IInv
<1> SUFFICES ASSUME Init PROVE IInv
  OBVIOUS
<1>1. TypeOK
  BY NoRequestType, LimitsAssumption DEF Init, TypeOK
<1>2. ASSUME NEW a \in Accounts PROVE LogOK(a)
  <2>1. log[a] = <<>> /\ promise[a] = None /\ DOMAIN log[a] = {} /\ Len(log[a]) = 0
    BY <1>2 DEF Init
  <2>2. Spaced(log[a])
    BY <2>1 DEF Spaced
  <2> QED
    BY <2>1, <2>2 DEF LogOK, Past, Ordered, PromiseOK
<1>3. ASSUME NEW q \in Requests PROVE ReqOK(q)
  BY DEF Init, ReqOK, NoRequest
<1> QED
  BY <1>1, <1>2, <1>3 DEF IInv

(***************************************************************************)
(* What a step leaves as it was                                            *)
(***************************************************************************)
LEMMA LogStays ==
  ASSUME IInv, NEW a \in Accounts, now' \in Nat, now <= now', log'[a] = log[a],
         a \in users \/ (a \notin users' /\ promise'[a] = promise[a]), users \subseteq users',
         promise'[a] # promise[a] => PromiseOK(log[a], promise'[a], now')
  PROVE  LogOK(a)'
<1>1. LogOK(a) /\ now \in Nat /\ \A i \in DOMAIN log[a] : log[a][i] \in Nat
  BY LogType, LimitsAssumption DEF IInv, TypeOK
<1>2. Past(log[a], now')
  BY <1>1 DEF LogOK, Past
<1>3. PromiseOK(log[a], promise'[a], now')
  <2>1. CASE promise'[a] = promise[a]
    <3>1. PromiseOK(log[a], promise[a], now) /\ 0 .. now \subseteq 0 .. now'
      BY <1>1 DEF LogOK
    <3>2. PromiseOK(log[a], promise[a], now')
      BY <3>1 DEF PromiseOK
    <3> QED
      BY <2>1, <3>2
  <2>2. CASE promise'[a] # promise[a]
    BY <2>2
  <2> QED
    BY <2>1, <2>2
<1>4. a \notin users' => log'[a] = <<>> /\ promise'[a] = None
  BY <1>1 DEF LogOK
<1>5. Ordered(log'[a]) /\ Spaced(log'[a]) /\ Past(log'[a], now') /\ PromiseOK(log'[a], promise'[a], now')
  BY <1>1, <1>2, <1>3 DEF LogOK
<1> QED
  BY <1>4, <1>5 DEF LogOK

LEMMA ReqStays ==
  ASSUME IInv, NEW p \in Requests, req'[p] = req[p], users \subseteq users', now' \in Nat, now <= now',
         req[p].pc \in {"holding", "deciding", "committing"} =>
           /\ lock'[Key[req[p].account]] = lock[Key[req[p].account]]
           /\ log'[req[p].account] = log[req[p].account]
           /\ promise'[req[p].account] = promise[req[p].account]
  PROVE  ReqOK(p)'
<1>1. ReqOK(p) /\ now \in Nat /\ req[p] \in Request
  BY LimitsAssumption DEF IInv, TypeOK
<1>2. ASSUME req[p].pc \in {"deciding", "committing"} PROVE ReadOK(log[req[p].account], req[p], now')
  BY <1>1, <1>2 DEF ReqOK, ReadOK, Request
<1> QED
  BY <1>1, <1>2 DEF ReqOK

\* Any step but a commit and a new user leaves logs and promises alone.
LEMMA Stays ==
  ASSUME IInv, UNCHANGED <<users, log, promise>>, now' \in Nat, now <= now'
  PROVE  \A a \in Accounts : LogOK(a)'
BY LogStays DEF IInv, LogOK

LEMMA Over ==
  ASSUME IInv, NEW q \in Requests, req' = [req EXCEPT ![q] = NoRequest]
  PROVE  /\ req' \in [Requests -> Request]
         /\ \A p \in Requests \ {q} : req'[p] = req[p]
         /\ ReqOK(q)'
<1>1. req' \in [Requests -> Request] /\ req'[q] = NoRequest /\ \A p \in Requests \ {q} : req'[p] = req[p]
  BY NoRequestType DEF IInv, TypeOK
<1>2. req'[q].pc = "idle"
  BY <1>1 DEF NoRequest
<1>3. ReqOK(q)'
  BY <1>2 DEF ReqOK
<1> QED
  BY <1>1, <1>3

\* Who holds the lock of an account holds it alone.
LEMMA Alone ==
  ASSUME IInv, NEW q \in Requests, NEW p \in Requests \ {q},
         req[q].pc \in {"holding", "deciding", "committing"},
         req[p].pc \in {"holding", "deciding", "committing"}
  PROVE  Key[req[p].account] # Key[req[q].account] /\ req[p].account # req[q].account
BY DEF IInv, ReqOK

(***************************************************************************)
(* The steps that write no log                                             *)
(***************************************************************************)
LEMMA TickIInv == ASSUME IInv, Tick PROVE IInv'
<1>1. /\ now \in Nat /\ now' \in 0 .. MaxTime /\ now' \in Nat /\ now <= now'
      /\ UNCHANGED <<kind, buckets, sweepAt, users, log, lock, req, promise>> /\ answer' = None
  BY LimitsAssumption DEF IInv, TypeOK, Tick
<1>2. \A p \in Requests : ReqOK(p)'
  BY <1>1, ReqStays
<1>3. TypeOK'
  BY <1>1 DEF IInv, TypeOK
<1> QED
  BY <1>1, <1>2, <1>3, Stays DEF IInv

LEMMA RegisterIInv ==
  ASSUME IInv, NEW q \in Requests, NEW a \in Accounts, Register(q, a)
  PROVE  IInv'
<1>1. /\ now \in Nat /\ req \in [Requests -> Request]
      /\ UNCHANGED <<kind, now, buckets, sweepAt, users, log, lock, answer, promise>>
      /\ req' = [req EXCEPT ![q] = [NoRequest EXCEPT !.pc = "registering", !.account = a]]
  BY LimitsAssumption DEF IInv, TypeOK, Register
<1>2. [NoRequest EXCEPT !.pc = "registering", !.account = a] \in Request
  BY NoRequestType DEF Request
<1>3. req' \in [Requests -> Request] /\ \A p \in Requests \ {q} : req'[p] = req[p]
  BY <1>1, <1>2
<1>4. req'[q].pc = "registering" /\ req'[q].account = a
  BY <1>1 DEF NoRequest
<1>5. \A p \in Requests \ {q} : ReqOK(p)'
  BY <1>1, <1>3, ReqStays
<1>6. ReqOK(q)'
  BY <1>4 DEF ReqOK
<1>7. TypeOK'
  BY <1>1, <1>3 DEF IInv, TypeOK
<1> QED
  BY <1>1, <1>5, <1>6, <1>7, Stays DEF IInv

\* A time in whole seconds, rounded up.
LEMMA InSecondsUp ==
  ASSUME NEW d \in Int, d > 0
  PROVE  /\ InSeconds(d) \in Nat /\ InSeconds(d) >= 1 /\ InSeconds(d) <= d
         /\ InSeconds(d) * Second >= d
         /\ (InSeconds(d) - 1) * Second < d
<1>1. Second \in Nat /\ Second > 0
  BY LimitsAssumption
<1>2. PICK w \in Int : w = InSeconds(d) /\ w * Second <= d + Second - 1 /\ d + Second - 1 < w * Second + Second
  BY <1>1, SMT DEF InSeconds
<1>3. w >= 1
  <2>1. CASE w <= 0
    <3>1. w * Second <= 0
      BY <1>1, <2>1, SMT
    <3> QED
      BY <1>1, <1>2, <3>1, SMT
  <2> QED
    BY <2>1
<1>4. (w - 1) * Second = w * Second - Second
  BY <1>1, SMT
<1>5. (w - 1) * Second >= w - 1
  BY <1>1, <1>3, SMT
<1> QED
  BY <1>1, <1>2, <1>3, <1>4, <1>5, SMT

\* The limiter.
LEMMA ConsumeType ==
  ASSUME TypeOK, NEW c \in Clients, Consume(c)
  PROVE  buckets' \in [Clients -> Bucket \cup {None}] /\ sweepAt' \in Nat /\ answer' \in Answer \cup {None}
<1>1. Swept \in [Clients -> Bucket \cup {None}] /\ now \in Nat
  BY LimitsAssumption DEF TypeOK, Swept
<1>2. now + Length \in Nat
  BY <1>1, LimitsAssumption
<1>3. [count |-> 1, resetAt |-> now + Length] \in Bucket
  BY <1>2 DEF Bucket
<1>4. sweepAt' \in Nat
  BY <1>2 DEF Consume, NextSweep, TypeOK
<1>8. answer' \in Answer
  <2>1. PICK wait : answer' = [client |-> c, retryAfter |-> wait]
                    /\ wait = IF Admitted(c) THEN 0 ELSE InSeconds(Swept[c].resetAt - now)
    BY DEF Consume
  <2>2. ASSUME ~Admitted(c) PROVE InSeconds(Swept[c].resetAt - now) \in Nat
    <3>1. Swept[c] \in Bucket /\ Swept[c].resetAt > now
      BY <1>1, <2>2 DEF Admitted, Fresh, Ended, Bucket
    <3>2. Swept[c].resetAt - now \in Int /\ Swept[c].resetAt - now > 0
      BY <1>1, <3>1 DEF Bucket
    <3> QED
      BY <3>2, InSecondsUp
  <2> QED
    BY <2>1, <2>2 DEF Answer
<1>5. CASE Fresh(c)
  <2>1. buckets' = [Swept EXCEPT ![c] = [count |-> 1, resetAt |-> now + Length]]
    BY <1>5 DEF Consume
  <2> QED
    BY <1>1, <1>3, <1>4, <1>8, <2>1
<1>6. CASE ~Fresh(c) /\ Admitted(c)
  <2>1. Swept[c] \in Bucket
    BY <1>1, <1>6 DEF Fresh
  <2>2. [Swept[c] EXCEPT !.count = @ + 1] \in Bucket
    BY <2>1 DEF Bucket
  <2>3. buckets' = [Swept EXCEPT ![c] = [Swept[c] EXCEPT !.count = @ + 1]]
    BY <1>6 DEF Consume
  <2> QED
    BY <1>1, <1>4, <1>8, <2>2, <2>3
<1>7. CASE ~Fresh(c) /\ ~Admitted(c)
  <2>1. buckets' = Swept
    BY <1>7 DEF Consume
  <2> QED
    BY <1>1, <1>4, <1>8, <2>1
<1> QED
  BY <1>5, <1>6, <1>7

LEMMA ArriveIInv ==
  ASSUME IInv, NEW q \in Requests, NEW c \in Clients, NEW a \in Accounts, Arrive(q, c, a)
  PROVE  IInv'
<1>1. /\ now \in Nat /\ req \in [Requests -> Request] /\ a \in users /\ Consume(c)
      /\ UNCHANGED <<kind, now, users, log, lock, promise>>
  BY LimitsAssumption DEF IInv, TypeOK, Arrive
<1>2. buckets' \in [Clients -> Bucket \cup {None}] /\ sweepAt' \in Nat /\ answer' \in Answer \cup {None}
  BY <1>1, ConsumeType DEF IInv
<1>3. /\ req' \in [Requests -> Request]
      /\ \A p \in Requests \ {q} : req'[p] = req[p]
      /\ ReqOK(q)'
  <2>1. CASE req' = [req EXCEPT ![q] = [NoRequest EXCEPT !.pc = "waiting", !.account = a]]
    <3>1. [NoRequest EXCEPT !.pc = "waiting", !.account = a] \in Request
      BY NoRequestType DEF Request
    <3>2. req'[q].pc = "waiting" /\ req'[q].account = a
      BY <1>1, <2>1 DEF NoRequest
    <3>3. ReqOK(q)'
      BY <1>1, <3>2 DEF ReqOK
    <3> QED
      BY <1>1, <2>1, <3>1, <3>3
  <2>2. CASE req' = req
    BY <1>1, <2>2, ReqStays
  <2> QED
    BY <2>1, <2>2 DEF Arrive
<1>4. \A p \in Requests \ {q} : ReqOK(p)'
  BY <1>1, <1>3, ReqStays
<1>5. TypeOK'
  BY <1>1, <1>2, <1>3 DEF IInv, TypeOK
<1> QED
  BY <1>1, <1>3, <1>4, <1>5, Stays DEF IInv

LEMMA LockIInv ==
  ASSUME IInv, NEW q \in Requests, Lock(q)
  PROVE  IInv'
<1>1. /\ now \in Nat /\ req \in [Requests -> Request] /\ req[q] \in Request /\ req[q].pc = "waiting"
      /\ lock \in [Keys -> Requests \cup {None}] /\ ReqOK(q)
      /\ UNCHANGED <<kind, now, buckets, sweepAt, users, log, answer, promise>>
      /\ req' = [req EXCEPT ![q].pc = "holding"]
  BY LimitsAssumption DEF IInv, TypeOK, Lock
<1>2. PICK a \in Accounts, k \in Keys : a = req[q].account /\ a \in users /\ k = Key[a]
  BY <1>1, LimitsAssumption DEF ReqOK
<1>3. lock[k] = None /\ lock' = [lock EXCEPT ![k] = q]
  BY <1>2 DEF Lock
<1>4. [req[q] EXCEPT !.pc = "holding"] \in Request
  BY <1>1 DEF Request
<1>5. req' \in [Requests -> Request] /\ \A p \in Requests \ {q} : req'[p] = req[p]
  BY <1>1, <1>4
<1>6. req'[q].pc = "holding" /\ req'[q].account = a
  BY <1>1, <1>2 DEF Request
<1>7. ReqOK(q)'
  BY <1>1, <1>2, <1>3, <1>6 DEF ReqOK
<1>8. ASSUME NEW p \in Requests \ {q} PROVE ReqOK(p)'
  <2>1. ASSUME req[p].pc \in {"holding", "deciding", "committing"}
        PROVE  lock'[Key[req[p].account]] = lock[Key[req[p].account]]
    <3>1. lock[Key[req[p].account]] = p /\ p # None /\ Key[req[p].account] \in Keys
      BY <2>1, LimitsAssumption DEF IInv, ReqOK
    <3> QED
      BY <1>1, <1>3, <3>1
  <2> QED
    BY <1>1, <1>5, <2>1, ReqStays
<1>9. TypeOK'
  BY <1>1, <1>3, <1>5 DEF IInv, TypeOK
<1> QED
  BY <1>1, <1>7, <1>8, <1>9, Stays DEF IInv

\* The reading of a throttled attempt is one that no promise contradicts.
LEMMA ReadIInv ==
  ASSUME IInv, NEW q \in Requests, Read(q)
  PROVE  IInv'
<1>1. /\ now \in Nat /\ req \in [Requests -> Request] /\ req[q] \in Request /\ req[q].pc = "holding"
      /\ ReqOK(q) /\ promise \in [Accounts -> Nat \cup {None}]
      /\ UNCHANGED <<kind, now, buckets, sweepAt, users, log, lock, answer, promise>>
  BY LimitsAssumption DEF IInv, TypeOK, Read
<1>2. PICK a \in Accounts, times \in Seq(Nat) : a = req[q].account /\ a \in users /\ times = log[a]
  BY <1>1, LogType DEF ReqOK, IInv
<1>3. PICK n \in 0 .. Len(log[req[q].account]),
           last \in {log[req[q].account][i] : i \in DOMAIN log[req[q].account]} \cup {0} :
        /\ Limits!Reading(log[req[q].account], now, n, last)
        /\ req' = [req EXCEPT ![q].pc = "deciding", ![q].n = n, ![q].last = last, ![q].at = now]
  BY DEF Read
<1>4. /\ n \in 0 .. Len(times) /\ last \in {times[i] : i \in DOMAIN times} \cup {0}
      /\ Limits!Reading(times, now, n, last)
      /\ n \in Nat /\ last \in Nat
  <2>1. log[req[q].account] = times
    BY <1>2
  <2>2. n \in 0 .. Len(times) /\ last \in {times[i] : i \in DOMAIN times} \cup {0} /\ Limits!Reading(times, now, n, last)
    BY <1>3, <2>1
  <2> QED
    BY <2>2
<1>5. PICK r \in Request : r = [req[q] EXCEPT !.pc = "deciding", !.n = n, !.last = last, !.at = now]
  <2>1. [req[q] EXCEPT !.pc = "deciding", !.n = n, !.last = last, !.at = now] \in Request
    BY <1>1, <1>4 DEF Request
  <2> QED
    BY <2>1
<1>6. r.pc = "deciding" /\ r.account = a /\ r.n = n /\ r.last = last /\ r.at = now
  BY <1>1, <1>2, <1>5 DEF Request
<1>7. req' = [req EXCEPT ![q] = r]
  BY <1>1, <1>3, <1>5
<1>8. req' \in [Requests -> Request] /\ req'[q] = r /\ \A p \in Requests \ {q} : req'[p] = req[p]
  BY <1>1, <1>7
<1>9. ReadOK(times, r, now)
  <2>1. Past(times, now)
    BY <1>2 DEF IInv, LogOK
  <2> QED
    BY <1>1, <1>4, <1>6, <2>1 DEF ReadOK
<1>10. Left(r) > 0 /\ promise[a] # None => now < promise[a]
  <2> SUFFICES ASSUME Left(r) > 0, promise[a] # None PROVE now < promise[a]
    OBVIOUS
  <2>1. promise[a] \in Nat
    BY <1>1
  <2>2. PICK t1 \in 0 .. now, n1 \in Nat, last1 \in Nat :
          Limits!Reading(times, t1, n1, last1) /\ n1 >= Limit /\ last1 + Limits!Delay(n1) <= promise[a]
    BY <1>2 DEF IInv, LogOK, PromiseOK
  <2>3. n >= Limit /\ last + Limits!Delay(n) - now > 0
    <3>1. Limits!Remaining(n, last, now) > 0
      BY <1>6 DEF Left
    <3>2. /\ n < Limit => Limits!Remaining(n, last, now) = 0
          /\ n >= Limit => Limits!Remaining(n, last, now) = last + Limits!Delay(n) - now
      BY <1>1, <1>4, RemainingType
    <3> QED
      BY <1>4, <3>1, <3>2, LimitsAssumption
  <2>4. t1 \in Nat /\ t1 <= now
    BY <1>1
  <2>5. last + Limits!Delay(n) <= last1 + Limits!Delay(n1)
    BY <1>1, <1>4, <2>2, <2>3, <2>4, EndsNoLater
  <2>6. Limits!Delay(n) \in Int /\ Limits!Delay(n1) \in Int
    BY <1>4, DelayType
  <2> QED
    BY <1>1, <1>4, <2>1, <2>2, <2>3, <2>5, <2>6
<1>11. ReqOK(q)'
  BY <1>1, <1>2, <1>6, <1>8, <1>9, <1>10 DEF ReqOK
<1>12. \A p \in Requests \ {q} : ReqOK(p)'
  BY <1>1, <1>8, ReqStays
<1>13. TypeOK'
  BY <1>1, <1>8 DEF IInv, TypeOK
<1> QED
  BY <1>1, <1>11, <1>12, <1>13, Stays DEF IInv

LEMMA DecideIInv ==
  ASSUME IInv, NEW q \in Requests, NEW outcome \in {"throttled", "counted", "granted"}, Decide(q, outcome),
         outcome = "throttled" => Left(req[q]) > 0, outcome = "counted" => Left(req[q]) <= 0
  PROVE  IInv'
<1>1. /\ now \in Nat /\ req \in [Requests -> Request] /\ req[q] \in Request /\ req[q].pc = "deciding"
      /\ ReqOK(q)
      /\ UNCHANGED <<kind, now, buckets, sweepAt, users, log, lock, answer, promise>>
      /\ req' = [req EXCEPT ![q].pc = "committing", ![q].outcome = outcome]
  BY LimitsAssumption DEF IInv, TypeOK, Decide
<1>2. PICK r \in Request : r = [req[q] EXCEPT !.pc = "committing", !.outcome = outcome]
  <2>1. [req[q] EXCEPT !.pc = "committing", !.outcome = outcome] \in Request
    BY <1>1 DEF Request
  <2> QED
    BY <2>1
<1>3. req' \in [Requests -> Request] /\ req'[q] = r /\ \A p \in Requests \ {q} : req'[p] = req[p]
  BY <1>1, <1>2
<1>4. /\ r.pc = "committing" /\ r.outcome = outcome /\ r.account = req[q].account
      /\ r.n = req[q].n /\ r.last = req[q].last /\ r.at = req[q].at
  BY <1>1, <1>2 DEF Request
<1>5. Left(r) = Left(req[q])
  BY <1>4 DEF Left
<1>6. ReqOK(q)'
  BY <1>1, <1>3, <1>4, <1>5 DEF ReqOK, ReadOK
<1>7. \A p \in Requests \ {q} : ReqOK(p)'
  BY <1>1, <1>3, ReqStays
<1>8. TypeOK'
  BY <1>1, <1>3 DEF IInv, TypeOK
<1> QED
  BY <1>1, <1>6, <1>7, <1>8, Stays DEF IInv

(***************************************************************************)
(* The steps that end a request                                            *)
(***************************************************************************)
LEMMA ReleasedType ==
  ASSUME IInv, NEW q \in Requests, lock' = Released(q)
  PROVE  /\ lock' \in [Keys -> Requests \cup {None}]
         /\ \A p \in Requests \ {q} : req[p].pc \in {"holding", "deciding", "committing"} =>
              lock'[Key[req[p].account]] = lock[Key[req[p].account]]
<1>1. lock \in [Keys -> Requests \cup {None}]
  BY DEF IInv, TypeOK
<1>2. ASSUME NEW p \in Requests \ {q}, req[p].pc \in {"holding", "deciding", "committing"}
      PROVE  lock'[Key[req[p].account]] = lock[Key[req[p].account]]
  <2>1. lock[Key[req[p].account]] = p /\ Key[req[p].account] \in Keys
    BY <1>2, LimitsAssumption DEF IInv, ReqOK
  <2> QED
    BY <2>1 DEF Released
<1> QED
  BY <1>1, <1>2 DEF Released

LEMMA ExpireIInv ==
  ASSUME IInv, NEW q \in Requests, Expire(q)
  PROVE  IInv'
<1>1. /\ now \in Nat /\ UNCHANGED <<kind, now, buckets, sweepAt, users, log, answer, promise>>
      /\ lock' = Released(q) /\ req' = [req EXCEPT ![q] = NoRequest]
  BY LimitsAssumption DEF IInv, TypeOK, Expire
<1>2. \A p \in Requests \ {q} : ReqOK(p)'
  BY <1>1, Over, ReleasedType, ReqStays
<1>3. TypeOK'
  BY <1>1, Over, ReleasedType DEF IInv, TypeOK
<1>4. ReqOK(q)'
  BY <1>1, Over
<1>5. \A a \in Accounts : LogOK(a)'
  BY <1>1, Stays
<1> QED
  BY <1>2, <1>3, <1>4, <1>5 DEF IInv

\* What a COMMIT does, whether or not its answer arrives; the promise is what may differ.
LEMMA CommittedIInv ==
  ASSUME IInv, NEW q \in Requests, req[q].pc = "committing", log' = Recorded(req[q]), lock' = Released(q),
         req' = [req EXCEPT ![q] = NoRequest], UNCHANGED <<kind, now, buckets, sweepAt, users, answer>>,
         promise' \in [Accounts -> Nat \cup {None}],
         \A a \in Accounts :
           /\ log'[a] # log[a] => promise'[a] = None
           /\ a # req[q].account => promise'[a] = promise[a]
           /\ log'[a] = log[a] /\ promise'[a] # promise[a] => PromiseOK(log[a], promise'[a], now)
  PROVE  IInv'
<1>1. /\ now \in Nat /\ now <= MaxTime /\ log \in [Accounts -> Seq(0 .. MaxTime)]
      /\ req[q] \in Request /\ ReqOK(q)
  BY LimitsAssumption DEF IInv, TypeOK
<1>2. PICK b \in Accounts, t \in Nat : b = req[q].account /\ t = req[q].at
  BY <1>1 DEF ReqOK, Request
<1>3. b \in users /\ ReadOK(log[b], req[q], now) /\ t <= now
  BY <1>1, <1>2 DEF ReqOK, ReadOK
<1>4. log' = IF req[q].outcome = "counted" THEN [log EXCEPT ![b] = Append(log[b], t)] ELSE log
  BY <1>2 DEF Recorded
<1>5. \A a \in Accounts \ {b} : log'[a] = log[a] /\ promise'[a] = promise[a]
  BY <1>1, <1>2, <1>4
<1>6. ASSUME NEW a \in Accounts \ {b} PROVE LogOK(a)'
  BY <1>1, <1>5, LogStays
<1>7. /\ log' \in [Accounts -> Seq(0 .. MaxTime)]
      /\ LogOK(b)'
  <2>1. CASE req[q].outcome = "counted"
    <3>1. log[b] \in Seq(0 .. MaxTime) /\ log[b] \in Seq(Nat) /\ t \in 0 .. MaxTime
      BY <1>1, <1>3, LogType, LimitsAssumption DEF IInv
    <3>2. PICK times \in Seq(Nat), more \in Seq(Nat) : times = log[b] /\ more = Append(times, t)
      <4>1. \A s \in Seq(Nat) : Append(s, t) \in Seq(Nat)
        OBVIOUS
      <4> QED
        BY <3>1, <4>1
    <3>3. more \in Seq(0 .. MaxTime)
      BY <3>1, <3>2
    <3>4. log' = [log EXCEPT ![b] = more]
      BY <1>4, <2>1, <3>2
    <3>5. log'[b] = more /\ log' \in [Accounts -> Seq(0 .. MaxTime)]
      BY <1>1, <3>3, <3>4
    <3>6. /\ Past(times, t) /\ Ordered(times) /\ Spaced(times)
          /\ req[q].n \in Nat /\ req[q].last \in Nat
          /\ Limits!Reading(times, t, req[q].n, req[q].last)
          /\ Limits!Remaining(req[q].n, req[q].last, t) <= 0
      <4>1. Left(req[q]) <= 0
        BY <1>1, <2>1 DEF ReqOK
      <4> QED
        BY <1>1, <1>2, <1>3, <3>2, <4>1 DEF ReadOK, IInv, LogOK, Left, Request
    <3>7. Ordered(more) /\ Spaced(more)
      BY <3>2, <3>6, CountedLater
    <3>8. Past(more, now)
      <4>1. \A i \in DOMAIN times : times[i] <= now
        BY <3>2 DEF IInv, LogOK, Past
      <4>2. DOMAIN more = 1 .. Len(times) + 1 /\ more[Len(times) + 1] = t
            /\ \A i \in 1 .. Len(times) : more[i] = times[i] /\ i \in DOMAIN times
        BY <3>2
      <4> QED
        BY <1>3, <4>1, <4>2 DEF Past
    <3>9. promise'[b] = None
      <4>1. Len(more) # Len(times)
        BY <3>2
      <4> QED
        BY <3>2, <3>5, <4>1
    <3> QED
      BY <1>3, <3>5, <3>7, <3>8, <3>9 DEF LogOK, PromiseOK
  <2>2. CASE req[q].outcome # "counted"
    <3>1. log' = log
      BY <1>4, <2>2
    <3>2. LogOK(b)'
      BY <1>1, <1>3, <3>1, LogStays
    <3> QED
      BY <1>1, <3>1, <3>2
  <2> QED
    BY <2>1, <2>2
<1>8. ASSUME NEW p \in Requests \ {q} PROVE ReqOK(p)'
  <2>1. ASSUME req[p].pc \in {"holding", "deciding", "committing"}
        PROVE  req[p].account \in Accounts \ {b}
    BY <1>2, <2>1, Alone DEF IInv, ReqOK
  <2> QED
    BY <1>1, <1>5, <2>1, Over, ReleasedType, ReqStays
<1>9. TypeOK'
  BY <1>7, Over, ReleasedType DEF IInv, TypeOK
<1> QED
  BY <1>6, <1>7, <1>8, <1>9, Over DEF IInv

LEMMA CommitInDoubtIInv ==
  ASSUME IInv, NEW q \in Requests, CommitInDoubt(q)
  PROVE  IInv'
<1>1. promise' = [a \in Accounts |-> IF log'[a] # log[a] THEN None ELSE promise[a]]
  BY DEF CommitInDoubt
<1>2. promise' \in [Accounts -> Nat \cup {None}] /\ \A a \in Accounts : promise[a] \in Nat \cup {None}
  BY <1>1 DEF IInv, TypeOK
<1>3. ASSUME NEW a \in Accounts, a # req[q].account PROVE promise'[a] = promise[a]
  <2>1. log'[a] = log[a]
    BY <1>3 DEF CommitInDoubt, Recorded, IInv, TypeOK
  <2> QED
    BY <1>1, <2>1
<1> QED
  BY <1>1, <1>2, <1>3, CommittedIInv DEF CommitInDoubt

\* Retry-After is rounded up to whole seconds, and to no more.
LEMMA WaitIsEnough ==
  ASSUME NEW r \in Request, Left(r) > 0
  PROVE  /\ Wait(r) \in Nat /\ Wait(r) >= Second /\ Left(r) \in Int /\ Wait(r) - Second < Left(r)
         /\ r.n >= Limit
         /\ r.last + Limits!Delay(r.n) <= r.at + Wait(r)
<1>1. r.n \in Nat /\ r.last \in Nat /\ r.at \in Nat
  BY DEF Request
<1>2. PICK left \in Int : left = Left(r)
  BY <1>1, RemainingType DEF Left
<1>3. Wait(r) \in Nat /\ Wait(r) >= left /\ Wait(r) >= Second /\ Wait(r) - Second < left
  <2>1. Second \in Nat \ {0} /\ left > 0
    BY <1>2, LimitsAssumption
  <2>2. PICK w \in Nat : w = InSeconds(left) /\ w >= 1 /\ w * Second >= left /\ (w - 1) * Second < left
    BY <2>1, InSecondsUp
  <2>3. Wait(r) = w * Second
    BY <1>2, <2>2 DEF Wait
  <2>4. w * Second \in Nat /\ (w - 1) * Second = w * Second - Second /\ w * Second >= Second
    BY <2>1, <2>2, SMT
  <2> QED
    BY <1>2, <2>1, <2>2, <2>3, <2>4
<1>4. r.n >= Limit /\ left = r.last + Limits!Delay(r.n) - r.at
  <2>1. /\ r.n < Limit => left = 0
        /\ r.n >= Limit => left = r.last + Limits!Delay(r.n) - r.at
    BY <1>1, <1>2, RemainingType DEF Left
  <2> QED
    BY <1>1, <1>2, <2>1, LimitsAssumption
<1>5. Limits!Delay(r.n) \in Int
  BY <1>1, DelayType
<1> QED
  BY <1>1, <1>2, <1>3, <1>4, <1>5

LEMMA CommitIInv ==
  ASSUME IInv, NEW q \in Requests, Commit(q)
  PROVE  IInv'
<1>1. /\ req[q] \in Request /\ ReqOK(q) /\ req[q].pc = "committing" /\ promise' = Promised(req[q])
      /\ \A a \in Accounts : promise[a] \in Nat \cup {None}
      /\ now \in Nat
  BY LimitsAssumption DEF IInv, TypeOK, Commit
<1>2. PICK b \in Accounts, t \in Nat : b = req[q].account /\ t = req[q].at /\ t <= now
  BY <1>1 DEF ReqOK, ReadOK, Request
<1>3. ASSUME req[q].outcome = "throttled"
      PROVE  t + Wait(req[q]) \in Nat /\ PromiseOK(log[b], t + Wait(req[q]), now)
  <2>1. Left(req[q]) > 0 /\ Limits!Reading(log[b], t, req[q].n, req[q].last)
    BY <1>1, <1>2, <1>3 DEF ReqOK, ReadOK
  <2>2. /\ Wait(req[q]) \in Nat /\ req[q].n >= Limit
        /\ req[q].last + Limits!Delay(req[q].n) <= t + Wait(req[q])
    BY <1>1, <1>2, <2>1, WaitIsEnough
  <2>3. t \in 0 .. now /\ req[q].n \in Nat /\ req[q].last \in Nat
    BY <1>1, <1>2 DEF Request
  <2> QED
    BY <2>1, <2>2, <2>3 DEF PromiseOK
<1>4. ASSUME NEW a \in Accounts
      PROVE  /\ promise'[a] \in Nat \cup {None}
             /\ log'[a] # log[a] => promise'[a] = None
             /\ a # req[q].account => promise'[a] = promise[a]
             /\ log'[a] = log[a] /\ promise'[a] # promise[a] => PromiseOK(log[a], promise'[a], now)
  <2>1. CASE log'[a] # log[a]
    <3>1. a = req[q].account /\ req[q].outcome = "counted"
      BY <2>1 DEF Commit, Recorded, IInv, TypeOK
    <3>2. promise'[a] = None
      BY <1>1, <2>1, <3>1 DEF Promised
    <3> QED
      BY <2>1, <3>1, <3>2
  <2>2. CASE log'[a] = log[a] /\ req[q].outcome = "throttled" /\ a = b
    <3>1. promise'[a] \in {promise[a], t + Wait(req[q])}
      BY <1>1, <1>2, <2>2 DEF Promised
    <3> QED
      BY <1>1, <1>2, <1>3, <2>2, <3>1
  <2>3. CASE log'[a] = log[a] /\ ~(req[q].outcome = "throttled" /\ a = b)
    <3>1. promise'[a] = promise[a]
      BY <1>1, <1>2, <2>3 DEF Promised
    <3> QED
      BY <1>1, <2>3, <3>1
  <2> QED
    BY <2>1, <2>2, <2>3
<1>5. promise' \in [Accounts -> Nat \cup {None}]
  BY <1>1, <1>4 DEF Promised
<1> QED
  BY <1>1, <1>4, <1>5, CommittedIInv DEF Commit

LEMMA CreateUserIInv ==
  ASSUME IInv, NEW q \in Requests, CreateUser(q)
  PROVE  IInv'
<1>1. /\ now \in Nat /\ now \in 0 .. MaxTime /\ log \in [Accounts -> Seq(0 .. MaxTime)] /\ users \subseteq Accounts
      /\ ReqOK(q) /\ req' = [req EXCEPT ![q] = NoRequest]
      /\ UNCHANGED <<kind, now, buckets, sweepAt, lock, answer, promise>>
  BY LimitsAssumption DEF IInv, TypeOK, CreateUser
<1>2. PICK b \in Accounts : b = req[q].account
  BY <1>1 DEF CreateUser, ReqOK
<1>3. users' = users \cup {b} /\ log' = IF b \in users THEN log ELSE [log EXCEPT ![b] = Append(log[b], now)]
  BY <1>2 DEF CreateUser
<1>4. \A a \in Accounts : a # b \/ b \in users => log'[a] = log[a] /\ (a \in users' => a \in users)
  BY <1>1, <1>3
<1>5. ASSUME NEW a \in Accounts, a # b \/ b \in users PROVE LogOK(a)'
  BY <1>1, <1>3, <1>4, <1>5, LogStays
<1>6. ASSUME b \notin users PROVE LogOK(b)' /\ log' \in [Accounts -> Seq(0 .. MaxTime)]
  <2>1. log[b] = <<>> /\ promise[b] = None
    BY <1>6 DEF IInv, LogOK
  <2>2. PICK more : more = <<now>>
    OBVIOUS
  <2>3. more = Append(log[b], now) /\ Len(more) = 1 /\ DOMAIN more = 1 .. 1 /\ more[1] = now
    BY <2>1, <2>2
  <2>4. more \in Seq(0 .. MaxTime)
    BY <1>1, <2>2
  <2>5. log'[b] = more /\ log' \in [Accounts -> Seq(0 .. MaxTime)]
    BY <1>1, <1>3, <1>6, <2>3, <2>4
  <2>6. Past(more, now) /\ Ordered(more) /\ Spaced(more)
    <3>1. \A i \in 2 .. Len(more) : FALSE
      BY <2>3
    <3> QED
      BY <1>1, <2>3, <3>1 DEF Past, Ordered, Spaced
  <2> QED
    BY <1>1, <1>3, <2>1, <2>5, <2>6 DEF LogOK, PromiseOK
<1>7. \A a \in Accounts : LogOK(a)'
  BY <1>5, <1>6
<1>8. log' \in [Accounts -> Seq(0 .. MaxTime)]
  BY <1>1, <1>3, <1>6
<1>9. ASSUME NEW p \in Requests \ {q} PROVE ReqOK(p)'
  <2>1. ASSUME req[p].pc \in {"holding", "deciding", "committing"}
        PROVE  log'[req[p].account] = log[req[p].account]
    BY <1>4, <2>1 DEF IInv, ReqOK
  <2> QED
    BY <1>1, <1>3, <2>1, Over, ReqStays
<1>10. TypeOK'
  BY <1>1, <1>3, <1>8, Over DEF IInv, TypeOK
<1> QED
  BY <1>1, <1>7, <1>9, <1>10, Over DEF IInv

(***************************************************************************)
(* The invariant holds                                                     *)
(***************************************************************************)
LEMMA NextIInv ==
  ASSUME IInv, [Next]_vars
  PROVE  IInv'
<1>1. CASE Tick
  BY <1>1, TickIInv
<1>2. ASSUME NEW q \in Requests, NEW a \in Accounts, Register(q, a)
      PROVE  IInv'
  BY <1>2, RegisterIInv
<1>3. ASSUME NEW q \in Requests, NEW c \in Clients, NEW a \in Accounts, Arrive(q, c, a)
      PROVE  IInv'
  BY <1>3, ArriveIInv
<1>4. ASSUME NEW q \in Requests, Serve(q)
      PROVE  IInv'
  <2>1. CASE CreateUser(q)
    BY <2>1, CreateUserIInv
  <2>2. CASE Lock(q)
    BY <2>2, LockIInv
  <2>3. CASE Read(q)
    BY <2>3, ReadIInv
  <2>4. CASE Throttle(q)
    BY <2>4, DecideIInv DEF Throttle
  <2>5. CASE Count(q)
    BY <2>5, DecideIInv DEF Count
  <2>6. CASE Grant(q)
    BY <2>6, DecideIInv DEF Grant
  <2>7. CASE Commit(q)
    BY <2>7, CommitIInv
  <2>8. CASE Expire(q)
    BY <2>8, ExpireIInv
  <2>9. CASE CommitInDoubt(q)
    BY <2>9, CommitInDoubtIInv
  <2> QED
    BY <1>4, <2>1, <2>2, <2>3, <2>4, <2>5, <2>6, <2>7, <2>8, <2>9 DEF Serve
<1>5. CASE UNCHANGED vars
  <2>1. now \in Nat /\ now' \in Nat /\ now <= now' /\ UNCHANGED vars
    BY <1>5, LimitsAssumption DEF vars, IInv, TypeOK
  <2>2. \A q \in Requests : ReqOK(q)'
    BY <2>1, ReqStays DEF vars
  <2>3. \A a \in Accounts : LogOK(a)'
    BY <2>1, Stays DEF vars
  <2>4. TypeOK'
    BY <2>1 DEF vars, IInv, TypeOK
  <2> QED
    BY <2>2, <2>3, <2>4 DEF IInv
<1> QED
  BY <1>1, <1>2, <1>3, <1>4, <1>5 DEF Next

LEMMA Invariance == Spec => []IInv
<1>1. Init => IInv
  BY InitIInv
<1>2. IInv /\ [Next]_vars => IInv'
  BY NextIInv
<1> QED
  BY <1>1, <1>2, PTL DEF Spec

\* The variables keep their types.
THEOREM LimitsTypeCorrect == Spec => []TypeOK
<1>1. IInv => TypeOK
  BY DEF IInv
<1> QED
  BY <1>1, Invariance, PTL

(***************************************************************************)
(* Any two events of an account that count are at least the delay of       *)
(* ADR-002 apart, however many attempts run at once and wherever they fail *)
(* (runLoginAttempt(), remainingProgressiveDelayMs()).                     *)
(***************************************************************************)
THEOREM DelayCorrect == Spec => []DelayHolds
<1>1. IInv => DelayHolds
  BY DEF IInv, LogOK, Spaced, DelayHolds
<1> QED
  BY <1>1, Invariance, PTL

(***************************************************************************)
(* An attempt after the time that a Retry-After named is never told to     *)
(* wait, unless something was counted after the answer (login()).          *)
(***************************************************************************)
THEOREM RetryAfterCorrect == Spec => []RetryAfterEnough
<1>1. IInv => RetryAfterEnough
  BY DEF IInv, ReqOK, RetryAfterEnough
<1> QED
  BY <1>1, Invariance, PTL

\* As long as what remains of a delay is not over, it is a delay.
LEMMA StillDelayed ==
  ASSUME NEW n \in Nat, NEW last \in Nat, NEW t \in Nat, NEW wait \in Nat, n >= Limit, wait >= Second,
         wait - Second < Limits!Remaining(n, last, t)
  PROVE  Limits!Remaining(n, last, t + wait - Second) > 0
<1>1. Second \in Nat /\ t + wait - Second \in Nat
  BY LimitsAssumption
<1>2. PICK u \in Nat : u = t + wait - Second
  BY <1>1
<1>3. PICK delay \in Int : delay = Limits!Delay(n)
  BY DelayType
<1>4. Limits!Remaining(n, last, t) = last + delay - t
  BY <1>3, RemainingType
<1>5. Limits!Remaining(n, last, u) = last + delay - u
  BY <1>3, RemainingType
<1> QED
  BY <1>1, <1>2, <1>4, <1>5

(***************************************************************************)
(* A second less than a Retry-After said would not do, by the events that  *)
(* were counted: the rounding of the seconds adds less than one (login()). *)
(***************************************************************************)
THEOREM RetryAfterTightCorrect == Spec => []RetryAfterTight
<1>1. IInv => RetryAfterTight
  <2> SUFFICES ASSUME IInv, NEW q \in Requests, req[q].pc = "committing", req[q].outcome = "throttled",
                      NEW r, r = req[q], NEW times, times = log[r.account],
                      NEW wait, wait = Wait(r),
                      NEW early, early = r.at + wait - Second,
                      Limits!Recent(times, early) = Limits!Recent(times, r.at),
                      NEW n \in 0 .. Len(times), NEW last \in 0 .. MaxTime,
                      Limits!Reading(times, early, n, last)
               PROVE  Limits!Remaining(n, last, early) > 0
    BY DEF RetryAfterTight
  <2>1. r \in Request /\ r.n \in Nat /\ r.last \in Nat /\ r.at \in Nat /\ Second \in Nat
    BY LimitsAssumption DEF IInv, TypeOK, Request
  <2>2. Left(r) > 0 /\ Limits!Reading(times, r.at, r.n, r.last)
    BY DEF IInv, ReqOK, ReadOK
  <2>3. wait \in Nat /\ wait >= Second /\ wait - Second < Left(r) /\ r.n >= Limit
    BY <2>1, <2>2, WaitIsEnough
  <2>4. n = r.n
    BY <2>2 DEF Limits!Reading
  <2>5. Limits!Recent(times, r.at) # {}
    <3>1. SUFFICES ASSUME Limits!Recent(times, r.at) = {} PROVE FALSE
      OBVIOUS
    <3>2. r.n = 0
      BY <2>2, <3>1, FS_EmptySet DEF Limits!Reading, Limits!Cardinality, Cardinality
    <3> QED
      BY <2>3, <3>2, LimitsAssumption
  <2>6. last = r.last
    <3>1. times \in Seq(Nat)
      BY LogType DEF IInv, ReqOK
    <3>2. \A i \in Limits!Recent(times, r.at) : times[i] \in Nat
      BY <3>1 DEF Limits!Recent
    <3>3. /\ \E i \in Limits!Recent(times, r.at) : last = times[i]
          /\ \A i \in Limits!Recent(times, r.at) : times[i] <= last
      BY <2>5 DEF Limits!Reading
    <3>4. /\ \E i \in Limits!Recent(times, r.at) : r.last = times[i]
          /\ \A i \in Limits!Recent(times, r.at) : times[i] <= r.last
      BY <2>2, <2>5 DEF Limits!Reading
    <3> QED
      BY <2>1, <3>2, <3>3, <3>4
  <2>7. wait - Second < Limits!Remaining(r.n, r.last, r.at)
    BY <2>3 DEF Left
  <2>8. Limits!Remaining(r.n, r.last, r.at + wait - Second) > 0
    BY <2>1, <2>3, <2>7, StillDelayed
  <2> QED
    BY <2>4, <2>6, <2>8
<1> QED
  BY <1>1, Invariance, PTL

(***************************************************************************)
(* One attempt at a time                                                   *)
(***************************************************************************)
LEMMA LetIn ==
  ASSUME IInv, NEW q \in Requests, req[q].pc = "committing", log' = Recorded(req[q])
  PROVE  [Limits!Next]_log
<1>1. ReqOK(q) /\ log \in [Accounts -> Seq(0 .. MaxTime)] /\ now \in 0 .. MaxTime /\ req[q] \in Request
  BY DEF IInv, TypeOK
<1>2. CASE req[q].outcome = "counted"
  <2>1. PICK a \in Accounts, t \in 0 .. MaxTime : a = req[q].account /\ t = req[q].at
    BY <1>1, LimitsAssumption DEF ReqOK, ReadOK, Request
  <2>2. ReadOK(log[a], req[q], now) /\ Left(req[q]) <= 0
    BY <1>1, <1>2, <2>1 DEF ReqOK
  <2>3. Limits!Attempt(a, t)
    BY <1>2, <2>1, <2>2 DEF Limits!Attempt, ReadOK, Past, Left, Recorded
  <2> QED
    BY <2>3 DEF Limits!Next
<1>3. CASE req[q].outcome # "counted"
  BY <1>3 DEF Recorded
<1> QED
  BY <1>2, <1>3

\* A new user's first email is let in, as nothing was counted before.
LEMMA FirstLetIn ==
  ASSUME IInv, NEW q \in Requests, CreateUser(q)
  PROVE  [Limits!Next]_log
<1>1. ReqOK(q) /\ log \in [Accounts -> Seq(0 .. MaxTime)] /\ now \in 0 .. MaxTime
  BY DEF IInv, TypeOK
<1>2. PICK a \in Accounts : a = req[q].account
  BY <1>1 DEF CreateUser, ReqOK
<1>3. CASE a \in users
  BY <1>2, <1>3 DEF CreateUser
<1>4. CASE a \notin users
  <2>1. log' = [log EXCEPT ![a] = Append(@, now)]
    BY <1>2, <1>4 DEF CreateUser
  <2>2. log[a] = <<>> /\ DOMAIN log[a] = {} /\ Len(log[a]) = 0
    BY <1>4 DEF IInv, LogOK
  <2>3. Limits!Recent(log[a], now) = {}
    BY <2>2 DEF Limits!Recent
  <2>4. Limits!Reading(log[a], now, 0, 0)
    <3>1. Limits!Cardinality({}) = Cardinality({})
      BY DEF Limits!Cardinality, Cardinality
    <3> QED
      BY <2>3, <3>1, FS_EmptySet DEF Limits!Reading
  <2>5. Limits!Remaining(0, 0, now) <= 0
    BY <1>1, RemainingType, LimitsAssumption
  <2>6. Limits!Attempt(a, now)
    BY <2>1, <2>2, <2>4, <2>5 DEF Limits!Attempt
  <2> QED
    BY <1>1, <2>6 DEF Limits!Next
<1> QED
  BY <1>3, <1>4

(***************************************************************************)
(* LoginLimits implements AttemptLimits: concurrent attempts under their   *)
(* locks count as attempts that are made one at a time (runLoginAttempt(), *)
(* runEmailVerificationResend(), runPasswordResetRequest()).               *)
(***************************************************************************)
THEOREM OneAtATimeCorrect == Spec => OneAtATime
<1>1. Init => Limits!Init
  BY DEF Init, Limits!Init
<1>2. IInv /\ [Next]_vars => [Limits!Next]_log
  <2> SUFFICES ASSUME IInv, [Next]_vars PROVE [Limits!Next]_log
    OBVIOUS
  <2>1. CASE UNCHANGED log
    BY <2>1
  <2>2. ASSUME NEW q \in Requests, Commit(q) \/ CommitInDoubt(q) PROVE [Limits!Next]_log
    BY <2>2, LetIn DEF Commit, CommitInDoubt
  <2>3. ASSUME NEW q \in Requests, CreateUser(q) PROVE [Limits!Next]_log
    BY <2>3, FirstLetIn
  <2>4. \/ UNCHANGED log
        \/ \E q \in Requests : Commit(q) \/ CommitInDoubt(q) \/ CreateUser(q)
    BY DEF Next, vars, Tick, Register, Arrive, Serve, Lock, Read, Throttle, Count, Grant, Decide, Expire
  <2> QED
    BY <2>1, <2>2, <2>3, <2>4
<1> QED
  BY <1>1, <1>2, Invariance, PTL DEF Spec, OneAtATime, Limits!Spec

(***************************************************************************)
(* The limiter of an IP                                                    *)
(***************************************************************************)
\* The steps that concern it.
LEMMA LimiterSteps ==
  ASSUME [Next]_vars
  PROVE  \/ UNCHANGED <<now, buckets, answer>> /\ UNCHANGED sweepAt
         \/ \E q \in Requests, c \in Clients, a \in Accounts : Arrive(q, c, a)
         \/ Tick
BY DEF Next, vars, Register, Serve, CreateUser, Lock, Read, Throttle, Count, Grant, Decide,
       Commit, CommitInDoubt, Expire

LEMMA ConsumeAnswers ==
  ASSUME TypeOK, NEW c \in Clients, Consume(c), UNCHANGED now
  PROVE  PerClient!Next
<1>1. now \in Nat /\ buckets \in [Clients -> Bucket \cup {None}] /\ Length \in Nat \ {0}
  BY LimitsAssumption DEF TypeOK
<1>2. PICK swept \in [Clients -> Bucket \cup {None}] : swept = Swept
  BY <1>1 DEF Swept
<1>3. \A d \in Clients :
        Windows[d] = IF swept[d] # None /\ swept[d].resetAt > now THEN swept[d] ELSE None
  BY <1>1, <1>2 DEF Windows, Swept, Ended, Bucket
<1>4. Windows' = [d \in Clients |->
                    IF buckets'[d] # None /\ buckets'[d].resetAt > now THEN buckets'[d] ELSE None]
  BY DEF Windows
<1>5. CASE Fresh(c)
  <2>1. PICK b : b = [count |-> 1, resetAt |-> now + Length]
    OBVIOUS
  <2>2. buckets' = [swept EXCEPT ![c] = b] /\ b.resetAt > now
    BY <1>1, <1>2, <1>5, <2>1 DEF Consume
  <2>3. Windows[c] = None
    BY <1>1, <1>2, <1>3, <1>5 DEF Fresh, Ended, Bucket
  <2>4. Windows'[c] = b /\ \A d \in Clients \ {c} : Windows'[d] = Windows[d]
    BY <1>2, <1>3, <1>4, <2>2
  <2>5. Windows' = [Windows EXCEPT ![c] = b]
    BY <1>4, <2>4 DEF Windows
  <2>6. answer' = [client |-> c, retryAfter |-> 0]
    BY <1>5 DEF Consume, Admitted
  <2> QED
    BY <2>1, <2>3, <2>5, <2>6 DEF PerClient!Next, PerClient!Admit
<1>6. CASE ~Fresh(c) /\ Admitted(c)
  <2>1. swept[c] \in Bucket /\ swept[c] # None /\ swept[c].resetAt > now /\ swept[c].count < Max
    BY <1>1, <1>2, <1>6 DEF Fresh, Ended, Admitted, Bucket
  <2>2. PICK b \in Bucket : b = [swept[c] EXCEPT !.count = @ + 1]
    <3>1. [swept[c] EXCEPT !.count = @ + 1] \in Bucket
      BY <2>1 DEF Bucket
    <3> QED
      BY <3>1
  <2>3. buckets' = [swept EXCEPT ![c] = b] /\ b.resetAt = swept[c].resetAt
    BY <1>2, <1>6, <2>1, <2>2 DEF Consume, Bucket
  <2>4. Windows[c] = swept[c] /\ Windows'[c] = (IF b # None THEN b ELSE None)
    BY <1>2, <1>3, <1>4, <2>1, <2>3
  <2>5. Windows'[c] = b /\ \A d \in Clients \ {c} : Windows'[d] = Windows[d]
    BY <1>2, <1>3, <1>4, <2>3, <2>4
  <2>6. Windows' = [Windows EXCEPT ![c] = b]
    BY <1>4, <2>5 DEF Windows
  <2>7. Windows' = [Windows EXCEPT ![c].count = @ + 1]
    BY <2>2, <2>4, <2>6
  <2>8. answer' = [client |-> c, retryAfter |-> 0]
    BY <1>6 DEF Consume
  <2> QED
    BY <2>1, <2>4, <2>7, <2>8 DEF PerClient!Next, PerClient!Admit
<1>7. CASE ~Fresh(c) /\ ~Admitted(c)
  <2>1. buckets' = swept
    BY <1>2, <1>7 DEF Consume
  <2>2. Windows' = Windows
    BY <1>3, <1>4, <2>1 DEF Windows
  <2>3. swept[c] \in Bucket /\ swept[c] # None /\ swept[c].resetAt > now /\ swept[c].count >= Max
    BY <1>1, <1>2, <1>7, LimitsAssumption DEF Fresh, Ended, Admitted, Bucket
  <2>4. Windows[c] = swept[c]
    BY <1>3, <2>3
  <2>5. PICK left \in Int : left = swept[c].resetAt - now /\ left > 0 /\ swept[c].resetAt = now + left
    BY <1>1, <2>3 DEF Bucket
  <2>6. PICK wait \in 1 .. left :
          /\ wait = InSeconds(left) /\ wait \in Nat
          /\ wait * Second >= left /\ (wait - 1) * Second < left
    BY <2>5, InSecondsUp
  <2>7. answer' = [client |-> c, retryAfter |-> wait]
    BY <1>2, <1>7, <2>5, <2>6 DEF Consume
  <2>8. wait * Second \in Int /\ (wait - 1) * Second \in Int
    BY <2>6, LimitsAssumption
  <2>9. now + wait * Second >= now + left /\ now + (wait - 1) * Second < now + left
    BY <1>1, <2>5, <2>6, <2>8
  <2>10. wait \in 1 .. Windows[c].resetAt - now
    BY <2>4, <2>5, <2>6
  <2>11. PerClient!Refuse(c)
    BY <2>2, <2>3, <2>4, <2>5, <2>7, <2>9, <2>10 DEF PerClient!Refuse
  <2> QED
    BY <2>11 DEF PerClient!Next
<1> QED
  BY <1>5, <1>6, <1>7

LEMMA TickPasses ==
  ASSUME TypeOK, Tick
  PROVE  PerClient!Next
<1>1. now \in Nat /\ now' \in now + 1 .. MaxTime /\ buckets \in [Clients -> Bucket \cup {None}]
      /\ buckets' = buckets /\ answer' = None /\ MaxTime \in Nat
  BY LimitsAssumption DEF TypeOK, Tick
<1>2. now' > now /\ now' \in Nat
  BY <1>1
<1>3. Windows' = [c \in Clients |->
                    IF buckets[c] # None /\ buckets[c].resetAt > now' THEN buckets[c] ELSE None]
  BY <1>1 DEF Windows
<1>4. \A c \in Clients : Windows[c] # None /\ Windows[c].resetAt > now'
                           <=> buckets[c] # None /\ buckets[c].resetAt > now'
  BY <1>1, <1>2 DEF Windows, Bucket
<1>5. \A c \in Clients : buckets[c] # None /\ buckets[c].resetAt > now' => Windows[c] = buckets[c]
  BY <1>1, <1>2 DEF Windows, Bucket
<1>6. Windows' = PerClient!Lasting(now')
  BY <1>3, <1>4, <1>5 DEF PerClient!Lasting
<1> QED
  BY <1>1, <1>6 DEF PerClient!Next, PerClient!Pass

(***************************************************************************)
(* LoginLimits implements FixedWindow, answer by answer: however the       *)
(* buckets are swept, a client is let in, refused and told how long to     *)
(* wait as the promise says (consume(), sweepExpired()).                   *)
(***************************************************************************)
THEOREM LimiterAnswersCorrect == Spec => LimiterAnswers
<1>1. Init => PerClient!Init
  BY LimitsAssumption DEF Init, PerClient!Init, Windows
<1>2. TypeOK /\ [Next]_vars => [PerClient!Next]_<<now, Windows, answer>>
  <2> SUFFICES ASSUME TypeOK, [Next]_vars PROVE [PerClient!Next]_<<now, Windows, answer>>
    OBVIOUS
  <2>1. CASE UNCHANGED <<now, buckets, answer>>
    BY <2>1 DEF Windows
  <2>2. ASSUME NEW q \in Requests, NEW c \in Clients, NEW a \in Accounts, Arrive(q, c, a)
        PROVE  [PerClient!Next]_<<now, Windows, answer>>
    BY <2>2, ConsumeAnswers DEF Arrive
  <2>3. CASE Tick
    BY <2>3, TickPasses
  <2> QED
    BY <2>1, <2>2, <2>3, LimiterSteps
<1> QED
  BY <1>1, <1>2, LimitsTypeCorrect, PTL DEF Spec, LimiterAnswers, PerClient!Spec

(***************************************************************************)
(* The buckets in memory                                                   *)
(***************************************************************************)

\* No bucket had ended when the last sweep was made, a window before the next; requests are answered
\* before that one is due.
KeptInv ==
  /\ sweepAt <= now + Length
  /\ \A c \in Clients : buckets[c] # None => sweepAt < buckets[c].resetAt + Length
  /\ answer # None => now < sweepAt

LEMMA ConsumeKept ==
  ASSUME TypeOK, KeptInv, NEW c \in Clients, Consume(c), UNCHANGED now
  PROVE  KeptInv'
<1>1. now \in Nat /\ sweepAt \in Nat /\ buckets \in [Clients -> Bucket \cup {None}] /\ Length \in Nat /\ Length > 0
  BY LimitsAssumption DEF TypeOK
<1>2. /\ sweepAt' = IF now < sweepAt THEN sweepAt ELSE now + Length
      /\ sweepAt' \in Nat /\ now < sweepAt' /\ sweepAt' <= now + Length
  BY <1>1 DEF Consume, NextSweep, KeptInv
<1>3. PICK swept \in [Clients -> Bucket \cup {None}] : swept = Swept
  BY <1>1 DEF Swept
<1>4. \A d \in Clients : swept[d] # None => swept[d] \in Bucket /\ sweepAt' < swept[d].resetAt + Length
  <2>1. CASE now < sweepAt
    BY <1>1, <1>2, <1>3, <2>1 DEF Swept, KeptInv
  <2>2. CASE ~(now < sweepAt)
    <3>1. \A d \in Clients : swept[d] # None => swept[d] \in Bucket /\ swept[d].resetAt > now
      BY <1>1, <1>3, <2>2 DEF Swept, Ended, Bucket
    <3> QED
      BY <1>1, <1>2, <2>2, <3>1 DEF Bucket
  <2> QED
    BY <2>1, <2>2
<1>5. ASSUME NEW d \in Clients, buckets'[d] # None PROVE sweepAt' < buckets'[d].resetAt + Length
  <2>1. CASE buckets'[d] = swept[d]
    BY <1>4, <1>5, <2>1
  <2>2. CASE d = c /\ Fresh(c)
    <3>1. buckets'[d].resetAt = now + Length
      BY <1>3, <2>2 DEF Consume
    <3> QED
      BY <1>1, <1>2, <3>1
  <2>3. CASE d = c /\ ~Fresh(c) /\ Admitted(c)
    <3>1. swept[c] # None /\ swept[c] \in Bucket
      BY <1>3, <1>4, <2>3 DEF Fresh
    <3>2. buckets'[d].resetAt = swept[c].resetAt
      BY <1>3, <2>3, <3>1 DEF Consume, Bucket
    <3> QED
      BY <1>4, <3>1, <3>2
  <2> QED
    BY <1>3, <2>1, <2>2, <2>3 DEF Consume
<1> QED
  BY <1>2, <1>5 DEF KeptInv

(***************************************************************************)
(* Whatever the clients, the buckets kept after a request are those of two *)
(* windows at most (sweepExpired()).                                       *)
(***************************************************************************)
THEOREM NothingKeptLongCorrect == Spec => []NothingKeptLong
<1>1. Init => KeptInv
  BY LimitsAssumption DEF Init, KeptInv
<1>2. TypeOK /\ KeptInv /\ [Next]_vars => KeptInv'
  <2> SUFFICES ASSUME TypeOK, KeptInv, [Next]_vars PROVE KeptInv'
    OBVIOUS
  <2>1. CASE UNCHANGED <<now, buckets, answer>> /\ UNCHANGED sweepAt
    BY <2>1 DEF KeptInv
  <2>2. ASSUME NEW q \in Requests, NEW c \in Clients, NEW a \in Accounts, Arrive(q, c, a)
        PROVE  KeptInv'
    BY <2>2, ConsumeKept DEF Arrive
  <2>3. CASE Tick
    <3>1. now \in Nat /\ now' \in Nat /\ now < now' /\ sweepAt \in Nat /\ Length \in Nat
          /\ buckets' = buckets /\ sweepAt' = sweepAt /\ answer' = None
      BY <2>3, LimitsAssumption DEF Tick, TypeOK
    <3>2. sweepAt <= now' + Length
      <4>1. \A s, t, u, l \in Nat : s <= t + l /\ t < u => s <= u + l
        OBVIOUS
      <4>2. sweepAt <= now + Length
        BY DEF KeptInv
      <4> QED
        BY <3>1, <4>1, <4>2
    <3>3. \A c \in Clients : buckets[c] # None => sweepAt < buckets[c].resetAt + Length
      BY DEF KeptInv
    <3> QED
      BY <3>1, <3>2, <3>3, Zenon DEF KeptInv
  <2> QED
    BY <2>1, <2>2, <2>3, LimiterSteps
<1>3. TypeOK /\ KeptInv => NothingKeptLong
  BY LimitsAssumption DEF KeptInv, NothingKeptLong, TypeOK, Bucket
<1> QED
  BY <1>1, <1>2, <1>3, LimitsTypeCorrect, PTL DEF Spec

=============================================================================
