--------------------------- MODULE AttemptLimits ---------------------------
(***************************************************************************)
(* What the limit per account promises (ADR-002, D3; docs/API_SPEC.md,     *)
(* "Rate limits"): attempts one at a time, each of them one step, let in   *)
(* by all the earlier ones.                                                *)
(*                                                                         *)
(* Only the attempts that count are seen, by their times: failed logins,   *)
(* verification emails, requests of a reset.                               *)
(***************************************************************************)
EXTENDS Integers, FiniteSets, Sequences

CONSTANTS
  Accounts,  \* what is limited: emails (by their hash) or users
  Limit,     \* how many events bring the delay
  Base,      \* LOGIN_DELAY_BASE_MS, baseMs
  Cap,       \* LOGIN_DELAY_CAP_MS, capMs
  Window,    \* accountLoginWindowMs, windowMs
  Times      \* the instants PostgreSQL's clock may show

\* For each account, the times of the events that count, in the order of their commits.
VARIABLE log

-----------------------------------------------------------------------------
\* The events in the window that ends at t.
Recent(times, t) == {i \in DOMAIN times : times[i] > t - Window}

\* min(base * 2 ^ (n - limit), cap)
Delay(n) == IF Base * 2 ^ (n - Limit) < Cap THEN Base * 2 ^ (n - Limit) ELSE Cap

\* Mutant of Remaining: the delay begins one event late.
RemainingLate(n, last, t) == IF n <= Limit THEN 0 ELSE last + Delay(n) - t

\* remainingLoginDelayMs(), remainingProgressiveDelayMs(): n events, the last one at last.
Remaining(n, last, t) == IF n < Limit THEN 0 ELSE last + Delay(n) - t

\* What an attempt at t is told of an account: how many events, and when the last one was.
Reading(times, t, n, last) ==
  /\ n = Cardinality(Recent(times, t))
  /\ \/ Recent(times, t) = {} /\ last = 0
     \/ /\ \E i \in Recent(times, t) : last = times[i]
        /\ \A i \in Recent(times, t) : times[i] <= last

-----------------------------------------------------------------------------
Init == log = [a \in Accounts |-> <<>>]

\* An attempt of a, at t, that is let in and counts.
Attempt(a, t) ==
  /\ \A i \in DOMAIN log[a] : log[a][i] <= t
  /\ \E n \in 0 .. Len(log[a]), last \in {log[a][i] : i \in DOMAIN log[a]} \cup {0} :
       Reading(log[a], t, n, last) /\ Remaining(n, last, t) <= 0
  /\ log' = [log EXCEPT ![a] = Append(@, t)]

Next == \E a \in Accounts, t \in Times : Attempt(a, t)

Spec == Init /\ [][Next]_log

=============================================================================
