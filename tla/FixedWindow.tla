---------------------------- MODULE FixedWindow ----------------------------
(***************************************************************************)
(* What a limiter per IP promises, by its answers: a window of Length      *)
(* starts with a client's first request and lets Max requests through; the *)
(* others are refused until it ends, and told when that is.  A window that *)
(* has ended decides nothing.                                              *)
(***************************************************************************)
EXTENDS Integers

CONSTANTS Clients, Max, Length, Second, MaxTime, None

VARIABLES
  now,
  window,  \* the window of each client, None if it has none or it has ended
  answer   \* what was answered last at this instant, and to whom; a Retry-After of 0 lets it in

\* The windows that have not ended at t.
Lasting(t) == [c \in Clients |->
                 IF window[c] # None /\ window[c].resetAt > t THEN window[c] ELSE None]

Init == now \in 0 .. MaxTime /\ window = [c \in Clients |-> None] /\ answer = None

Pass == /\ now' \in now + 1 .. MaxTime
        /\ window' = Lasting(now')
        /\ answer' = None

Admit(c) ==
  /\ \/ window[c] = None /\ window' = [window EXCEPT ![c] = [count |-> 1, resetAt |-> now + Length]]
     \/ /\ window[c] # None
        /\ window[c].count < Max
        /\ window' = [window EXCEPT ![c].count = @ + 1]
  /\ answer' = [client |-> c, retryAfter |-> 0]
  /\ UNCHANGED now

\* The least number of whole seconds that reaches the end of the window.
Refuse(c) ==
  /\ window[c] # None
  /\ window[c].count >= Max
  /\ \E wait \in 1 .. window[c].resetAt - now :
       /\ now + wait * Second >= window[c].resetAt
       /\ now + (wait - 1) * Second < window[c].resetAt
       /\ answer' = [client |-> c, retryAfter |-> wait]
  /\ UNCHANGED <<now, window>>

Next == Pass \/ \E c \in Clients : Admit(c) \/ Refuse(c)

Spec == Init /\ [][Next]_<<now, window, answer>>

=============================================================================
