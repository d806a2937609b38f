------------------------- MODULE DocumentLifecycle -------------------------
(***************************************************************************)
(* What the security treatment promises for each document, whatever the    *)
(* workers, the queue and the database go through: a round of treatment    *)
(* ends with exactly one result, recorded together with its audit event;   *)
(* CLEAN and INFECTED are for ever; only a failed document gets a new      *)
(* round, and that is recorded too.                                        *)
(***************************************************************************)
EXTENDS Naturals

CONSTANT Docs

VARIABLES
  state,  \* what an owner or an administrator can tell about each document
  log     \* how many events of each kind its audit trail holds

States == {"pending", "clean", "infected", "failed"}
Log    == [clean: Nat, infected: Nat, failed: Nat, reprocessed: Nat]

Init ==
  /\ state = [d \in Docs |-> "pending"]
  /\ log = [d \in Docs |->
              [clean |-> 0, infected |-> 0, failed |-> 0, reprocessed |-> 0]]

Pass(d) ==
  /\ state[d] = "pending"
  /\ state' = [state EXCEPT ![d] = "clean"]
  /\ log' = [log EXCEPT ![d].clean = @ + 1]

Condemn(d) ==
  /\ state[d] = "pending"
  /\ state' = [state EXCEPT ![d] = "infected"]
  /\ log' = [log EXCEPT ![d].infected = @ + 1]

\* Treatments may be given up for several documents at once.
GiveUp(S) ==
  /\ \A d \in S : state[d] = "pending"
  /\ state' = [d \in Docs |-> IF d \in S THEN "failed" ELSE state[d]]
  /\ log' = [d \in Docs |-> IF d \in S
                            THEN [log[d] EXCEPT !.failed = @ + 1]
                            ELSE log[d]]

Reopen(d) ==
  /\ state[d] = "failed"
  /\ state' = [state EXCEPT ![d] = "pending"]
  /\ log' = [log EXCEPT ![d].reprocessed = @ + 1]

Next == \/ \E d \in Docs : Pass(d) \/ Condemn(d) \/ Reopen(d)
        \/ \E S \in SUBSET Docs : GiveUp(S)

Spec == Init /\ [][Next]_<<state, log>>

=============================================================================
