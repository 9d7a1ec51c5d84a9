---------------------------- MODULE DispatchOnce ----------------------------
(***************************************************************************)
(* What the dispatch outbox promises its runtime, without the goroutines,  *)
(* the pauses, the drain and the retries that DispatchOutbox has: an       *)
(* intent is accepted once, offered to Workers at most once at a time,     *)
(* taken back only when that offer failed, and finished once and for all;  *)
(* a sealed outbox accepts and offers nothing.                             *)
(***************************************************************************)
CONSTANT Intent

VARIABLES
  phase,   \* how far each intent has come
  sealed   \* the outbox was stopped

Phase == {"ABSENT", "PENDING", "PUBLISHING", "PUBLISHED", "RETIRED"}

Init ==
  /\ phase = [i \in Intent |-> "ABSENT"]
  /\ sealed = FALSE

\* Intent i goes from one of the phases in From to phase to.
Move(i, From, to) ==
  /\ phase[i] \in From
  /\ phase' = [phase EXCEPT ![i] = to]
  /\ UNCHANGED sealed

Accept(i)   == ~sealed /\ Move(i, {"ABSENT"}, "PENDING")
Offer(i)    == ~sealed /\ Move(i, {"PENDING"}, "PUBLISHING")
Deliver(i)  == Move(i, {"PUBLISHING"}, "PUBLISHED")
Withdraw(i) == Move(i, {"PUBLISHING"}, "PENDING")
Finish(i)   == Move(i, {"PUBLISHING", "PUBLISHED"}, "RETIRED")

Seal ==
  /\ sealed' = TRUE
  /\ UNCHANGED phase

Next ==
  \/ \E i \in Intent : Accept(i) \/ Offer(i) \/ Deliver(i) \/ Withdraw(i) \/ Finish(i)
  \/ Seal

Spec == Init /\ [][Next]_<<phase, sealed>>
=============================================================================
