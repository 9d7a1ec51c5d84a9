--------------------------- MODULE LiveChangeOnce ---------------------------
(***************************************************************************)
(* What live changes of a Factory Session promise, whatever crashes,       *)
(* failed writes and retries happen: a request is admitted at most once,   *)
(* with one body and for the revision that body expects; it is decided at  *)
(* most once; and the revision counts the applied ones.                    *)
(***************************************************************************)
EXTENDS Integers

CONSTANTS
  Request,   \* request IDs
  Body,      \* [target, value, expected]: what a request asks for
  NoBody     \* the request was never admitted

VARIABLES
  phase,     \* "none", "admitted", "applied" or "failed"
  body,      \* the admitted body of each request
  revision   \* the effective revision

vars == <<phase, body, revision>>

Init ==
  /\ phase = [q \in Request |-> "none"]
  /\ body = [q \in Request |-> NoBody]
  /\ revision = 0

Admit(q, b) ==
  /\ phase[q] = "none"
  /\ b.expected = revision
  /\ phase' = [phase EXCEPT ![q] = "admitted"]
  /\ body' = [body EXCEPT ![q] = b]
  /\ UNCHANGED revision

\* Only the revision the request was made for can be changed by it.
Apply(q) ==
  /\ phase[q] = "admitted"
  /\ body[q].expected = revision
  /\ phase' = [phase EXCEPT ![q] = "applied"]
  /\ revision' = revision + 1
  /\ UNCHANGED body

Fail(q) ==
  /\ phase[q] = "admitted"
  /\ phase' = [phase EXCEPT ![q] = "failed"]
  /\ UNCHANGED <<body, revision>>

Next == \E q \in Request : Apply(q) \/ Fail(q) \/ \E b \in Body : Admit(q, b)

Spec == Init /\ [][Next]_vars
=============================================================================
