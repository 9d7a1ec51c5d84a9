------------------------- MODULE MCDispatchAttempt -------------------------
(***************************************************************************)
(* Model values for checking DispatchAttempt with TLC: dispatches of one   *)
(* Work, for which callers submit a failure, or a result that names a      *)
(* foreign Work and is refused.                                            *)
(***************************************************************************)
EXTENDS DispatchAttempt

CONSTANTS w1, foreign

Works   == {w1, foreign}
Own     == {w1}
Failure == [work |-> w1, outcome |-> "FAILED"]
Foreign == [work |-> foreign, outcome |-> "COMPLETED"]

TwoAnswers == {Failure, Foreign}
=============================================================================
