---------------------------- MODULE MCLiveChange ----------------------------
(***************************************************************************)
(* Model values for checking LiveChange with TLC: changes of two resources *)
(* for the first revision and one for the second.                          *)
(***************************************************************************)
EXTENDS LiveChange, TLC

CONSTANTS a, b

Resources == {a, b}
Bodies ==
  { [target |-> a, value |-> 2, expected |-> 0],
    [target |-> b, value |-> 2, expected |-> 0],
    [target |-> a, value |-> 1, expected |-> 1] }
=============================================================================
