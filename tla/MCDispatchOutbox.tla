------------------------- MODULE MCDispatchOutbox -------------------------
(* Instances of DispatchOutbox for TLC. *)
EXTENDS DispatchOutbox, TLC
=============================================================================
