------------------------------ MODULE MCWaits -------------------------------
(* An instance of Waits for TLC.                                             *)
EXTENDS Waits

MCKids == {1, 2}
=============================================================================
