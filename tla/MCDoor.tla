------------------------------- MODULE MCDoor -------------------------------
(* Instances of the doors of an account for TLC.                           *)
EXTENDS Door
=============================================================================
