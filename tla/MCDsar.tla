------------------------------- MODULE MCDsar -------------------------------
(* Instances of the DSAR queue for TLC.                                    *)
EXTENDS Dsar
=============================================================================
