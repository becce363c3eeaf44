------------------------------ MODULE MCExport ------------------------------
(* Instances of the data export for TLC: a is an in-process provider, b a  *)
(* peer service that uploads its slice.                                    *)
EXTENDS Export
=============================================================================
