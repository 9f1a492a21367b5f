------------------------------ MODULE MCWriter ------------------------------
(* Model checking of Writer. *)
EXTENDS Writer, TLC
=============================================================================
