---------------------------- MODULE MCAdmission ----------------------------
(* Model checking of Admission. *)
EXTENDS Admission, TLC

CONSTANTS r1, r2, r3

=============================================================================
