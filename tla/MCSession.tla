------------------------------- MODULE MCSession -------------------------------
(* Model checking of Session: a server with a child, two engines behind it.    *)
EXTENDS Session, TLC
CONSTANTS s1, s2
=============================================================================
