----------------------------- MODULE MCController -----------------------------
EXTENDS Controller
=============================================================================
