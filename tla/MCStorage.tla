------------------------------ MODULE MCStorage ------------------------------
EXTENDS Storage, TLC
CONSTANTS a, b

\* A row that repeats, and one whose result may not fit the types of the others.
MCInput == <<a, b, a>>
=============================================================================
