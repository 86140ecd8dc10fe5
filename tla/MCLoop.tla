------------------------------- MODULE MCLoop -------------------------------
\* The loop with the bounds of the Loop_*.cfg files.
EXTENDS Loop
=============================================================================
