-------------------------- MODULE MCFrameIteration --------------------------
\* A walk over a message with the bounds of the FrameIteration_*.cfg files.
EXTENDS FrameIteration
=============================================================================
