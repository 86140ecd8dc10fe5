--------------------------- MODULE MCMessageFrames ---------------------------
\* Frames and messages with the bounds of the MessageFrames_*.cfg files.
EXTENDS MessageFrames
=============================================================================
