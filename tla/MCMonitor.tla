----------------------------- MODULE MCMonitor -----------------------------
\* A monitored socket with the bounds of the Monitor_*.cfg files.
EXTENDS Monitor
=============================================================================
