------------------------------ MODULE MCBeacon ------------------------------
\* A beacon for TLC, for the Beacon_*.cfg files.
EXTENDS Beacon
=============================================================================
