--------------------------- MODULE MCSocketCalls ---------------------------
\* A REQ and a DEALER socket of one thread, and another thread that calls their
\* methods all the same, for the SocketCalls_*.cfg files.
EXTENDS SocketCalls

CONSTANTS t1, t2, req, dealer

MCOwner == [s \in Sockets |-> t1]
MCType == [s \in Sockets |-> IF s = req THEN "REQ" ELSE "DEALER"]

\* A name that resolves to either address, as a host name may, and a wildcard.
MCSpelled ==
  [e \in Written |-> IF e = "localhost" THEN {"a", "b"} \cap Written ELSE {e}]
=============================================================================
