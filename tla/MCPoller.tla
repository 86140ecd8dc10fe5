------------------------------ MODULE MCPoller ------------------------------
\* The poller with the bounds of the Poller_*.cfg files.
EXTENDS Poller

\* Selecting by position is what SelectSeq does with a test that holds there.
ASSUME SelectionAssumption ==
  LET list == <<"a", "b", "c", "d">>
  IN  \A K \in SUBSET DOMAIN list :
        EntriesAt(list, K) = SelectSeq(list, LAMBDA e : \E k \in K : list[k] = e)
=============================================================================
