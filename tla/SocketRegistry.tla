--------------------------- MODULE SocketRegistry ---------------------------
(***************************************************************************)
(* What the library promises about contexts and raw sockets, whoever       *)
(* closes them: one live context at a time, a socket is opened in a live   *)
(* context and closed exactly once while that context lives, a handle      *)
(* reports itself closed only after its raw socket is, and a context goes  *)
(* away only after every handle it gave out reports itself closed.         *)
(***************************************************************************)
CONSTANTS Contexts, Sockets, Nil

VARIABLES
  context,   \* [Contexts -> {"none", "live", "destroyed"}]
  socket,    \* [Sockets -> {"none", "open", "closed"}]
  owner,     \* [Sockets -> Contexts or Nil]
  reported   \* sockets whose handle reports itself closed

vars == <<context, socket, owner, reported>>

Init ==
  /\ context = [c \in Contexts |-> "none"]
  /\ socket = [s \in Sockets |-> "none"]
  /\ owner = [s \in Sockets |-> Nil]
  /\ reported = {}

CreateContext(c) ==
  /\ context[c] = "none"
  /\ \A d \in Contexts : context[d] # "live"
  /\ context' = [context EXCEPT ![c] = "live"]
  /\ UNCHANGED <<socket, owner, reported>>

OpenSocket(c, s) ==
  /\ context[c] = "live" /\ socket[s] = "none"
  /\ socket' = [socket EXCEPT ![s] = "open"]
  /\ owner' = [owner EXCEPT ![s] = c]
  /\ UNCHANGED <<context, reported>>

CloseSocket(s) ==
  /\ socket[s] = "open" /\ context[owner[s]] = "live"
  /\ socket' = [socket EXCEPT ![s] = "closed"]
  /\ UNCHANGED <<context, owner, reported>>

ReportClosed(s) ==
  /\ socket[s] = "closed" /\ s \notin reported
  /\ reported' = reported \cup {s}
  /\ UNCHANGED <<context, socket, owner>>

DestroyContext(c) ==
  /\ context[c] = "live"
  /\ \A s \in Sockets : owner[s] = c => s \in reported
  /\ context' = [context EXCEPT ![c] = "destroyed"]
  /\ UNCHANGED <<socket, owner, reported>>

Next ==
  \/ \E c \in Contexts : CreateContext(c) \/ DestroyContext(c)
  \/ \E c \in Contexts, s \in Sockets : OpenSocket(c, s)
  \/ \E s \in Sockets : CloseSocket(s) \/ ReportClosed(s)

Spec == Init /\ [][Next]_vars

=============================================================================
