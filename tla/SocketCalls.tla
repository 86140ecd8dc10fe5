---------------------------- MODULE SocketCalls ----------------------------
(***************************************************************************)
(* What threads do with sockets that live (ext/rbczmq/socket.c, ZMQ.proxy  *)
(* of rbczmq_ext.c and the classes of lib/zmq/socket.rb): attaching them to *)
(* endpoints and detaching them, the guards of send and recv, the order    *)
(* REQ and REP sockets demand, and the rule of libzmq that a socket is     *)
(* used by one thread at a time. Contexts are those of ContextSockets.     *)
(*                                                                         *)
(* A call gives up the GVL and has three parts: the checks of the method   *)
(* (Enter), libzmq at work (Nogvl...), the rest of the method (...Return). *)
(* A call that a check refuses raises, changes nothing and is no action.   *)
(***************************************************************************)
EXTENDS Naturals, FiniteSets, Sequences, SequencesExt, Selection

CONSTANTS
  Threads, Sockets,
  Owner,        \* the thread each socket was created on
  Type,         \* the type of each socket
  Written,      \* endpoints as a program may write them
  Spelled,      \* the spellings libzmq may give an endpoint when it resolves it
  MaxEndpoints, \* how many endpoints a socket is given at a time
  Risky         \* what the program does although nothing guards it

Types == {"PUB", "SUB", "PUSH", "PULL", "PAIR", "REQ", "REP", "ROUTER", "DEALER"}

RiskyUses == {"edit_the_endpoints", "edit_the_argument", "read_elsewhere",
              "proxy_elsewhere", "out_of_turn"}

ASSUME ConstantsAssumption ==
  /\ Owner \in [Sockets -> Threads] /\ Type \in [Sockets -> Types]
  /\ Spelled \in [Written -> (SUBSET Written) \ {{}}]
  /\ MaxEndpoints \in Nat /\ Risky \subseteq RiskyUses

Sends    == {"send", "sendm", "send_frame", "send_message"}
Receives == {"recv", "recv_nonblock", "recv_frame", "recv_frame_nonblock", "recv_message"}
Transfers == Sends \cup Receives
Attaching == {"bind", "connect"}
Detaching == {"disconnect", "unbind"}

VARIABLES
  open,       \* a wrapper is open until its DESTROYED flag is set
  state,      \* sock->state
  endpoints,  \* sock->endpoints
  attached,   \* libzmq: what the socket is attached to, oldest first
  turn,       \* libzmq: what a REQ or REP socket must do next
  aliased,    \* history: the sockets connected under a name libzmq spells otherwise
  inside,     \* the call each thread is in
  clash,      \* two threads were in a socket at a time
  misordered  \* what the last call out of turn came back with

wrapperVars == <<open, state, endpoints>>
libzmqVars == <<attached, turn, aliased>>
vars == <<wrapperVars, libzmqVars, inside, clash, misordered>>

States == {"PENDING", "BOUND", "CONNECTED", "DISCONNECTED"}

\* An attachment is undone by its key; last_endpoint shows it as in "as".
Attachments == [how : {"BOUND", "CONNECTED"}, key : Written, as : Written]

\* err is "none" while libzmq is at work, and then what it returned.
Calls == [socks : SUBSET Sockets,
          call : Transfers \cup Attaching \cup Detaching \cup {"poll", "close", "proxy"},
          arg : Written \cup {"-"},
          err : {"none", "ok", "failed", "EAGAIN", "EFSM"}]
NoCall == [socks |-> {}, call |-> "-", arg |-> "-", err |-> "-"]

TypeOK ==
  /\ open \in [Sockets -> BOOLEAN] /\ state \in [Sockets -> States]
  /\ endpoints \in [Sockets -> Seq(Written)]
  /\ attached \in [Sockets -> Seq(Attachments)]
  /\ \A s \in Sockets : Len(endpoints[s]) <= MaxEndpoints
  /\ turn \in [Sockets -> {"send", "recv", "any"}] /\ aliased \subseteq Sockets
  /\ inside \in [Threads -> Calls \cup {NoCall}]
  /\ clash \in BOOLEAN
  /\ misordered \in {"none", "ZMQ::Error", "SystemCallError", "nil"}

FirstTurn(type) == CASE type = "REQ" -> "send" [] type = "REP" -> "recv" [] OTHER -> "any"

Init ==
  /\ open = [s \in Sockets |-> TRUE]
  /\ state = [s \in Sockets |-> "PENDING"]
  /\ endpoints = [s \in Sockets |-> <<>>]
  /\ attached = [s \in Sockets |-> <<>>]
  /\ turn = [s \in Sockets |-> FirstTurn(Type[s])] /\ aliased = {}
  /\ inside = [t \in Threads |-> NoCall]
  /\ clash = FALSE /\ misordered = "none"

-----------------------------------------------------------------------------
(* Entering and leaving                                                    *)

\* Another thread is in libzmq with one of these sockets.
Occupied(t, socks) ==
  \E u \in Threads \ {t} : inside[u].socks \cap socks # {} /\ inside[u].err = "none"

Touch(t, socks) == clash' = (clash \/ Occupied(t, socks))

Enter(t, socks, call, arg) ==
  /\ inside[t] = NoCall
  /\ \A s \in socks : open[s]
  /\ inside' = [inside EXCEPT ![t] =
                  [socks |-> socks, call |-> call, arg |-> arg, err |-> "none"]]
  /\ Touch(t, socks)

Working(t, calls) == inside[t].call \in calls /\ inside[t].err = "none"
Done(t, calls) == inside[t].call \in calls /\ inside[t].err # "none"

LibzmqReturns(t, err) == inside' = [inside EXCEPT ![t].err = err]
Leave(t) == inside' = [inside EXCEPT ![t] = NoCall]

Sock(t) == CHOOSE s \in inside[t].socks : TRUE

NoGuardCrossThread(t, s) == TRUE

\* ZmqSockGuardCrossThread
GuardCrossThread(t, s) == Owner[s] = t

\* ZmqAssertSocketNotPending
AssertNotPending(s) == state[s] \in {"BOUND", "CONNECTED"}

-----------------------------------------------------------------------------
(* Attaching                                                               *)

Attach(t, s, call, e) ==
  /\ GuardCrossThread(t, s)
  /\ Len(endpoints[s]) < MaxEndpoints /\ Len(attached[s]) < MaxEndpoints
  /\ Enter(t, {s}, call, e)
  /\ UNCHANGED <<wrapperVars, libzmqVars, misordered>>

SocketBind(t, s, e) == Attach(t, s, "bind", e)
SocketConnect(t, s, e) == Attach(t, s, "connect", e)

LibzmqAttaches(t, a) ==
  /\ attached' = [attached EXCEPT ![Sock(t)] = Append(@, a)]
  /\ LibzmqReturns(t, "ok")
  /\ UNCHANGED turn

LibzmqFails(t) == LibzmqReturns(t, "failed") /\ UNCHANGED libzmqVars

\* zsocket_bind: the key is the endpoint as resolved, wildcards filled in.
NogvlSocketBind(t) ==
  /\ Working(t, {"bind"})
  /\ \/ LibzmqFails(t)
     \/ \E k \in Spelled[inside[t].arg] :
          /\ \A s \in Sockets : \A i \in DOMAIN attached[s] :
               attached[s][i].how = "BOUND" => attached[s][i].key # k
          /\ LibzmqAttaches(t, [how |-> "BOUND", key |-> k, as |-> k])
          /\ UNCHANGED aliased
  /\ UNCHANGED <<wrapperVars, clash, misordered>>

\* zsocket_connect: the key is the endpoint as written.
NogvlSocketConnect(t) ==
  /\ Working(t, {"connect"})
  /\ \/ LibzmqFails(t)
     \/ \E k \in Spelled[inside[t].arg] :
          /\ LibzmqAttaches(t, [how |-> "CONNECTED", key |-> inside[t].arg, as |-> k])
          /\ aliased' = IF k = inside[t].arg THEN aliased ELSE aliased \cup inside[t].socks
  /\ UNCHANGED <<wrapperVars, clash, misordered>>

AttachReturn(t, s, how, endpoint) ==
  /\ IF inside[t].err = "failed"
     THEN UNCHANGED <<state, endpoints, clash>>
     ELSE /\ Touch(t, {s})
          /\ state' = [state EXCEPT ![s] = how]
          /\ endpoints' = [endpoints EXCEPT ![s] = Append(@, endpoint)]
  /\ Leave(t)
  /\ UNCHANGED <<open, libzmqVars, misordered>>

LastEndpoint(s) == Last(attached[s]).as

BindReturnAsWritten(t) ==
  Done(t, {"bind"}) /\ AttachReturn(t, Sock(t), "BOUND", inside[t].arg)

BindReturn(t) ==
  Done(t, {"bind"}) /\ AttachReturn(t, Sock(t), "BOUND", LastEndpoint(Sock(t)))

ConnectReturn(t) ==
  Done(t, {"connect"}) /\ AttachReturn(t, Sock(t), "CONNECTED", LastEndpoint(Sock(t)))

-----------------------------------------------------------------------------
(* Detaching                                                               *)

Detach(t, s, call, e) ==
  /\ GuardCrossThread(t, s)
  /\ Enter(t, {s}, call, e)
  /\ UNCHANGED <<wrapperVars, libzmqVars, misordered>>

SocketDisconnect(t, s, e) == Detach(t, s, "disconnect", e)
SocketUnbind(t, s, e) == Detach(t, s, "unbind", e)

\* Of a list of attachments, those under another key.
Kept(list, key) == EntriesAt(list, {i \in DOMAIN list : list[i].key # key})

\* Of a list of endpoints, the others.
Others(list, e) == EntriesAt(list, {i \in DOMAIN list : list[i] # e})

\* libzmq ends everything under that key, bound or connected, and fails when
\* there is nothing.
Terminate(t) ==
  LET s == Sock(t)
      kept == Kept(attached[s], inside[t].arg)
  IN \/ LibzmqFails(t)
     \/ /\ kept # attached[s]
        /\ attached' = [attached EXCEPT ![s] = kept]
        /\ LibzmqReturns(t, "ok")
        /\ UNCHANGED <<turn, aliased>>

NogvlSocketDisconnect(t) ==
  /\ Working(t, {"disconnect"}) /\ Terminate(t)
  /\ UNCHANGED <<wrapperVars, clash, misordered>>

NogvlSocketUnbind(t) ==
  /\ Working(t, {"unbind"}) /\ Terminate(t)
  /\ UNCHANGED <<wrapperVars, clash, misordered>>

DetachReturnKeepsState(t, s) ==
  /\ endpoints' = IF inside[t].err = "failed" THEN endpoints
                  ELSE [endpoints EXCEPT ![s] = Others(@, inside[t].arg)]
  /\ Leave(t)
  /\ UNCHANGED <<open, state, libzmqVars, clash, misordered>>

DetachReturnCountsNothing(t, s) ==
  /\ IF inside[t].err = "failed"
     THEN UNCHANGED <<state, endpoints>>
     ELSE /\ endpoints' = [endpoints EXCEPT ![s] = Others(@, inside[t].arg)]
          /\ state' = [state EXCEPT ![s] = "DISCONNECTED"]
  /\ Leave(t)
  /\ UNCHANGED <<open, libzmqVars, clash, misordered>>

\* The string is read again now, and the caller may have changed it meanwhile.
DetachReturn(t, s) ==
  /\ IF inside[t].err = "failed"
     THEN UNCHANGED <<state, endpoints>>
     ELSE \E e \in Written :
          /\ e = inside[t].arg \/ "edit_the_argument" \in Risky
          /\ endpoints' = [endpoints EXCEPT ![s] = Others(@, e)]
          /\ state' = IF endpoints'[s] = <<>>
                      THEN [state EXCEPT ![s] = "DISCONNECTED"] ELSE state
  /\ Leave(t)
  /\ UNCHANGED <<open, libzmqVars, clash, misordered>>

DisconnectReturn(t) == Done(t, {"disconnect"}) /\ DetachReturn(t, Sock(t))
UnbindReturn(t) == Done(t, {"unbind"}) /\ DetachReturn(t, Sock(t))

-----------------------------------------------------------------------------
(* Sending and receiving                                                   *)

Lockstep == {"REQ", "REP"}

\* UpstreamSocket and DownstreamSocket, and unsupported_api of REQ and REP.
Unsupported(type) ==
  CASE type \in {"PUB", "PUSH"} -> Receives
    [] type \in {"SUB", "PULL"} -> Sends
    [] type \in Lockstep        -> {"sendm"}
    [] OTHER                    -> {}

OutOfTurn(s, call) ==
  turn[s] # "any" /\ turn[s] # (IF call \in Sends THEN "send" ELSE "recv")

Transfer(t, s, call) ==
  /\ call \notin Unsupported(Type[s])
  /\ AssertNotPending(s) /\ GuardCrossThread(t, s)
  /\ OutOfTurn(s, call) => "out_of_turn" \in Risky
  /\ Enter(t, {s}, call, "-")
  /\ UNCHANGED <<wrapperVars, libzmqVars, misordered>>

SocketSend(t, s)              == Transfer(t, s, "send")
SocketSendm(t, s)             == Transfer(t, s, "sendm")
SocketSendFrame(t, s)         == Transfer(t, s, "send_frame")
SocketSendMessage(t, s)       == Transfer(t, s, "send_message")
SocketRecv(t, s)              == Transfer(t, s, "recv")
SocketRecvNonblock(t, s)      == Transfer(t, s, "recv_nonblock")
SocketRecvFrame(t, s)         == Transfer(t, s, "recv_frame")
SocketRecvFrameNonblock(t, s) == Transfer(t, s, "recv_frame_nonblock")
SocketRecvMessage(t, s)       == Transfer(t, s, "recv_message")

\* A message of one part changes the turn; a timeout does not.
NogvlTransfer(t) ==
  LET s == Sock(t)
  IN /\ Working(t, Transfers)
     /\ IF OutOfTurn(s, inside[t].call)
        THEN LibzmqReturns(t, "EFSM") /\ UNCHANGED turn
        ELSE \/ LibzmqReturns(t, "EAGAIN") /\ UNCHANGED turn
             \/ /\ attached[s] # <<>>
                /\ LibzmqReturns(t, "ok")
                /\ turn' = [turn EXCEPT ![s] =
                     CASE @ = "send" -> "recv" [] @ = "recv" -> "send" [] OTHER -> @]
     /\ UNCHANGED <<wrapperVars, attached, aliased, clash, misordered>>

\* ZmqAssert: a failed send raises or, on a timeout, returns false; the others take
\* no notice of what libzmq returned, except that recv, given a message, looks at
\* an errno anyone may have set since, and then drops it.
MethodReturns(call, err) ==
  CASE call = "send_message" -> {"nil"}
    [] call \in Receives     ->
         IF err # "ok" THEN {"nil"}
         ELSE {"message"} \cup
              (IF call \in {"recv", "recv_nonblock"} THEN {"SystemCallError"} ELSE {})
    [] OTHER                 -> CASE err = "ok"     -> {"true"}
                                  [] err = "EAGAIN" -> {"false"}
                                  [] err = "EFSM"   -> {"SystemCallError"}

\* The methods handle_fsm_errors wraps. The class defines send_frame once
\* more below, without the rescue.
FsmHandled(type) == IF type \in Lockstep THEN Transfers \ {"sendm", "send_frame"} ELSE {}

TransferReturn(t) ==
  LET c == inside[t]
  IN /\ Done(t, Transfers)
     /\ \E result \in MethodReturns(c.call, c.err) :
          misordered' =
            CASE c.err # "EFSM" -> misordered
              [] result = "SystemCallError" /\ c.call \in FsmHandled(Type[Sock(t)]) -> "ZMQ::Error"
              [] OTHER -> result
     /\ Leave(t)
     /\ UNCHANGED <<wrapperVars, libzmqVars, clash>>

-----------------------------------------------------------------------------
(* Everything else that reaches the socket                                 *)

\* sock.poll asks for no endpoint.
SocketPoll(t, s) ==
  /\ GuardCrossThread(t, s)
  /\ Enter(t, {s}, "poll", "-")
  /\ UNCHANGED <<wrapperVars, libzmqVars, misordered>>

\* sock.poll is over, or ZMQ.proxy, which a signal ends.
PollReturn(t) ==
  /\ Working(t, {"poll", "proxy"})
  /\ Leave(t)
  /\ UNCHANGED <<wrapperVars, libzmqVars, clash, misordered>>

\* ZMQ.proxy checks that the sockets are open and nothing else.
Proxy(t, socks) ==
  /\ "proxy_elsewhere" \in Risky \/ \A s \in socks : Owner[s] = t
  /\ Enter(t, socks, "proxy", "-")
  /\ UNCHANGED <<wrapperVars, libzmqVars, misordered>>

\* Option setters hold the GVL throughout.
SetSockOpt(t, s) ==
  /\ inside[t] = NoCall /\ open[s] /\ GuardCrossThread(t, s)
  /\ Touch(t, {s})
  /\ UNCHANGED <<wrapperVars, libzmqVars, inside, misordered>>

\* So do fd, events, last_endpoint and the option getters, on any thread.
ReadSockOpt(t, s) ==
  /\ inside[t] = NoCall /\ open[s]
  /\ Owner[s] = t \/ "read_elsewhere" \in Risky
  /\ Touch(t, {s})
  /\ UNCHANGED <<wrapperVars, libzmqVars, inside, misordered>>

\* sock.endpoints is the array of the wrapper, not a copy, for good.
EditEndpoints(s) ==
  /\ ~open[s] \/ "edit_the_endpoints" \in Risky
  /\ endpoints' = [endpoints EXCEPT ![s] = <<>>]
  /\ UNCHANGED <<open, state, libzmqVars, inside, clash, misordered>>

SocketCloseZeroesState(t, s) ==
  /\ GuardCrossThread(t, s)
  /\ Enter(t, {s}, "close", "-")
  /\ state' = [state EXCEPT ![s] = "0"]
  /\ UNCHANGED <<open, endpoints, libzmqVars, misordered>>

SocketClose(t, s) ==
  /\ GuardCrossThread(t, s)
  /\ Enter(t, {s}, "close", "-")
  /\ state' = [state EXCEPT ![s] = "DISCONNECTED"]
  /\ UNCHANGED <<open, endpoints, libzmqVars, misordered>>

\* rb_czmq_context_destroy_socket; ContextSockets has its steps one by one.
CloseReturn(t) ==
  LET s == Sock(t)
  IN /\ Working(t, {"close"})
     /\ attached' = [attached EXCEPT ![s] = <<>>]
     /\ open' = [open EXCEPT ![s] = FALSE]
     /\ Leave(t)
     /\ UNCHANGED <<state, endpoints, turn, aliased, clash, misordered>>

-----------------------------------------------------------------------------
Call(t, s) ==
  \/ \E e \in Written :
       \/ SocketBind(t, s, e) \/ SocketConnect(t, s, e)
       \/ SocketDisconnect(t, s, e) \/ SocketUnbind(t, s, e)
  \/ SocketSend(t, s) \/ SocketSendm(t, s)
  \/ SocketSendFrame(t, s) \/ SocketSendMessage(t, s)
  \/ SocketRecv(t, s) \/ SocketRecvNonblock(t, s)
  \/ SocketRecvFrame(t, s) \/ SocketRecvFrameNonblock(t, s) \/ SocketRecvMessage(t, s)
  \/ SocketPoll(t, s) \/ SetSockOpt(t, s) \/ ReadSockOpt(t, s) \/ SocketClose(t, s)

Progress(t) ==
  \/ NogvlSocketBind(t) \/ BindReturn(t)
  \/ NogvlSocketConnect(t) \/ ConnectReturn(t)
  \/ NogvlSocketDisconnect(t) \/ DisconnectReturn(t)
  \/ NogvlSocketUnbind(t) \/ UnbindReturn(t)
  \/ NogvlTransfer(t) \/ TransferReturn(t)
  \/ PollReturn(t) \/ CloseReturn(t)

Next ==
  \/ \E t \in Threads : Progress(t)
  \/ \E t \in Threads, s \in Sockets : Call(t, s)
  \/ \E t \in Threads, socks \in SUBSET Sockets : socks # {} /\ Proxy(t, socks)
  \/ \E s \in Sockets : EditEndpoints(s)

Spec == Init /\ [][Next]_vars

-----------------------------------------------------------------------------
(* Properties                                                              *)

AtRest(s) == \A t \in Threads : s \notin inside[t].socks

\* The cross-thread guard keeps the promise of context.c:366, that sockets
\* "only ever do work on the thread they were spawned on": no two threads are in
\* libzmq with one socket.
OneThreadInside == ~clash

Mirrors(s) == endpoints[s] = [i \in DOMAIN attached[s] |-> attached[s][i].as]

\* Between calls sock.endpoints lists what libzmq has the socket attached to, as
\* last_endpoint spelled it, in the order it was attached: socket.c:98 says it
\* "Returns the endpoints this socket is currently connected to, if any".
EndpointsMirror == \A s \in Sockets : open[s] /\ AtRest(s) => Mirrors(s)

\* So it does for a socket never connected under a name that libzmq spells
\* otherwise, whatever was attached twice, bound and connected, failed, or was
\* undone by the other of unbind and disconnect (socket.c:98).
UnaliasedMirror ==
  \A s \in Sockets \ aliased : open[s] /\ AtRest(s) => Mirrors(s)

\* Between calls the guards of send and recv refuse such a socket just when it is
\* attached to nothing, and let no call wait in libzmq for a peer that cannot come
\* (socket.c:466), after it was closed as before.
UnaliasedState ==
  \A s \in Sockets \ aliased : AtRest(s) => (AssertNotPending(s) <=> attached[s] # <<>>)

\* This does not hold of all sockets, for the same reason (socket.c:314).
AlwaysHonest ==
  \A s \in Sockets : AtRest(s) => (AssertNotPending(s) <=> attached[s] # <<>>)

\* Whatever names a socket was connected under, what it is bound to is in its
\* endpoints between calls, under the name that unbinds it, and the guards let it
\* send and receive: no disconnect of something else takes a binding off the list or
\* leaves a bound socket DISCONNECTED (socket.c:313-316, 369-372).
BoundIsKnown ==
  \A s \in Sockets : open[s] /\ AtRest(s) =>
    \A i \in DOMAIN attached[s] : attached[s][i].how = "BOUND" =>
      attached[s][i].key \in ToSet(endpoints[s]) /\ AssertNotPending(s)

\* A call out of turn on a REQ or REP socket raises ZMQ::Error, for all the
\* methods that req.rb and rep.rb name.
OrderErrorRaised == misordered \in {"none", "ZMQ::Error"}

=============================================================================
