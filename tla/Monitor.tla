------------------------------ MODULE Monitor ------------------------------
(***************************************************************************)
(* sock.monitor (ext/rbczmq/socket.c): a second Ruby thread receives what  *)
(* libzmq reports about a socket from a PAIR socket of the same context,   *)
(* and calls the handler. It goes by a raw pointer to the wrapper of the   *)
(* monitored socket, which the program closes, forgets, or destroys with   *)
(* its context on another thread. One socket is monitored once.            *)
(***************************************************************************)
EXTENDS Naturals, Sequences, SequencesExt

CONSTANTS
  Events,     \* what libzmq reports, "closed" among them
  MaxEvents,  \* reports followed, the last of them kept for "closed"
  Risky       \* what the program does although nothing guards it

RiskyUses == {"go_on_at_once", "forget_the_socket", "leave_the_handler_to_the_socket"}

Address == "address"
Errors == {"destroyed", "ETERM", "EINTR"}

ASSUME ConstantsAssumption ==
  /\ "closed" \in Events /\ Events \cap (Errors \cup {Address, "none"}) = {}
  /\ MaxEvents \in Nat \ {0}
  /\ Risky \subseteq RiskyUses

VARIABLES
  held, handler_held,   \* what the program has references to
  wrapper,              \* "live" or "freed"
  destroyed,            \* sock->flags & ZMQ_SOCKET_DESTROYED
  has_ctx,              \* sock->ctx is not NULL
  handler_alive,
  main,                 \* where the program's thread is
  thread,               \* where the monitor thread is
  msg,                  \* what its receive came back with
  called,               \* the calls of the handler
  raw, zctx, pair,      \* czmq: the socket, its context, the PAIR socket
  emitted, inbox,       \* libzmq: events reported, frames to be received
  stopped,              \* libzmq: no more reports
  fault                 \* the first step that aborts or reads freed memory

programVars == <<held, handler_held>>
rubyVars == <<wrapper, destroyed, has_ctx, handler_alive>>
threadVars == <<thread, msg, called>>
czmqVars == <<raw, zctx, pair>>
libzmqVars == <<emitted, inbox, stopped>>
vars == <<programVars, rubyVars, main, threadVars, czmqVars, libzmqVars, fault>>

HandlerCalls == [event : Events, addr : {"blank", Address}]

TypeOK ==
  /\ held \in BOOLEAN /\ handler_held \in BOOLEAN
  /\ wrapper \in {"live", "freed"}
  /\ destroyed \in BOOLEAN /\ has_ctx \in BOOLEAN /\ handler_alive \in BOOLEAN
  /\ main \in {"ruby", "creating", "closing", "closing_for_the_context", "terminating"}
  /\ thread \in {"none", "new", "receive", "blocked", "back", "handler", "over"}
  /\ msg \in Events \cup {Address, "none"} \cup Errors
  /\ called \in Seq(HandlerCalls)
  /\ raw \in {"open", "closed"} /\ zctx \in {"live", "destroyed"}
  /\ pair \in {"none", "open", "closed"}
  /\ emitted \in Seq(Events) /\ Len(emitted) <= MaxEvents
  /\ inbox \in Seq(Events \cup {Address})
  /\ stopped \in BOOLEAN
  /\ fault \in {"none", "wrapper_freed", "no_context", "two_in_the_context",
                "refused", "handler_collected", "receive_failed"}
  \* the wrapper is flagged last, and without a flag its socket is in order
  /\ ~has_ctx <=> destroyed
  /\ destroyed => raw = "closed"

Init ==
  /\ held = TRUE /\ handler_held = TRUE
  /\ wrapper = "live" /\ destroyed = FALSE /\ has_ctx = TRUE /\ handler_alive = TRUE
  /\ main = "ruby"
  /\ thread = "none" /\ msg = "none" /\ called = <<>>
  /\ raw = "open" /\ zctx = "live" /\ pair = "none"
  /\ emitted = <<>> /\ inbox = <<>> /\ stopped = FALSE
  /\ fault = "none"

-----------------------------------------------------------------------------
(* libzmq's side                                                           *)

Alive == fault = "none"

\* An event is two frames: the event, and the address it is about.
Report(e) ==
  /\ emitted' = Append(emitted, e)
  /\ inbox' = IF pair = "open" THEN inbox \o <<e, Address>> ELSE inbox

EmitEvent(e) ==
  /\ Alive /\ raw = "open" /\ pair = "open"
  /\ Len(emitted) + 1 < MaxEvents
  /\ Report(e)
  /\ UNCHANGED <<programVars, rubyVars, main, threadVars, czmqVars, stopped, fault>>

\* Closing a socket is reported after the fact, and only if it was bound.
StopMonitor ==
  /\ Alive /\ raw = "closed" /\ thread # "none" /\ ~stopped
  /\ stopped' = TRUE
  /\ Report("closed") \/ UNCHANGED <<emitted, inbox>>
  /\ UNCHANGED <<programVars, rubyVars, main, threadVars, czmqVars, fault>>

-----------------------------------------------------------------------------
(* The program's thread                                                    *)

\* A careful program lets the monitor thread reach its first receive.
ThreadStarted == thread # "new" \/ "go_on_at_once" \in Risky

SocketMonitor ==
  /\ Alive /\ main = "ruby" /\ held /\ ~destroyed
  /\ thread = "none" /\ thread' = "new"
  /\ UNCHANGED <<programVars, rubyVars, main, msg, called, czmqVars, libzmqVars, fault>>

\* ctx.socket: zsocket_new adds to the context's list without the GVL.
CreateSocket ==
  /\ Alive /\ main = "ruby" /\ zctx = "live" /\ ThreadStarted
  /\ main' = "creating"
  /\ UNCHANGED <<programVars, rubyVars, threadVars, czmqVars, libzmqVars, fault>>

CreateSocketReturn ==
  /\ Alive /\ main = "creating" /\ main' = "ruby"
  /\ UNCHANGED <<programVars, rubyVars, threadVars, czmqVars, libzmqVars, fault>>

SocketClose ==
  /\ Alive /\ main = "ruby" /\ held /\ ~destroyed /\ ThreadStarted
  /\ main' = "closing"
  /\ UNCHANGED <<programVars, rubyVars, threadVars, czmqVars, libzmqVars, fault>>

\* ctx.destroy closes the socket first if that has not been done.
ContextDestroy ==
  /\ Alive /\ main = "ruby" /\ zctx = "live" /\ ThreadStarted
  /\ main' = IF destroyed THEN "terminating" ELSE "closing_for_the_context"
  /\ UNCHANGED <<programVars, rubyVars, threadVars, czmqVars, libzmqVars, fault>>

Closing == main \in {"closing", "closing_for_the_context"}

NogvlZsocketDestroy ==
  /\ Alive /\ Closing /\ raw = "open"
  /\ raw' = "closed"
  /\ UNCHANGED <<programVars, rubyVars, main, threadVars, zctx, pair, libzmqVars, fault>>

MarkDestroyedKeepsContext ==
  /\ Alive /\ Closing /\ raw = "closed"
  /\ destroyed' = TRUE
  /\ main' = IF main = "closing" THEN "ruby" ELSE "terminating"
  /\ UNCHANGED <<programVars, wrapper, has_ctx, handler_alive, threadVars, czmqVars,
                 libzmqVars, fault>>

MarkDestroyed ==
  /\ Alive /\ Closing /\ raw = "closed"
  /\ destroyed' = TRUE /\ has_ctx' = FALSE
  /\ main' = IF main = "closing" THEN "ruby" ELSE "terminating"
  /\ UNCHANGED <<programVars, wrapper, handler_alive, threadVars, czmqVars, libzmqVars, fault>>

\* zctx_destroy closes what is left in the context: the PAIR socket too, in which
\* the monitor thread may be (PairStaysOpen).
NogvlZctxDestroy ==
  /\ Alive /\ main = "terminating" /\ main' = "ruby"
  /\ zctx' = "destroyed"
  /\ IF pair = "open" THEN pair' = "closed" /\ inbox' = <<>> ELSE UNCHANGED <<pair, inbox>>
  /\ UNCHANGED <<programVars, rubyVars, threadVars, raw, emitted, stopped, fault>>

\* A careful program keeps both until the monitor thread is gone.
ForgetSocket ==
  /\ Alive /\ main = "ruby" /\ held
  /\ thread = "over" \/ "forget_the_socket" \in Risky
  /\ held' = FALSE
  /\ UNCHANGED <<handler_held, rubyVars, main, threadVars, czmqVars, libzmqVars, fault>>

ForgetHandler ==
  /\ Alive /\ main = "ruby" /\ handler_held
  /\ thread = "over" \/ "leave_the_handler_to_the_socket" \in Risky
  /\ handler_held' = FALSE
  /\ UNCHANGED <<held, rubyVars, main, threadVars, czmqVars, libzmqVars, fault>>

-----------------------------------------------------------------------------
(* The collector                                                           *)

\* rb_czmq_free_sock_gc; the monitor thread's raw pointer is no reference.
FreeSockGc ==
  /\ Alive /\ ~held /\ main = "ruby" /\ wrapper = "live"
  /\ wrapper' = "freed" /\ destroyed' = TRUE /\ has_ctx' = FALSE /\ raw' = "closed"
  /\ UNCHANGED <<programVars, handler_alive, main, threadVars, zctx, pair, libzmqVars, fault>>

\* A wrapper without a context marks nothing.
CollectHandler ==
  /\ Alive /\ ~handler_held /\ ~has_ctx /\ handler_alive
  /\ handler_alive' = FALSE
  /\ UNCHANGED <<programVars, wrapper, destroyed, has_ctx, main, threadVars, czmqVars,
                 libzmqVars, fault>>

-----------------------------------------------------------------------------
(* The monitor thread                                                      *)

Fails(what) == fault' = what /\ UNCHANGED <<threadVars, pair>>

\* Is the program's thread in zsocket_new or zsocket_destroy? It has released the
\* GVL for that, and holds context_mutex.
InContext == main = "creating" \/ (Closing /\ raw = "open")

\* zsocket_new and zmq_connect for the PAIR socket: with the GVL, but without
\* context_mutex. czmq asserts that there is a context; libzmq refuses to connect
\* once it reports nothing more, which fails the assertion that follows.
MonitorThread ==
  /\ Alive /\ thread = "new"
  /\ CASE wrapper = "freed" -> Fails("wrapper_freed")
       [] wrapper = "live" /\ ~has_ctx -> Fails("no_context")
       [] wrapper = "live" /\ has_ctx /\ InContext -> Fails("two_in_the_context")
       [] wrapper = "live" /\ has_ctx /\ ~InContext /\ stopped -> Fails("refused")
       [] OTHER -> /\ thread' = "receive" /\ pair' = "open"
                   /\ UNCHANGED <<msg, called, fault>>
  /\ UNCHANGED <<programVars, rubyVars, main, raw, zctx, libzmqVars>>

ComesBackStale(m) ==
  thread' = "back" /\ msg' = IF m = Address /\ msg \in Events THEN msg ELSE m

ComesBack(m) == thread' = "back" /\ msg' = m

\* rb_czmq_nogvl_monitor_recv up to the receive.
NogvlMonitorRecv ==
  /\ Alive /\ thread = "receive"
  /\ IF wrapper = "freed" THEN Fails("wrapper_freed")
     ELSE /\ IF destroyed THEN ComesBack("destroyed")
                          ELSE thread' = "blocked" /\ UNCHANGED msg
          /\ UNCHANGED <<called, pair, fault>>
  /\ UNCHANGED <<programVars, rubyVars, main, raw, zctx, libzmqVars>>

ReceiveDropsEvent ==
  /\ Alive /\ thread = "blocked"
  /\ IF pair = "closed" THEN ComesBack("ETERM") /\ UNCHANGED inbox
     ELSE inbox # <<>> /\ ComesBack(inbox[2]) /\ inbox' = SubSeq(inbox, 3, Len(inbox))
  /\ UNCHANGED <<programVars, rubyVars, main, called, czmqVars, emitted, stopped, fault>>

\* zmq_recvmsg returns a size, which is not 0 for an event: so its address is not
\* received along with it, but by the next round as if it were an event.
Receive ==
  /\ Alive /\ thread = "blocked"
  /\ IF pair = "closed" THEN ComesBack("ETERM") /\ UNCHANGED inbox
     ELSE inbox # <<>> /\ ComesBack(Head(inbox)) /\ inbox' = Tail(inbox)
  /\ UNCHANGED <<programVars, rubyVars, main, called, czmqVars, emitted, stopped, fault>>

\* A signal ends the receive.
Interrupted ==
  /\ Alive /\ thread = "blocked"
  /\ ComesBack("EINTR")
  /\ UNCHANGED <<programVars, rubyVars, main, called, czmqVars, libzmqVars, fault>>

Ends == thread' = "over" /\ UNCHANGED <<msg, called, fault>>

\* The end of a round, and the handler's return.
NextRound ==
  CASE wrapper = "freed"              -> Fails("wrapper_freed")
    [] wrapper = "live" /\ destroyed  -> Ends
    [] wrapper = "live" /\ ~destroyed -> thread' = "receive" /\ UNCHANGED <<msg, called, fault>>

CallHandler(addr) ==
  CASE wrapper = "freed"                     -> Fails("wrapper_freed")
    [] wrapper = "live" /\ ~handler_alive    -> Fails("handler_collected")
    [] wrapper = "live" /\ handler_alive     ->
         /\ thread' = "handler"
         /\ called' = Append(called, [event |-> msg, addr |-> addr])
         /\ UNCHANGED <<msg, fault>>

DispatchGoesOn ==
  /\ Alive /\ thread = "back"
  /\ CASE msg \in Errors  -> thread' = "receive" /\ UNCHANGED <<msg, called, fault>>
       [] msg = Address   -> NextRound
       [] msg \in Events  -> CallHandler("blank")
  /\ UNCHANGED <<programVars, rubyVars, main, czmqVars, libzmqVars>>

\* The receive was not made: the flag is tested again, then asserted.
NotReceived ==
  CASE wrapper = "freed"              -> Fails("wrapper_freed")
    [] wrapper = "live" /\ destroyed  -> Ends
    [] wrapper = "live" /\ ~destroyed -> Fails("receive_failed")

\* Back with the GVL. An address read as an event has no method to call, and
\* an event has the empty address of the second message, never filled in.
Dispatch ==
  /\ Alive /\ thread = "back"
  /\ CASE msg \in {"ETERM", "EINTR"} -> Ends
       [] msg = "destroyed"          -> NotReceived
       [] msg = Address              -> NextRound
       [] msg \in Events             -> CallHandler("blank")
  /\ UNCHANGED <<programVars, rubyVars, main, czmqVars, libzmqVars>>

HandlerReturns ==
  /\ Alive /\ thread = "handler"
  /\ NextRound
  /\ UNCHANGED <<programVars, rubyVars, main, czmqVars, libzmqVars>>

\* rb_funcall raises in the thread, for one if the handler lacks the method.
HandlerRaises ==
  /\ Alive /\ thread = "handler"
  /\ Ends
  /\ UNCHANGED <<programVars, rubyVars, main, czmqVars, libzmqVars>>

-----------------------------------------------------------------------------
MonitorStep ==
  MonitorThread \/ NogvlMonitorRecv \/ Receive \/ Dispatch \/ HandlerReturns

MainStep == CreateSocketReturn \/ NogvlZsocketDestroy \/ MarkDestroyed \/ NogvlZctxDestroy

Next ==
  \/ MonitorStep \/ Interrupted \/ HandlerRaises \/ MainStep
  \/ SocketMonitor \/ CreateSocket \/ SocketClose \/ ContextDestroy
  \/ ForgetSocket \/ ForgetHandler
  \/ FreeSockGc \/ CollectHandler
  \/ StopMonitor \/ \E e \in Events \ {"closed"} : EmitEvent(e)

Spec == Init /\ [][Next]_vars

\* The GVL goes round, czmq's calls return, and handlers return or raise.
FairSpec ==
  /\ Spec
  /\ WF_vars(MonitorStep)
  /\ WF_vars(MainStep)

-----------------------------------------------------------------------------
(* Properties                                                              *)

\* Two threads are never in the socket list of one context: everybody else takes
\* context_mutex for it (context.c:71, 291), and the documentation has ctx.socket
\* follow monitor (socket.c:1843-1846), when the monitor thread makes its socket.
AloneInContext == fault # "two_in_the_context"

\* The PAIR socket is open while the monitor thread receives from it: "once the
\* socket is marked as destroyed, it appears to be not safe to call receive on
\* it" (socket.c:1819).
PairStaysOpen == thread = "blocked" => pair = "open"

\* The handler lives for as long as it may be called, which is past the close:
\* test_monitoring.rb:44-46 closes the socket and expects on_closed.
HandlerIsAlive == fault # "handler_collected"

\* The handler hears of events in the order they happened, of each at most once.
EventsInOrder ==
  IsPrefix([i \in DOMAIN called |-> called[i].event], emitted)

\* An event reaches the handler unless the monitor thread ends first.
EventsReachHandler ==
  \A n \in 1..MaxEvents : Len(emitted) >= n ~> Len(called) >= n \/ thread = "over"

\* Nobody joins the monitor thread: it must come to its end when the context is
\* destroyed (socket.c:1828: "leave the socket to be closed when the context is
\* destroyed"), wherever that finds it.
EndsWithContext == zctx = "destroyed" ~> thread \in {"none", "over"}

\* monitor.rb declares the handlers with the address of the event.
HandlerGetsAddress == \A i \in DOMAIN called : called[i].addr = Address

\* What test_monitoring.rb:46 asserts: a bound socket's close is reported.
ClosedIsReported ==
  "closed" \in ToSet(emitted) ~> \E i \in DOMAIN called : called[i].event = "closed"

=============================================================================
