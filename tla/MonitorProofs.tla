---------------------------- MODULE MonitorProofs ----------------------------
(***************************************************************************)
(* What holds of the monitor thread whatever the program does: types, that *)
(* a receive it did not make is no failed assertion, and that events come  *)
(* to the handler in order.                                                *)
(***************************************************************************)
EXTENDS Monitor, SequenceTheorems, TLAPS

-----------------------------------------------------------------------------
(* Types, whatever the program does                                        *)

\* A closed socket is flagged, or in the hands of the call that closed it.
ClosedIsFlagged == raw = "closed" => destroyed \/ Closing

\* libzmq has room for the last report until it has made it, which is after the
\* close.
RoomForLast ==
  /\ ~stopped => Len(emitted) < MaxEvents
  /\ stopped => raw = "closed"

\* The monitor thread comes back from a receive with something to act on, and
\* without one only from a socket whose flag is set and stays so.
ComesBackWith == thread = "back" => msg # "none" /\ (msg = "destroyed" => destroyed)

\* assert (rc != -1), socket.c:1794.
ReceiveAsserted == fault # "receive_failed"

Typed == TypeOK /\ ClosedIsFlagged /\ RoomForLast /\ ComesBackWith /\ ReceiveAsserted

LEMMA Reporting ==
  ASSUME TypeOK, NEW e \in Events, Report(e)
  PROVE  /\ emitted' \in Seq(Events) /\ Len(emitted') = Len(emitted) + 1
         /\ inbox' \in Seq(Events \cup {Address})
<1>1. emitted' \in Seq(Events) /\ Len(emitted') = Len(emitted) + 1
  BY DEF TypeOK, Report
<1>2. CASE pair = "open"
  <2>1. <<e, Address>> \in Seq(Events \cup {Address})
    OBVIOUS
  <2>2. inbox \o <<e, Address>> \in Seq(Events \cup {Address})
    BY <2>1, ConcatProperties DEF TypeOK
  <2>q. QED
    BY <1>1, <1>2, <2>2 DEF Report
<1>3. CASE pair # "open"
  BY <1>1, <1>3 DEF TypeOK, Report
<1>q. QED
  BY <1>2, <1>3

LEMMA InitTyped == Init => Typed
<1>. SUFFICES ASSUME Init PROVE Typed
  OBVIOUS
<1>1. /\ emitted \in Seq(Events) /\ Len(emitted) < MaxEvents /\ Len(emitted) <= MaxEvents
      /\ inbox \in Seq(Events \cup {Address}) /\ called \in Seq(HandlerCalls)
  BY EmptySeq, ConstantsAssumption DEF Init
<1>2. TypeOK
  BY <1>1 DEF Init, TypeOK
<1>q. QED
  BY <1>1, <1>2 DEF Init, Typed, ClosedIsFlagged, RoomForLast, ComesBackWith, ReceiveAsserted

\* TypeOK in two parts: the program's and the wrapper's variables with the socket
\* itself, and those of the monitor thread and of the libraries.
RubyTyped ==
  /\ held \in BOOLEAN /\ handler_held \in BOOLEAN
  /\ wrapper \in {"live", "freed"}
  /\ destroyed \in BOOLEAN /\ has_ctx \in BOOLEAN /\ handler_alive \in BOOLEAN
  /\ main \in {"ruby", "creating", "closing", "closing_for_the_context", "terminating"}
  /\ raw \in {"open", "closed"}
  /\ ~has_ctx <=> destroyed
  /\ destroyed => raw = "closed"

ThreadTyped ==
  /\ thread \in {"none", "new", "receive", "blocked", "back", "handler", "over"}
  /\ msg \in Events \cup {Address, "none"} \cup Errors
  /\ called \in Seq(HandlerCalls)
  /\ zctx \in {"live", "destroyed"}
  /\ pair \in {"none", "open", "closed"}
  /\ emitted \in Seq(Events) /\ Len(emitted) <= MaxEvents
  /\ inbox \in Seq(Events \cup {Address})
  /\ stopped \in BOOLEAN
  /\ fault \in {"none", "wrapper_freed", "no_context", "two_in_the_context",
                "refused", "handler_collected", "receive_failed"}

LEMMA TypesInParts == TypeOK <=> RubyTyped /\ ThreadTyped
BY DEF TypeOK, RubyTyped, ThreadTyped

\* The thread fails and stays where it was, or opens the PAIR socket.
LEMMA ThreadBegins ==
  ASSUME TypeOK, MonitorThread
  PROVE  /\ UNCHANGED <<msg, called>>
         /\ \/ /\ fault' \in {"wrapper_freed", "no_context", "two_in_the_context", "refused"}
               /\ UNCHANGED <<thread, pair>>
            \/ /\ wrapper = "live" /\ has_ctx /\ ~stopped
               /\ thread' = "receive" /\ pair' = "open" /\ fault' = fault
<1>1. CASE wrapper = "freed"
  BY <1>1 DEF MonitorThread, Fails, threadVars
<1>2. CASE wrapper = "live" /\ ~has_ctx
  BY <1>2 DEF MonitorThread, Fails, threadVars
<1>3. CASE wrapper = "live" /\ has_ctx /\ InContext
  BY <1>3 DEF MonitorThread, Fails, threadVars
<1>4. CASE wrapper = "live" /\ has_ctx /\ ~InContext /\ stopped
  BY <1>4 DEF MonitorThread, Fails, threadVars
<1>5. CASE wrapper = "live" /\ has_ctx /\ ~InContext /\ ~stopped
  BY <1>5 DEF MonitorThread
<1>6. wrapper \in {"live", "freed"} /\ has_ctx \in BOOLEAN /\ stopped \in BOOLEAN
  BY DEF TypeOK
<1>q. QED
  BY <1>1, <1>2, <1>3, <1>4, <1>5, <1>6

\* The thread finds the wrapper freed, goes on, or ends.
LEMMA RoundGoesOn ==
  ASSUME TypeOK, NextRound
  PROVE  /\ UNCHANGED <<msg, called>>
         /\ \/ fault' = "wrapper_freed" /\ thread' = thread
            \/ fault' = fault /\ thread' \in {"receive", "over"}
<1>1. CASE wrapper = "freed"
  BY <1>1 DEF NextRound, Fails, threadVars
<1>2. CASE wrapper = "live" /\ destroyed
  BY <1>2 DEF NextRound, Ends
<1>3. CASE wrapper = "live" /\ ~destroyed
  BY <1>3 DEF NextRound
<1>4. wrapper \in {"live", "freed"} /\ destroyed \in BOOLEAN
  BY DEF TypeOK
<1>q. QED
  BY <1>1, <1>2, <1>3, <1>4

\* The handler is called with an event, and nothing else is handed to it.
Handled == called' = Append(called, [event |-> msg, addr |-> "blank"])

LEMMA HandlerIsCalled ==
  ASSUME TypeOK, CallHandler("blank")
  PROVE  /\ msg' = msg
         /\ \/ fault' \in {"wrapper_freed", "handler_collected"} /\ UNCHANGED <<thread, called>>
            \/ fault' = fault /\ thread' = "handler" /\ Handled
<1>1. CASE wrapper = "freed"
  BY <1>1 DEF CallHandler, Fails, threadVars
<1>2. CASE wrapper = "live" /\ ~handler_alive
  BY <1>2 DEF CallHandler, Fails, threadVars
<1>3. CASE wrapper = "live" /\ handler_alive
  BY <1>3 DEF CallHandler, Handled
<1>4. wrapper \in {"live", "freed"} /\ handler_alive \in BOOLEAN
  BY DEF TypeOK
<1>q. QED
  BY <1>1, <1>2, <1>3, <1>4

LEMMA DispatchGoesBy ==
  ASSUME TypeOK, ComesBackWith, Dispatch
  PROVE  /\ msg' = msg /\ thread = "back" /\ fault = "none"
         /\ UNCHANGED <<programVars, rubyVars, main, czmqVars, libzmqVars>>
         /\ \/ /\ fault' \in {"wrapper_freed", "handler_collected"}
               /\ UNCHANGED <<thread, called>>
            \/ /\ msg \notin Events /\ fault' = fault
               /\ thread' \in {"receive", "over"} /\ called' = called
            \/ /\ msg \in Events /\ fault' = fault
               /\ thread' = "handler" /\ Handled
<1>1. /\ thread = "back" /\ fault = "none"
      /\ UNCHANGED <<programVars, rubyVars, main, czmqVars, libzmqVars>>
  BY DEF Dispatch, Alive
<1>2. CASE msg \in {"ETERM", "EINTR"}
  <2>1. Ends /\ msg \notin Events
    BY <1>2, ConstantsAssumption DEF Dispatch, Address, Errors
  <2>q. QED
    BY <1>1, <2>1 DEF Ends
<1>3. CASE msg = "destroyed"
  <2>1. NotReceived /\ msg \notin Events /\ destroyed /\ wrapper \in {"live", "freed"}
    BY <1>1, <1>3, ConstantsAssumption
       DEF Dispatch, Address, Errors, ComesBackWith, TypeOK
  <2>2. Fails("wrapper_freed") \/ Ends
    BY <2>1 DEF NotReceived
  <2>q. QED
    BY <1>1, <2>1, <2>2 DEF Ends, Fails, threadVars
<1>4. CASE msg = Address
  <2>1. NextRound /\ msg \notin Events
    BY <1>4, ConstantsAssumption DEF Dispatch, Address, Errors
  <2>q. QED
    BY <1>1, <2>1, RoundGoesOn
<1>5. CASE msg \in Events
  <2>1. CallHandler("blank")
    BY <1>5, ConstantsAssumption DEF Dispatch, Address, Errors
  <2>q. QED
    BY <1>1, <1>5, <2>1, HandlerIsCalled
<1>6. msg \in Events \cup {Address} \cup {"destroyed", "ETERM", "EINTR"}
  BY <1>1 DEF TypeOK, ComesBackWith, Errors
<1>q. QED
  BY <1>2, <1>3, <1>4, <1>5, <1>6

LEMMA NextRubyTyped ==
  ASSUME Typed, [Next]_vars
  PROVE  RubyTyped'
<1>. TypeOK /\ RubyTyped
  BY TypesInParts DEF Typed
<1>. USE DEF RubyTyped, programVars, rubyVars, threadVars, czmqVars, libzmqVars
<1>1. CASE MonitorThread
  BY <1>1 DEF MonitorThread
<1>2. CASE NogvlMonitorRecv
  BY <1>2 DEF NogvlMonitorRecv
<1>3. CASE Receive
  BY <1>3 DEF Receive
<1>4. CASE Dispatch
  BY <1>4 DEF Dispatch
<1>5. CASE HandlerReturns
  BY <1>5 DEF HandlerReturns
<1>6. CASE HandlerRaises
  BY <1>6 DEF HandlerRaises
<1>7. CASE CreateSocketReturn
  BY <1>7 DEF CreateSocketReturn
<1>8. CASE NogvlZsocketDestroy
  BY <1>8 DEF NogvlZsocketDestroy
<1>9. CASE MarkDestroyed
  BY <1>9 DEF MarkDestroyed
<1>10. CASE NogvlZctxDestroy
  BY <1>10 DEF NogvlZctxDestroy
<1>11. CASE SocketMonitor
  BY <1>11 DEF SocketMonitor
<1>12. CASE CreateSocket
  BY <1>12 DEF CreateSocket
<1>13. CASE SocketClose
  BY <1>13 DEF SocketClose
<1>14. CASE ContextDestroy
  BY <1>14 DEF ContextDestroy
<1>15. CASE ForgetSocket
  BY <1>15 DEF ForgetSocket
<1>16. CASE ForgetHandler
  BY <1>16 DEF ForgetHandler
<1>17. CASE FreeSockGc
  BY <1>17 DEF FreeSockGc
<1>18. CASE CollectHandler
  BY <1>18 DEF CollectHandler
<1>19. CASE StopMonitor
  BY <1>19 DEF StopMonitor
<1>20. ASSUME NEW e \in Events \ {"closed"}, EmitEvent(e) PROVE RubyTyped'
  BY <1>20 DEF EmitEvent
<1>21. CASE UNCHANGED vars
  BY <1>21 DEF vars
<1>22. CASE Interrupted
  BY <1>22 DEF Interrupted, ComesBack, Errors
<1>q. QED
  BY <1>1, <1>2, <1>3, <1>4, <1>5, <1>6, <1>7, <1>8, <1>9, <1>10, <1>11, <1>12, <1>13, <1>14,
     <1>15, <1>16, <1>17, <1>18, <1>19, <1>20, <1>21, <1>22 DEF Next, MonitorStep, MainStep

LEMMA NextThreadTyped ==
  ASSUME Typed, [Next]_vars
  PROVE  ThreadTyped'
<1>. TypeOK /\ ThreadTyped /\ RoomForLast /\ ComesBackWith
  BY TypesInParts DEF Typed
<1>. USE DEF ThreadTyped, programVars, rubyVars, threadVars, czmqVars, libzmqVars
<1>1. CASE MonitorThread
  BY <1>1, ThreadBegins DEF MonitorThread
<1>2. CASE NogvlMonitorRecv
  BY <1>2 DEF NogvlMonitorRecv, ComesBack, Fails, Errors
<1>3. CASE Receive
  <2>1. msg' \in Events \cup {Address} \cup Errors /\ inbox' \in Seq(Events \cup {Address})
    <3>1. CASE pair = "closed"
      BY <1>3, <3>1 DEF Receive, ComesBack, Errors
    <3>2. CASE pair # "closed"
      <4>1. /\ inbox # <<>> /\ inbox \in Seq(Events \cup {Address})
            /\ inbox' = Tail(inbox) /\ msg' = Head(inbox)
        BY <1>3, <3>2 DEF Receive, ComesBack
      <4>q. QED
        BY <4>1, HeadTailProperties
    <3>q. QED
      BY <3>1, <3>2
  <2>q. QED
    BY <1>3, <2>1 DEF Receive, ComesBack
<1>4. CASE Dispatch
  <2>1. called' \in Seq(HandlerCalls)
    <3>1. CASE Handled /\ msg \in Events
      <4>1. [event |-> msg, addr |-> "blank"] \in HandlerCalls
        BY <3>1 DEF HandlerCalls
      <4>q. QED
        BY <3>1, <4>1 DEF Handled
    <3>q. QED
      BY <1>4, <3>1, DispatchGoesBy
  <2>q. QED
    BY <1>4, <2>1, DispatchGoesBy
<1>5. CASE HandlerReturns
  BY <1>5, RoundGoesOn DEF HandlerReturns
<1>6. CASE HandlerRaises
  BY <1>6 DEF HandlerRaises, Ends
<1>7. CASE CreateSocketReturn
  BY <1>7 DEF CreateSocketReturn
<1>8. CASE NogvlZsocketDestroy
  BY <1>8 DEF NogvlZsocketDestroy
<1>9. CASE MarkDestroyed
  BY <1>9 DEF MarkDestroyed
<1>11. CASE SocketMonitor
  BY <1>11 DEF SocketMonitor
<1>12. CASE CreateSocket
  BY <1>12 DEF CreateSocket
<1>13. CASE SocketClose
  BY <1>13 DEF SocketClose
<1>14. CASE ContextDestroy
  BY <1>14 DEF ContextDestroy
<1>15. CASE ForgetSocket
  BY <1>15 DEF ForgetSocket
<1>16. CASE ForgetHandler
  BY <1>16 DEF ForgetHandler
<1>17. CASE FreeSockGc
  BY <1>17 DEF FreeSockGc
<1>18. CASE CollectHandler
  BY <1>18 DEF CollectHandler
<1>10. CASE NogvlZctxDestroy
  <2>1. inbox' \in Seq(Events \cup {Address}) /\ pair' \in {"none", "open", "closed"}
    BY <1>10, EmptySeq DEF NogvlZctxDestroy
  <2>q. QED
    BY <1>10, <2>1 DEF NogvlZctxDestroy
<1>19. CASE StopMonitor
  <2>1. CASE Report("closed")
    BY <1>19, <2>1, Reporting, ConstantsAssumption DEF StopMonitor, RoomForLast
  <2>2. CASE UNCHANGED <<emitted, inbox>>
    BY <1>19, <2>2 DEF StopMonitor
  <2>q. QED
    BY <1>19, <2>1, <2>2 DEF StopMonitor
<1>20. ASSUME NEW e \in Events \ {"closed"}, EmitEvent(e) PROVE ThreadTyped'
  BY <1>20, Reporting, ConstantsAssumption DEF EmitEvent
<1>21. CASE UNCHANGED vars
  BY <1>21 DEF vars
<1>22. CASE Interrupted
  BY <1>22 DEF Interrupted, ComesBack, Errors
<1>q. QED
  BY <1>1, <1>2, <1>3, <1>4, <1>5, <1>6, <1>7, <1>8, <1>9, <1>10, <1>11, <1>12, <1>13, <1>14,
     <1>15, <1>16, <1>17, <1>18, <1>19, <1>20, <1>21, <1>22 DEF Next, MonitorStep, MainStep

LEMMA NextTypes ==
  ASSUME Typed, [Next]_vars
  PROVE  TypeOK'
BY NextRubyTyped, NextThreadTyped DEF TypeOK, RubyTyped, ThreadTyped

LEMMA NextBase ==
  ASSUME Typed, [Next]_vars
  PROVE  (ClosedIsFlagged /\ RoomForLast /\ ComesBackWith /\ ReceiveAsserted)'
<1>. TypeOK /\ ClosedIsFlagged /\ RoomForLast /\ ComesBackWith /\ ReceiveAsserted
  BY DEF Typed
<1>. USE ConstantsAssumption
     DEF ClosedIsFlagged, RoomForLast, ComesBackWith, ReceiveAsserted, Closing, Address, Errors,
         programVars, rubyVars, threadVars, czmqVars, libzmqVars
<1>1. CASE MonitorThread
  BY <1>1, ThreadBegins DEF MonitorThread
<1>2. CASE NogvlMonitorRecv
  BY <1>2 DEF NogvlMonitorRecv, ComesBack, Fails
<1>3. CASE Receive
  <2>1. msg' # "none" /\ msg' # "destroyed"
    <3>1. CASE pair = "closed"
      BY <1>3, <3>1 DEF Receive, ComesBack
    <3>2. CASE pair # "closed"
      <4>1. inbox # <<>> /\ inbox \in Seq(Events \cup {Address}) /\ msg' = Head(inbox)
        BY <1>3, <3>2 DEF Receive, ComesBack, TypeOK
      <4>2. msg' \in Events \cup {Address}
        BY <4>1, HeadTailProperties
      <4>q. QED
        BY <4>2
    <3>q. QED
      BY <3>1, <3>2
  <2>q. QED
    BY <1>3, <2>1 DEF Receive, ComesBack
<1>4. CASE Dispatch
  BY <1>4, DispatchGoesBy
<1>5. CASE HandlerReturns
  BY <1>5, RoundGoesOn DEF HandlerReturns
<1>6. CASE HandlerRaises
  BY <1>6 DEF HandlerRaises, Ends
<1>7. CASE CreateSocketReturn
  BY <1>7 DEF CreateSocketReturn
<1>8. CASE NogvlZsocketDestroy
  BY <1>8 DEF NogvlZsocketDestroy
<1>9. CASE MarkDestroyed
  BY <1>9 DEF MarkDestroyed
<1>10. CASE NogvlZctxDestroy
  BY <1>10 DEF NogvlZctxDestroy
<1>11. CASE SocketMonitor
  BY <1>11 DEF SocketMonitor, TypeOK
<1>12. CASE CreateSocket
  BY <1>12 DEF CreateSocket
<1>13. CASE SocketClose
  BY <1>13 DEF SocketClose
<1>14. CASE ContextDestroy
  BY <1>14 DEF ContextDestroy
<1>15. CASE ForgetSocket
  BY <1>15 DEF ForgetSocket
<1>16. CASE ForgetHandler
  BY <1>16 DEF ForgetHandler
<1>17. CASE FreeSockGc
  BY <1>17 DEF FreeSockGc
<1>18. CASE CollectHandler
  BY <1>18 DEF CollectHandler
<1>19. CASE StopMonitor
  BY <1>19, Reporting DEF StopMonitor, TypeOK
<1>20. ASSUME NEW e \in Events \ {"closed"}, EmitEvent(e)
       PROVE  (ClosedIsFlagged /\ RoomForLast /\ ComesBackWith /\ ReceiveAsserted)'
  BY <1>20, Reporting DEF EmitEvent, TypeOK
<1>21. CASE UNCHANGED vars
  BY <1>21 DEF vars
<1>22. CASE Interrupted
  BY <1>22 DEF Interrupted, ComesBack, Errors
<1>q. QED
  BY <1>1, <1>2, <1>3, <1>4, <1>5, <1>6, <1>7, <1>8, <1>9, <1>10, <1>11, <1>12, <1>13, <1>14,
     <1>15, <1>16, <1>17, <1>18, <1>19, <1>20, <1>21, <1>22 DEF Next, MonitorStep, MainStep

LEMMA AlwaysTyped == Spec => []Typed
<1>1. Typed /\ [Next]_vars => Typed'
  BY NextTypes, NextBase DEF Typed
<1>q. QED
  BY <1>1, InitTyped, PTL DEF Spec

\* A receive that the flag prevented finds the flag still set when it is tested
\* again with the GVL, so that assert (rc != -1) (socket.c:1794) never fails,
\* whatever the program does.
THEOREM ReceiveNeverFails == Spec => []ReceiveAsserted
<1>1. Typed => ReceiveAsserted
  BY DEF Typed
<1>q. QED
  BY <1>1, AlwaysTyped, PTL

\* The variables have their types, and a socket without the flag is in order,
\* whatever the program does.
THEOREM TypeCorrect == Spec => []TypeOK
<1>1. Typed => TypeOK
  BY DEF Typed
<1>q. QED
  BY <1>1, AlwaysTyped, PTL

-----------------------------------------------------------------------------
(* The order of events                                                     *)

\* An event is received and its handler not called yet.
Pending == thread = "back" /\ msg \in Events

\* How many events and how many frames of them the monitor thread has received.
EventsReceived == Len(called) + IF Pending THEN 1 ELSE 0
FramesReceived == 2 * Len(emitted) - Len(inbox)

\* The handler has had the first events, and the next one if any is pending.
CalledInOrder ==
  /\ Len(called) <= Len(emitted)
  /\ \A i \in 1..Len(called) : called[i].event = emitted[i]
  /\ Pending => Len(called) < Len(emitted) /\ msg = emitted[Len(called) + 1]

\* The inbox holds the frames after those received: for the k-th event frame 2k-1,
\* and its address in frame 2k.
InboxInOrder ==
  /\ FramesReceived \in {2 * EventsReceived, 2 * EventsReceived - 1} /\ FramesReceived >= 0
  /\ \A k \in 1..Len(emitted) :
       /\ FramesReceived < 2 * k - 1 => inbox[2 * k - 1 - FramesReceived] = emitted[k]
       /\ FramesReceived < 2 * k     => inbox[2 * k - FramesReceived] = Address

\* Before there is a PAIR socket there is nothing to receive, and no event but the
\* last one of a socket that is closed before the thread has begun.
NothingBefore ==
  /\ thread \in {"none", "new"} <=> pair = "none"
  /\ pair = "none" => called = <<>> /\ inbox = <<>> /\ (~stopped => emitted = <<>>)

InOrder == CalledInOrder /\ NothingBefore /\ (pair = "open" => InboxInOrder)

LEMMA InitInOrder == Init => InOrder
BY DEF Init, InOrder, CalledInOrder, NothingBefore, Pending

LEMMA ReportInOrder ==
  ASSUME TypeOK, InOrder, NEW e \in Events, Report(e), UNCHANGED <<threadVars, czmqVars>>,
         pair # "none" \/ stopped'
  PROVE  InOrder'
<1>1. /\ \A k \in 1..Len(emitted) : emitted'[k] = emitted[k]
      /\ emitted'[Len(emitted) + 1] = e /\ Len(emitted') = Len(emitted) + 1
  BY DEF TypeOK, Report
<1>2. CalledInOrder' /\ NothingBefore'
  <2>1. CalledInOrder'
    BY <1>1 DEF TypeOK, InOrder, CalledInOrder, Pending, threadVars
  <2>2. NothingBefore'
    <3>1. pair = "none" => inbox' = inbox
      BY DEF Report
    <3>q. QED
      BY <3>1 DEF TypeOK, InOrder, NothingBefore, threadVars, czmqVars
  <2>q. QED
    BY <2>1, <2>2
<1>3. ASSUME pair = "open"
      PROVE  InboxInOrder'
  <2>1. /\ Len(inbox') = Len(inbox) + 2
        /\ \A j \in 1..Len(inbox) : inbox'[j] = inbox[j]
        /\ inbox'[Len(inbox) + 1] = e /\ inbox'[Len(inbox) + 2] = Address
    <3>1. <<e, Address>> \in Seq(Events \cup {Address})
      OBVIOUS
    <3>q. QED
      BY <1>3, <3>1, ConcatProperties DEF TypeOK, Report
  <2>2. FramesReceived' = FramesReceived /\ EventsReceived' = EventsReceived
    BY <1>1, <2>1 DEF TypeOK, FramesReceived, EventsReceived, Pending, threadVars
  <2>3. FramesReceived + Len(inbox) = 2 * Len(emitted) /\ FramesReceived \in Int
    BY DEF TypeOK, FramesReceived
  <2>4. InboxInOrder
    BY <1>3 DEF InOrder
  <2>5. ASSUME NEW k \in 1..Len(emitted')
        PROVE  /\ FramesReceived < 2 * k - 1 => inbox'[2 * k - 1 - FramesReceived] = emitted'[k]
               /\ FramesReceived < 2 * k     => inbox'[2 * k - FramesReceived] = Address
    <3>1. CASE k = Len(emitted) + 1
      BY <1>1, <2>1, <2>3, <3>1 DEF TypeOK
    <3>2. CASE k \in 1..Len(emitted)
      <4>1. emitted'[k] = emitted[k] /\ Len(emitted) \in Nat
        BY <1>1, <3>2 DEF TypeOK
      <4>2. ASSUME FramesReceived < 2 * k - 1
            PROVE  inbox'[2 * k - 1 - FramesReceived] = emitted'[k]
        <5>1. 2 * k - 1 - FramesReceived \in 1..Len(inbox)
          BY <2>3, <3>2, <4>1, <4>2
        <5>q. QED
          BY <2>1, <2>4, <3>2, <4>1, <4>2, <5>1 DEF InboxInOrder
      <4>3. ASSUME FramesReceived < 2 * k
            PROVE  inbox'[2 * k - FramesReceived] = Address
        <5>1. 2 * k - FramesReceived \in 1..Len(inbox)
          BY <2>3, <3>2, <4>1, <4>3
        <5>q. QED
          BY <2>1, <2>4, <3>2, <4>3, <5>1 DEF InboxInOrder
      <4>q. QED
        BY <4>2, <4>3
    <3>q. QED
      BY <1>1, <3>1, <3>2 DEF TypeOK
  <2>q. QED
    BY <2>2, <2>4, <2>5 DEF InboxInOrder
<1>q. QED
  BY <1>2, <1>3 DEF InOrder, czmqVars

\* Receiving takes the first frame from the inbox, or ends with the context.
LEMMA ReceiveInOrder ==
  ASSUME TypeOK, InOrder, Receive
  PROVE  InOrder'
<1>1. /\ thread = "blocked" /\ thread' = "back" /\ ~Pending
      /\ UNCHANGED <<called, pair, emitted>> /\ pair # "none"
  BY DEF Receive, ComesBack, czmqVars, Pending, InOrder, NothingBefore
<1>2. NothingBefore'
  BY <1>1 DEF NothingBefore
<1>3. CASE pair = "closed"
  <2>1. ~Pending'
    BY <1>3, ConstantsAssumption DEF Receive, ComesBack, Pending, Errors
  <2>q. QED
    BY <1>1, <1>2, <1>3, <2>1 DEF InOrder, CalledInOrder
<1>4. CASE pair # "closed"
  <2>1. InboxInOrder /\ CalledInOrder
    BY <1>1, <1>4 DEF InOrder, TypeOK
  <2>2. inbox \in Seq(Events \cup {Address}) /\ Len(emitted) \in Nat /\ Len(called) \in Nat
    BY DEF TypeOK
  <2>3. inbox # <<>> /\ msg' = Head(inbox) /\ inbox' = Tail(inbox)
    BY <1>4 DEF Receive, ComesBack
  <2>4. /\ msg' = inbox[1] /\ Len(inbox) >= 1 /\ Len(inbox') = Len(inbox) - 1
        /\ \A j \in 1..Len(inbox') : inbox'[j] = inbox[j + 1]
    BY <2>2, <2>3, HeadTailProperties, EmptySeq
  <2>5. /\ FramesReceived' = FramesReceived + 1 /\ FramesReceived + Len(inbox) = 2 * Len(emitted)
        /\ FramesReceived \in Int /\ Len(inbox) \in Nat /\ EventsReceived = Len(called)
    BY <1>1, <2>2, <2>4 DEF FramesReceived, EventsReceived
  <2>6. ASSUME NEW k \in 1..Len(emitted')
        PROVE  /\ FramesReceived' < 2 * k - 1 => inbox'[2 * k - 1 - FramesReceived'] = emitted'[k]
               /\ FramesReceived' < 2 * k     => inbox'[2 * k - FramesReceived'] = Address
    <3>1. k \in 1..Len(emitted) /\ emitted' = emitted
      BY <1>1
    <3>2. ASSUME FramesReceived' < 2 * k - 1
          PROVE  inbox'[2 * k - 1 - FramesReceived'] = emitted'[k]
      <4>1. 2 * k - 1 - FramesReceived' \in 1..Len(inbox')
        BY <2>2, <2>4, <2>5, <3>1, <3>2
      <4>2. inbox'[2 * k - 1 - FramesReceived'] = inbox[2 * k - 1 - FramesReceived]
        BY <2>4, <2>5, <4>1
      <4>q. QED
        BY <2>1, <2>5, <3>1, <3>2, <4>2 DEF InboxInOrder
    <3>3. ASSUME FramesReceived' < 2 * k
          PROVE  inbox'[2 * k - FramesReceived'] = Address
      <4>1. 2 * k - FramesReceived' \in 1..Len(inbox')
        BY <2>2, <2>4, <2>5, <3>1, <3>3
      <4>2. inbox'[2 * k - FramesReceived'] = inbox[2 * k - FramesReceived]
        BY <2>4, <2>5, <4>1
      <4>q. QED
        BY <2>1, <2>5, <3>1, <3>3, <4>2 DEF InboxInOrder
    <3>q. QED
      BY <3>2, <3>3
  <2>7. CASE FramesReceived = 2 * Len(called)
    <3>1. Len(called) + 1 \in 1..Len(emitted)
      BY <2>2, <2>4, <2>5, <2>7
    <3>2. inbox[2 * (Len(called) + 1) - 1 - FramesReceived] = emitted[Len(called) + 1]
      BY <2>1, <2>2, <2>7, <3>1 DEF InboxInOrder
    <3>3. 2 * (Len(called) + 1) - 1 - FramesReceived = 1
      BY <2>2, <2>7
    <3>4. msg' = emitted[Len(called) + 1] /\ msg' \in Events
      BY <2>4, <3>1, <3>2, <3>3 DEF TypeOK
    <3>5. Pending' /\ EventsReceived' = Len(called) + 1
      BY <1>1, <3>4 DEF Pending, EventsReceived
    <3>6. CalledInOrder'
      BY <1>1, <2>1, <2>2, <3>1, <3>4 DEF CalledInOrder
    <3>7. InboxInOrder'
      BY <2>2, <2>5, <2>6, <2>7, <3>5 DEF InboxInOrder
    <3>q. QED
      BY <1>2, <3>6, <3>7 DEF InOrder
  <2>8. CASE FramesReceived = 2 * Len(called) - 1
    <3>1. Len(called) \in 1..Len(emitted)
      <4>1. FramesReceived >= 0 /\ Len(called) <= Len(emitted)
        BY <2>1 DEF InboxInOrder, CalledInOrder
      <4>q. QED
        BY <2>2, <2>5, <2>8, <4>1
    <3>2. inbox[2 * Len(called) - FramesReceived] = Address
      BY <2>1, <2>2, <2>8, <3>1 DEF InboxInOrder
    <3>3. 2 * Len(called) - FramesReceived = 1
      BY <2>2, <2>8
    <3>4. msg' = Address
      BY <2>4, <3>2, <3>3
    <3>5. ~Pending' /\ EventsReceived' = Len(called)
      BY <1>1, <3>4, ConstantsAssumption DEF Pending, EventsReceived
    <3>6. CalledInOrder'
      BY <1>1, <2>1, <3>5 DEF CalledInOrder
    <3>7. InboxInOrder'
      BY <2>2, <2>5, <2>6, <2>8, <3>5 DEF InboxInOrder
    <3>q. QED
      BY <1>2, <3>6, <3>7 DEF InOrder
  <2>q. QED
    BY <2>1, <2>5, <2>7, <2>8 DEF InboxInOrder
<1>q. QED
  BY <1>3, <1>4

\* Nothing but the place of the thread changes, and nothing is pending.
LEMMA PlaceChanges ==
  ASSUME InOrder, ~Pending, ~Pending', UNCHANGED <<called, czmqVars, emitted, inbox>>,
         thread \notin {"none", "new"}, thread' \notin {"none", "new"}
  PROVE  InOrder'
BY DEF InOrder, CalledInOrder, NothingBefore, InboxInOrder, EventsReceived, FramesReceived,
       czmqVars

\* Neither the thread nor what it receives changes.
LEMMA StaysInOrder ==
  ASSUME InOrder, UNCHANGED <<threadVars, pair, emitted, inbox, stopped>>
  PROVE  InOrder'
BY DEF InOrder, CalledInOrder, NothingBefore, InboxInOrder, EventsReceived, FramesReceived,
       Pending, threadVars

\* A step that fails leaves everything else as it was.
LEMMA FailureChangesNothing ==
  ASSUME TypeOK, ComesBackWith, [Next]_vars, fault' # "none"
  PROVE  UNCHANGED <<threadVars, pair, emitted, inbox, stopped>>
<1>1. CASE MonitorThread
  BY <1>1, ThreadBegins DEF MonitorThread, Alive, threadVars, libzmqVars
<1>2. CASE NogvlMonitorRecv
  BY <1>2 DEF NogvlMonitorRecv, Alive, Fails, libzmqVars
<1>3. CASE Dispatch
  BY <1>3, DispatchGoesBy DEF threadVars, libzmqVars, czmqVars
<1>4. CASE HandlerReturns
  BY <1>4, RoundGoesOn DEF HandlerReturns, Alive, threadVars, libzmqVars, czmqVars
<1>5. CASE UNCHANGED vars
  BY <1>5 DEF vars, czmqVars, libzmqVars
<1>6. CASE Next /\ ~MonitorThread /\ ~NogvlMonitorRecv /\ ~Dispatch /\ ~HandlerReturns
  BY <1>6 DEF Next, MonitorStep, MainStep, Receive, Interrupted, HandlerRaises, Ends, CreateSocketReturn,
              NogvlZsocketDestroy, MarkDestroyed, NogvlZctxDestroy, SocketMonitor, CreateSocket,
              SocketClose, ContextDestroy, ForgetSocket, ForgetHandler, FreeSockGc,
              CollectHandler, StopMonitor, EmitEvent, Alive
<1>q. QED
  BY <1>1, <1>2, <1>3, <1>4, <1>5, <1>6

LEMMA NextInOrder ==
  ASSUME Typed, InOrder, [Next]_vars
  PROVE  InOrder'
<1>. SUFFICES ASSUME fault' = "none" PROVE InOrder'
  BY FailureChangesNothing, StaysInOrder DEF Typed
<1>1. TypeOK /\ TypeOK' /\ ClosedIsFlagged /\ ComesBackWith /\ fault' = "none"
  BY NextTypes DEF Typed
<1>2. CASE MonitorThread
  <2>1. ~Pending /\ ~Pending' /\ pair = "none" /\ emitted = <<>> /\ called = <<>> /\ inbox = <<>>
    <3>1. ~stopped /\ thread = "new" /\ thread' = "receive"
      BY <1>1, <1>2, ThreadBegins DEF MonitorThread
    <3>q. QED
      BY <3>1 DEF InOrder, NothingBefore, Pending
  <2>2. thread' = "receive" /\ pair' = "open" /\ UNCHANGED <<called, emitted, inbox>>
    BY <1>1, <1>2, ThreadBegins DEF MonitorThread, libzmqVars
  <2>q. QED
    BY <2>1, <2>2 DEF InOrder, CalledInOrder, NothingBefore, InboxInOrder, EventsReceived,
                      FramesReceived
<1>3. CASE NogvlMonitorRecv
  BY <1>3, PlaceChanges, ConstantsAssumption
     DEF NogvlMonitorRecv, Fails, ComesBack, Pending, Errors, threadVars, czmqVars, libzmqVars
<1>4. CASE Receive
  BY <1>1, <1>4, ReceiveInOrder
<1>5. CASE Dispatch
  <2>1. CASE msg \notin Events
    <3>1. /\ thread' \in {"back", "receive", "over"} /\ ~Pending /\ ~Pending'
          /\ UNCHANGED <<called, czmqVars, emitted, inbox>>
      <4>1. msg' = msg /\ thread' \in {"receive", "over"} /\ called' = called
        BY <1>1, <1>5, <2>1, DispatchGoesBy
      <4>q. QED
        BY <1>5, <2>1, <4>1 DEF Dispatch, Pending, czmqVars, libzmqVars
    <3>q. QED
      BY <1>5, <3>1, PlaceChanges DEF Dispatch
  <2>2. CASE msg \in Events
    <3>1. /\ thread = "back" /\ thread' = "handler" /\ UNCHANGED <<pair, emitted, inbox>>
          /\ called' = Append(called, [event |-> msg, addr |-> "blank"])
      BY <1>1, <1>5, <2>2, ConstantsAssumption
         DEF Dispatch, CallHandler, Fails, TypeOK, Errors, czmqVars, libzmqVars
    <3>2. /\ Len(called') = Len(called) + 1 /\ called'[Len(called) + 1].event = msg
          /\ \A i \in 1..Len(called) : called'[i] = called[i]
      BY <1>1, <3>1 DEF TypeOK
    <3>3. Pending /\ ~Pending' /\ Len(called) \in Nat /\ Len(emitted) \in Nat
      BY <1>1, <2>2, <3>1 DEF Pending, TypeOK
    <3>4. CalledInOrder'
      BY <3>1, <3>2, <3>3 DEF InOrder, CalledInOrder
    <3>5. InboxInOrder => InboxInOrder'
      BY <3>1, <3>2, <3>3 DEF InboxInOrder, EventsReceived, FramesReceived
    <3>6. NothingBefore'
      BY <3>1 DEF InOrder, NothingBefore
    <3>q. QED
      BY <3>1, <3>4, <3>5, <3>6 DEF InOrder
  <2>q. QED
    BY <2>1, <2>2
<1>6. CASE HandlerReturns
  <2>1. /\ thread = "handler" /\ thread' \in {"handler", "receive", "over"}
        /\ UNCHANGED <<called, czmqVars, emitted, inbox>>
    BY <1>1, <1>6
       DEF HandlerReturns, TypeOK, Ends, Fails, NextRound, threadVars, czmqVars, libzmqVars
  <2>q. QED
    BY <2>1, PlaceChanges DEF Pending
<1>7. CASE HandlerRaises
  BY <1>7, PlaceChanges DEF HandlerRaises, Pending, Ends, czmqVars, libzmqVars
<1>8. CASE NogvlZctxDestroy
  BY <1>8 DEF NogvlZctxDestroy, InOrder, CalledInOrder, NothingBefore, Pending, threadVars
<1>9. CASE SocketMonitor
  BY <1>9 DEF SocketMonitor, InOrder, CalledInOrder, NothingBefore, InboxInOrder, EventsReceived,
              FramesReceived, Pending, czmqVars, libzmqVars
<1>10. CASE StopMonitor
  <2>1. stopped' = TRUE
    BY <1>10 DEF StopMonitor
  <2>2. CASE Report("closed")
    BY <1>1, <1>10, <2>1, <2>2, ReportInOrder, ConstantsAssumption DEF StopMonitor
  <2>3. CASE UNCHANGED <<emitted, inbox>>
    BY <1>10, <2>1, <2>3 DEF StopMonitor, InOrder, CalledInOrder, NothingBefore, InboxInOrder,
                       EventsReceived, FramesReceived, Pending, threadVars, czmqVars
  <2>q. QED
    BY <1>10, <2>2, <2>3 DEF StopMonitor
<1>11. ASSUME NEW e \in Events \ {"closed"}, EmitEvent(e)
       PROVE  InOrder'
  BY <1>1, <1>11, ReportInOrder DEF EmitEvent
<1>12. CASE UNCHANGED <<threadVars, pair, emitted, inbox, stopped>>
  BY <1>12, StaysInOrder
<1>13. CASE Interrupted
  BY <1>13, PlaceChanges, ConstantsAssumption
     DEF Interrupted, ComesBack, Pending, Errors, czmqVars, libzmqVars
<1>q. QED
  BY <1>2, <1>3, <1>4, <1>5, <1>6, <1>7, <1>8, <1>9, <1>10, <1>11, <1>12, <1>13
     DEF Next, MonitorStep, MainStep, CreateSocketReturn, NogvlZsocketDestroy, MarkDestroyed,
         CreateSocket, SocketClose, ContextDestroy, ForgetSocket, ForgetHandler, FreeSockGc,
         CollectHandler, vars, czmqVars, libzmqVars

\* The handler hears of events in the order they happened, of each at most once,
\* also when the socket or its handler is collected under the thread.
THEOREM HeardInOrder == Spec => []EventsInOrder
<1>1. Typed /\ InOrder /\ [Next]_vars => InOrder'
  BY NextInOrder
<1>2. ASSUME TypeOK, CalledInOrder
      PROVE  EventsInOrder
  <2>. DEFINE heard == [i \in DOMAIN called |-> called[i].event]
  <2>1. heard \in Seq(Events) /\ Len(heard) = Len(called) /\ Len(heard) \in Nat
    <3>1. Len(called) \in Nat /\ DOMAIN called = 1..Len(called)
      BY <1>2 DEF TypeOK
    <3>2. ASSUME NEW i \in 1..Len(called)
          PROVE  called[i].event \in Events
      <4>1. called[i] \in HandlerCalls
        BY <1>2, ElementOfSeq DEF TypeOK
      <4>q. QED
        BY <4>1 DEF HandlerCalls
    <3>3. heard \in [1..Len(called) -> Events]
      BY <3>1, <3>2
    <3>q. QED
      BY <3>1, <3>3
  <2>2. \A i \in 1..Len(heard) : heard[i] = emitted[i]
    BY <1>2, <2>1 DEF CalledInOrder, TypeOK
  <2>3. Len(heard) <= Len(emitted)
    BY <1>2, <2>1 DEF CalledInOrder
  <2>. HIDE DEF heard
  <2>4. SubSeq(heard, 1, Len(heard)) = SubSeq(emitted, 1, Len(heard))
    BY <1>2, <2>1, <2>2, <2>3, SubSeqProperties, SeqEqual DEF TypeOK
  <2>5. IsPrefix(heard, emitted)
    BY <2>3, <2>4 DEF IsPrefix
  <2>q. QED
    BY <2>5 DEF EventsInOrder, heard
<1>3. TypeOK /\ InOrder => EventsInOrder
  BY <1>2 DEF InOrder
<1>4. Typed => TypeOK
  BY DEF Typed
<1>q. QED
  BY <1>1, <1>3, <1>4, AlwaysTyped, InitInOrder, PTL DEF Spec

=============================================================================
