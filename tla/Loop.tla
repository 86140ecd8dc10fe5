--------------------------------- MODULE Loop ---------------------------------
(***************************************************************************)
(* ZMQ::Loop and ZMQ::Timer (ext/rbczmq/loop.c, timer.c, lib/zmq/loop.rb). *)
(*                                                                         *)
(* A loop wraps a czmq zloop_t, which holds raw pointers to the registered *)
(* timers and poll items; the Ruby array items keeps those objects from    *)
(* the collector.  start runs the zloop without the GVL, in passes: wait   *)
(* in zmq_poll, fire the timers that are due, serve the items that are     *)
(* ready.  Their callbacks take the GVL back and call into Ruby, where the *)
(* handler may use the loop.  A loop is used by the thread that starts it; *)
(* the collector and interrupts come at any time.                          *)
(*                                                                         *)
(* Of zloop_t (external) this much is assumed: what ends a timer or an     *)
(* item takes effect when the pass is over at the latest, until then it    *)
(* may still be called; an entry whose callback returns -1 ends the run    *)
(* and stays queued; and the entries of a zloop outlive its runs.          *)
(* A definition named for a fault (...NotKept, ...TimerFails) is a wrong  *)
(* version of the one after it, for the check that a property notices.     *)
(***************************************************************************)
EXTENDS Naturals, Sequences, FiniteSets

CONSTANTS
  Timers,     \* ZMQ::Timer objects
  Pollitems,  \* ZMQ::Pollitem objects, all about one socket, with handlers
  Loop,       \* the ZMQ::Loop object
  MaxRuns,    \* how often it is started
  Risky       \* what the program does although it goes wrong

RiskyUses ==
  { "restart",               \* start a loop a second time
    "rescue_in_on_error",    \* an on_error that returns
    "cancel_what_failed",    \* cancel a timer whose handler was rescued
    "destroy_while_running", \* loop.destroy in a handler
    "forget_at_once" }       \* drop what was cancelled before the pass is over

Values == Timers \cup Pollitems

ASSUME ConstantsAssumption ==
  /\ Loop \notin Values /\ Timers \cap Pollitems = {}
  /\ MaxRuns \in Nat
  /\ Risky \subseteq RiskyUses

VARIABLES
  zloop,        \* "none" before ZMQ::Loop.new, then "live", then "freed"
  running,      \* zmq_loop_wrapper.running
  items,        \* what the Ruby array of the loop keeps alive
  interrupted   \* zctx_interrupted, a variable of the process

VARIABLES
  life,         \* [Values -> "unmade", "live" or "freed"]
  held,         \* the objects the program has a reference to
  cancelled     \* the timers with zmq_timer_wrapper.cancelled set

VARIABLES
  timers,       \* the timer entries of the zloop, each a callback and its arg
  pollers,      \* the poll items of the zloop
  ended         \* what was cancelled or removed since the last pass

VARIABLES
  pc,           \* where start is
  left,         \* the entries this pass has not come to
  ready,        \* the items this pass has yet to serve
  broken,       \* did the last callback return -1?
  call          \* the callback that runs Ruby code, or NoCall

VARIABLES
  result,       \* how the last run ended
  asked,        \* did a handler of this run want it to end?
  runs,
  overwritten,  \* the handlers a breaker took for the loop's wrapper
  fault         \* what a callback used although it was gone, or "none"

loopVars == <<zloop, running, items, interrupted>>
valueVars == <<life, held, cancelled>>
zloopVars == <<timers, pollers, ended>>
passVars == <<pc, left, ready, broken, call>>
runVars == <<result, asked, runs>>
faultVars == <<overwritten, fault>>
vars == <<loopVars, valueVars, zloopVars, passVars, runVars, faultVars>>

Entry(callback, arg) == [callback |-> callback, arg |-> arg]
Started == Entry("started", Loop)
Breaker(v) == Entry("breaker", v)
Entries == {Started} \cup {Breaker(v) : v \in Values \cup {Loop}}
             \cup {Entry("timer", t) : t \in Timers}

\* What the object of a callback is called with: a timer, and a handler for one
\* event after the other, in the order of loop.c.
Methods == {"call", "on_readable", "on_writable", "on_error"}
MethodsFor(revents) ==
  LET If(event, method) == IF event \in revents THEN <<method>> ELSE <<>>
  IN  If("POLLIN", "on_readable") \o If("POLLOUT", "on_writable")
        \o If("POLLERR", "on_error")
NoCall == [of |-> Loop, methods |-> <<>>, failed |-> FALSE]

TypeOK ==
  /\ zloop \in {"none", "live", "freed"}
  /\ running \in BOOLEAN /\ interrupted \in BOOLEAN
  /\ items \subseteq Values
  /\ life \in [Values -> {"unmade", "live", "freed"}]
  /\ held \subseteq Values \cup {Loop} /\ cancelled \subseteq Timers
  /\ timers \subseteq Entries /\ pollers \subseteq Pollitems
  /\ ended \subseteq Values
  /\ pc \in {"outside", "poll", "timers", "items", "handler", "pass_over"}
  /\ left \subseteq Entries /\ ready \subseteq Pollitems
  /\ broken \in BOOLEAN
  /\ call.of \in Values \cup {Loop} /\ call.failed \in BOOLEAN
  /\ call.methods \in Seq(Methods)
  /\ result \in {"none", "0", "-1", "raised"}
  /\ asked \in BOOLEAN /\ runs \in 0..MaxRuns
  /\ overwritten \subseteq Values
  /\ fault \in {"none", "freed_value", "freed_zloop"}

Init ==
  /\ zloop = "none" /\ running = FALSE /\ items = {} /\ interrupted = FALSE
  /\ life = [v \in Values |-> "unmade"] /\ held = {} /\ cancelled = {}
  /\ timers = {} /\ pollers = {} /\ ended = {}
  /\ pc = "outside" /\ left = {} /\ ready = {} /\ broken = FALSE /\ call = NoCall
  /\ result = "none" /\ asked = FALSE /\ runs = 0
  /\ overwritten = {} /\ fault = "none"

Inside == pc # "outside"

\* Does Ruby code of the program run on the loop's thread?
Program == fault = "none" /\ pc \in {"outside", "handler"}

\* ZmqGetLoop: may the program call a method of the loop?
MayCall == Program /\ Loop \in held /\ zloop = "live"

Has(v) == v \in held /\ life[v] = "live"

\* The program gets hold of v: it makes it if it does not have it already.
Obtain(v) ==
  /\ Has(v) \/ life[v] = "unmade"
  /\ life' = [life EXCEPT ![v] = "live"]
  /\ held' = held \cup {v}

-----------------------------------------------------------------------------
(* Objects                                                                 *)

\* ZMQ::Loop.new.
LoopNew ==
  /\ Program /\ zloop = "none"
  /\ zloop' = "live" /\ held' = held \cup {Loop}
  /\ UNCHANGED <<running, items, interrupted, life, cancelled, zloopVars, passVars,
                 runVars, faultVars>>

\* The program lets go of an object.
Forget(v) ==
  /\ Program /\ v \in held
  /\ v \notin ended \/ "forget_at_once" \in Risky
  /\ held' = held \ {v}
  /\ UNCHANGED <<loopVars, life, cancelled, zloopVars, passVars, runVars, faultVars>>

\* The collector frees a timer or a poll item: the program does not hold it,
\* the loop does not mark it, and it is not the receiver of a running call.
Collect(v) ==
  /\ fault = "none" /\ life[v] = "live"
  /\ v \notin held \cup items /\ call.of # v
  /\ life' = [life EXCEPT ![v] = "freed"]
  /\ UNCHANGED <<loopVars, held, cancelled, zloopVars, passVars, runVars, faultVars>>

\* rb_czmq_free_loop: the breaker it queues goes with the zloop.
FreeLoop ==
  /\ zloop' = "freed"
  /\ timers' = {} /\ pollers' = {} /\ ended' = {}
  /\ UNCHANGED <<running, interrupted>>

Destroy ==
  /\ MayCall
  /\ Inside => "destroy_while_running" \in Risky
  /\ FreeLoop
  /\ UNCHANGED <<items, valueVars, passVars, runVars, faultVars>>

\* The collector frees the loop, which a run keeps on the stack.
CollectLoop ==
  /\ fault = "none" /\ zloop = "live" /\ Loop \notin held /\ ~Inside
  /\ FreeLoop
  /\ items' = {}
  /\ UNCHANGED <<valueVars, passVars, runVars, faultVars>>

-----------------------------------------------------------------------------
(* Methods of the loop and its timers                                      *)

\* zloop_timer: an entry queued while the timers are handled may be due before
\* the pass is over.
Queue(e) ==
  /\ timers' = timers \cup {e}
  /\ left' = IF pc = "handler" /\ call.of \in Timers THEN left \cup {e} ELSE left

\* stop raises unless the loop is running.
Stop ==
  /\ MayCall /\ running
  /\ Queue(Breaker(Loop))
  /\ asked' = (asked \/ Inside)
  /\ UNCHANGED <<loopVars, valueVars, pollers, ended, pc, ready, broken, call,
                 result, runs, faultVars>>

RegisterTimerNotKept(t) ==
  /\ MayCall /\ Obtain(t)
  /\ Queue(Entry("timer", t))
  /\ UNCHANGED <<loopVars, cancelled, pollers, ended, pc, ready, broken, call,
                 runVars, faultVars>>

\* ZMQ::Loop.add_timer, or register_timer of a timer the program has.
RegisterTimer(t) ==
  /\ MayCall /\ Obtain(t)
  /\ Queue(Entry("timer", t))
  /\ items' = items \cup {t}
  /\ UNCHANGED <<zloop, running, interrupted, cancelled, pollers, ended, pc, ready,
                 broken, call, runVars, faultVars>>

\* The zloop ends a timer by its argument, and so the breaker that was queued
\* with the timer as its argument when the timer's handler failed.
MayCancel(t) == Has(t) /\ (Breaker(t) \in timers => "cancel_what_failed" \in Risky)

CancelTimer(t) ==
  /\ MayCall /\ MayCancel(t)
  /\ ended' = ended \cup {t}
  /\ items' = items \ {t}
  /\ UNCHANGED <<zloop, running, interrupted, valueVars, timers, pollers, passVars,
                 runVars, faultVars>>

\* ZMQ::Timer#cancel leaves the loop as it is: the callback looks at the flag.
TimerCancel(t) ==
  /\ Program /\ MayCancel(t)
  /\ cancelled' = cancelled \cup {t}
  /\ UNCHANGED <<loopVars, life, held, zloopVars, passVars, runVars, faultVars>>

\* register of a poll item, or of a pollable that is made one first.
Register(i) ==
  /\ MayCall /\ Obtain(i)
  /\ items' = items \cup {i} /\ pollers' = pollers \cup {i}
  /\ UNCHANGED <<zloop, running, interrupted, cancelled, timers, ended, passVars,
                 runVars, faultVars>>

\* zloop_poller_end ends every item about the socket.
PollerEnd ==
  /\ pollers' = {}
  /\ ended' = ended \cup ready
  /\ UNCHANGED <<zloop, running, interrupted, valueVars, timers, passVars, runVars,
                 faultVars>>

Remove(i) == MayCall /\ Has(i) /\ PollerEnd /\ items' = items \ {i}

\* remove of the socket compares items with a fresh item, which none equals.
RemovePollable == MayCall /\ PollerEnd /\ UNCHANGED items

-----------------------------------------------------------------------------
(* start                                                                   *)

Start ==
  /\ MayCall /\ ~Inside
  /\ runs < MaxRuns /\ (runs > 0 => "restart" \in Risky)
  /\ timers' = timers \cup {Started}
  /\ pc' = "poll" /\ runs' = runs + 1 /\ asked' = FALSE /\ result' = "none"
  /\ UNCHANGED <<loopVars, valueVars, pollers, ended, left, ready, broken, call,
                 faultVars>>

\* zloop_start returns r, or an exception unwinds it.
Return(r) ==
  /\ pc' = "outside" /\ result' = r
  /\ left' = {} /\ ready' = {} /\ broken' = FALSE /\ call' = NoCall

\* rb_czmq_loop_start_ubf, from another thread while this one has no GVL.
Interrupt ==
  /\ fault = "none" /\ pc \in {"poll", "timers", "items", "pass_over"}
  /\ interrupted' = TRUE /\ running' = FALSE
  /\ UNCHANGED <<zloop, items, valueVars, zloopVars, passVars, runVars, faultVars>>

\* A pass begins when a timer is due or an item ready.
ZmqPoll ==
  /\ fault = "none" /\ pc = "poll" /\ ~interrupted
  /\ pc' = "timers" /\ left' = timers
  /\ ready' \in SUBSET pollers
  /\ UNCHANGED <<loopVars, valueVars, zloopVars, broken, call, runVars, faultVars>>

PollEndsWithCount ==
  /\ fault = "none" /\ pc = "poll"
  /\ Return("1")
  /\ UNCHANGED <<loopVars, valueVars, zloopVars, asked, runs, faultVars>>

\* zloop_start sees zctx_interrupted, or zmq_poll fails as the context ended.
PollEnds ==
  /\ fault = "none" /\ pc = "poll"
  /\ Return("0")
  /\ UNCHANGED <<loopVars, valueVars, zloopVars, asked, runs, faultVars>>

\* rb_czmq_loop_started_callback.
StartedCallback ==
  /\ fault = "none" /\ pc = "timers" /\ Started \in left
  /\ running' = TRUE
  /\ timers' = timers \ {Started} /\ left' = left \ {Started}
  /\ UNCHANGED <<zloop, items, interrupted, valueVars, pollers, ended, pc, ready,
                 broken, call, runVars, faultVars>>

\* rb_czmq_loop_breaker_callback takes its argument for the loop's wrapper. The
\* breaker of a failed handler has that handler instead: the store clears a
\* byte of the class pointer of a Ruby object.
BreakerCallback(v) ==
  /\ fault = "none" /\ pc = "timers" /\ Breaker(v) \in left
  /\ left' = left \ {Breaker(v)}
  /\ IF v = Loop
     THEN running' = FALSE /\ UNCHANGED overwritten
     ELSE overwritten' = overwritten \cup {v} /\ UNCHANGED running
  /\ pc' = "pass_over" /\ broken' = TRUE
  /\ UNCHANGED <<zloop, items, interrupted, valueVars, zloopVars, ready, call,
                 runVars, fault>>

Call(v, methods) ==
  /\ pc' = "handler"
  /\ call' = [of |-> v, methods |-> methods, failed |-> FALSE]

CancelledTimerFails(t) ==
  /\ ended' = ended \cup {t}
  /\ pc' = "pass_over" /\ broken' = TRUE
  /\ UNCHANGED <<timers, call>>

\* The callback of a cancelled timer ends it in the zloop instead of calling.
CancelledTimer(t) ==
  /\ ended' = ended \cup {t}
  /\ timers' \in {timers, timers \ {Entry("timer", t)}}
  /\ UNCHANGED <<pc, broken, call>>

\* rb_czmq_loop_timer_callback.
TimerCallback(t) ==
  /\ fault = "none" /\ pc = "timers" /\ Entry("timer", t) \in left
  /\ left' = left \ {Entry("timer", t)}
  /\ IF life[t] = "freed"
     THEN fault' = "freed_value" /\ UNCHANGED <<zloopVars, pc, broken, call>>
     ELSE /\ \/ t \in cancelled /\ CancelledTimer(t)
             \/ t \notin cancelled /\ Call(t, <<"call">>)
                  /\ UNCHANGED <<timers, ended, broken>>
          /\ UNCHANGED <<pollers, faultVars>>
  /\ UNCHANGED <<loopVars, valueVars, ready, runVars, overwritten>>

\* What is left is not due yet.
EndTimers ==
  /\ fault = "none" /\ pc = "timers"
  /\ pc' = "items" /\ left' = {}
  /\ UNCHANGED <<loopVars, valueVars, zloopVars, ready, broken, call, runVars, faultVars>>

\* rb_czmq_loop_pollitem_callback: a method of the handler for each event.
PollitemCallback(i) ==
  /\ fault = "none" /\ pc = "items" /\ i \in ready
  /\ ready' = ready \ {i}
  /\ IF life[i] = "freed"
     THEN fault' = "freed_value" /\ UNCHANGED <<pc, call>>
     ELSE /\ \E revents \in SUBSET {"POLLIN", "POLLOUT", "POLLERR"} \ {{}} :
               Call(i, MethodsFor(revents))
          /\ UNCHANGED fault
  /\ UNCHANGED <<loopVars, valueVars, zloopVars, left, broken, runVars,
                 overwritten>>

\* The timers that were ended go, and the run goes on unless it was broken.
EndPass ==
  /\ fault = "none" /\ pc \in {"items", "pass_over"}
  /\ timers' = {e \in timers : e.arg \notin ended \cap Timers}
  /\ ended' = {}
  /\ IF broken
     THEN Return("-1")
     ELSE pc' = "poll" /\ left' = {} /\ ready' = {} /\ UNCHANGED <<broken, call, result>>
  /\ UNCHANGED <<loopVars, valueVars, pollers, asked, runs, faultVars>>

-----------------------------------------------------------------------------
(* What a handler returns: rb_czmq_callback                                *)

\* Back in the C callback, which calls the next method of a poll item or
\* returns to the zloop. An entry whose times are up is dropped by the zloop.
MethodDone(breakers, failed) ==
  LET entry == Entry("timer", call.of)
      queued == timers \cup breakers
      spent == IF entry \in left THEN {queued} ELSE {queued, queued \ {entry}}
      fails == call.failed \/ failed
  IN IF Len(call.methods) > 1
     THEN /\ call' = [call EXCEPT !.methods = Tail(@), !.failed = fails]
          /\ timers' = queued
          /\ UNCHANGED <<pc, left, broken>>
     ELSE /\ call' = NoCall /\ broken' = fails
          /\ IF fails
             THEN pc' = "pass_over" /\ timers' = queued /\ UNCHANGED left
             ELSE IF call.of \in Timers
             THEN pc' = "timers" /\ timers' \in spent /\ left' = left \cup breakers
             ELSE pc' = "items" /\ timers' = queued /\ UNCHANGED left

\* A zloop that was freed meanwhile is used all the same.
InHandler(Outcome) ==
  /\ fault = "none" /\ pc = "handler"
  /\ IF zloop = "freed"
     THEN fault' = "freed_zloop" /\ UNCHANGED <<timers, passVars, runVars>>
     ELSE Outcome /\ UNCHANGED <<fault, runs>>
  /\ UNCHANGED <<loopVars, valueVars, pollers, ended, overwritten>>

HandlerReturns ==
  InHandler(MethodDone({}, FALSE) /\ UNCHANGED <<ready, asked, result>>)

HandlerReturnsFalse ==
  InHandler(/\ MethodDone({Breaker(call.of)}, TRUE)
            /\ asked' = TRUE
            /\ UNCHANGED <<ready, result>>)

HandlerRescuedNoBreaker ==
  /\ "rescue_in_on_error" \in Risky
  /\ InHandler(/\ MethodDone({}, FALSE)
               /\ asked' = TRUE
               /\ UNCHANGED <<ready, result>>)

\* The handler raises, and on_error returns.
HandlerRescued ==
  /\ "rescue_in_on_error" \in Risky
  /\ call.of \in ended \cup cancelled => "cancel_what_failed" \in Risky
  /\ InHandler(/\ MethodDone({Breaker(call.of)}, FALSE)
               /\ asked' = TRUE
               /\ UNCHANGED <<ready, result>>)

\* The handler raises and so does on_error, as the one of ZMQ::Handler does,
\* through the callback and zloop_start.
HandlerRaises ==
  InHandler(/\ timers' = timers \cup {Breaker(call.of)}
            /\ Return("raised")
            /\ asked' = TRUE)

-----------------------------------------------------------------------------
\* What the zloop and the callbacks do.
Reactor ==
  \/ ZmqPoll \/ PollEnds \/ StartedCallback \/ EndTimers \/ EndPass
  \/ \E v \in Values \cup {Loop} : BreakerCallback(v)
  \/ \E t \in Timers : TimerCallback(t)
  \/ \E i \in Pollitems : PollitemCallback(i)

Handler == HandlerReturns \/ HandlerReturnsFalse \/ HandlerRescued \/ HandlerRaises

Next ==
  \/ Reactor \/ Handler
  \/ Interrupt \/ CollectLoop
  \/ LoopNew \/ Start \/ Stop \/ Destroy \/ RemovePollable
  \/ \E v \in Values : Collect(v)
  \/ \E v \in Values \cup {Loop} : Forget(v)
  \/ \E t \in Timers : RegisterTimer(t) \/ CancelTimer(t) \/ TimerCancel(t)
  \/ \E i \in Pollitems : Register(i) \/ Remove(i)

Spec == Init /\ [][Next]_vars

\* zmq_poll waits no longer than until the next timer is due; without a timer
\* it may wait for good, an interrupt notwithstanding. Every handler returns,
\* every pass comes to its end, and an entry that stays queued is due in some
\* pass, since the clock goes on.
FairSpec ==
  /\ Spec
  /\ WF_vars(timers # {} /\ (ZmqPoll \/ PollEnds))
  /\ SF_vars(EndTimers) /\ WF_vars(EndPass) /\ WF_vars(Handler)
  /\ \A v \in Values \cup {Loop} : SF_vars(BreakerCallback(v))

-----------------------------------------------------------------------------
(* Properties                                                              *)

\* zloop holds raw pointers: no callback is handed a timer or poll item that
\* was collected, and no zloop is used after it was freed (loop.c:422, 475).
NoStaleCallback == fault = "none"

\* start returns -1 only if a handler of this run called stop, returned false
\* or raised (loop.c:288-289): not for what was cancelled or is long over.
EndsOnRequest == result = "-1" => asked

\* A run that a handler wants to end does end (loop.rb:19-24): by a breaker
\* that is queued behind other timers, or by what the callbacks return.
EndsWhenAsked == (asked /\ Inside) ~> ~Inside

\* running? "returns true if the reactor is currently running" (loop.c:313):
\* not after start has returned.
StoppedIsNotRunning == running => Inside

=============================================================================
