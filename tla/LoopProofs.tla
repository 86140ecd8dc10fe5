----------------------------- MODULE LoopProofs -----------------------------
(***************************************************************************)
(* Loops of any number of timers and poll items: what the array of a loop  *)
(* keeps alive is all its zloop may call, and a run ends with -1 only for  *)
(* a handler that wanted it to. Before that, the types, which the other    *)
(* invariants do not need.                                                 *)
(***************************************************************************)
EXTENDS Loop, TLAPS

-----------------------------------------------------------------------------
(* Callbacks                                                               *)

\* call is a record, whatever its methods are.
CallIsRecord ==
  /\ call = [of |-> call.of, methods |-> call.methods, failed |-> call.failed]
  /\ call.failed \in BOOLEAN

LEMMA CalledIsRecord ==
  ASSUME CallIsRecord, NEW v, \/ call' = call
                               \/ \E methods : call' = [of |-> v, methods |-> methods, failed |-> FALSE]
  PROVE  CallIsRecord' /\ (call'.of = call.of \/ call'.of = v) /\ (call'.failed => call.failed)
<1>1. CASE call' = call
  BY <1>1 DEF CallIsRecord
<1>2. CASE call' # call
  <2>1. PICK methods : call' = [of |-> v, methods |-> methods, failed |-> FALSE]
    BY <1>2
  <2>2. call'.of = v /\ call'.methods = methods /\ call'.failed = FALSE
    BY <2>1
  <2>q. QED
    BY <2>1, <2>2 DEF CallIsRecord
<1>q. QED
  BY <1>1, <1>2

LEMMA NoCallIsRecord == call' = NoCall => CallIsRecord' /\ ~call'.failed /\ call'.of = Loop
BY DEF NoCall, CallIsRecord

\* A handler that is through is followed by the next one of the same poll item, or
\* the callback is over; only breakers are queued.
LEMMA MethodDoneEffect ==
  ASSUME CallIsRecord, NEW breakers, NEW failed \in BOOLEAN, MethodDone(breakers, failed),
         pc = "handler"
  PROVE  /\ CallIsRecord'
         /\ timers' \subseteq timers \cup breakers /\ left' \subseteq left \cup breakers
         /\ pc' \in {"handler", "timers", "items", "pass_over"}
         /\ \/ call' = NoCall /\ broken' = (call.failed \/ failed)
            \/ /\ call'.of = call.of /\ call'.failed = (call.failed \/ failed)
               /\ broken' = broken
<1>. USE DEF CallIsRecord, MethodDone
<1>1. CASE Len(call.methods) > 1
  <2>1. call' = [of |-> call.of, methods |-> Tail(call.methods),
                 failed |-> (call.failed \/ failed)]
    BY <1>1
  <2>2. /\ call'.of = call.of /\ call'.failed = (call.failed \/ failed)
        /\ call'.failed \in BOOLEAN /\ CallIsRecord'
    BY <2>1
  <2>q. QED
    BY <1>1, <2>2
<1>2. CASE ~(Len(call.methods) > 1)
  <2>1. call' = NoCall /\ broken' = (call.failed \/ failed)
    BY <1>2
  <2>3. CallIsRecord'
    BY <2>1 DEF NoCall
  <2>2. /\ timers' \subseteq timers \cup breakers /\ left' \subseteq left \cup breakers
        /\ pc' \in {"timers", "items", "pass_over"}
    BY <1>2
  <2>q. QED
    BY <2>1, <2>2, <2>3
<1>q. QED
  BY <1>1, <1>2

-----------------------------------------------------------------------------
(* Types                                                                   *)

\* What the state is made of: every part of TypeOK but the call.
PartsTyped ==
  /\ zloop \in {"none", "live", "freed"}
  /\ running \in BOOLEAN /\ interrupted \in BOOLEAN
  /\ items \subseteq Values
  /\ life \in [Values -> {"unmade", "live", "freed"}]
  /\ held \subseteq Values \cup {Loop} /\ cancelled \subseteq Timers
  /\ timers \subseteq Entries /\ pollers \subseteq Pollitems
  /\ ended \subseteq Values
  /\ pc \in {"outside", "poll", "timers", "items", "handler", "pass_over"}
  /\ left \subseteq Entries /\ ready \subseteq Pollitems
  /\ broken \in BOOLEAN
  /\ result \in {"none", "0", "-1", "raised"}
  /\ asked \in BOOLEAN /\ runs \in 0..MaxRuns
  /\ overwritten \subseteq Values
  /\ fault \in {"none", "freed_value", "freed_zloop"}

\* The call is that of a value with the methods it is yet to be called with.
CallTyped ==
  /\ CallIsRecord
  /\ call.of \in Values \cup {Loop}
  /\ call.methods \in Seq(Methods)

LEMMA TypedIsTypeOK == PartsTyped /\ CallTyped => TypeOK
BY DEF PartsTyped, CallTyped, CallIsRecord, TypeOK

\* A call of v with the methods in ms.
LEMMA CallKeepsType ==
  ASSUME NEW v \in Values, NEW ms \in Seq(Methods), Call(v, ms)
  PROVE  CallTyped'
<1>1. call' = [of |-> v, methods |-> ms, failed |-> FALSE]
  BY DEF Call
<1>2. call'.of = v /\ call'.methods = ms /\ call'.failed = FALSE
  BY <1>1
<1>q. QED
  BY <1>1, <1>2 DEF CallTyped, CallIsRecord

LEMMA NoCallKeepsType == call' = NoCall => CallTyped'
<1>. SUFFICES ASSUME call' = NoCall PROVE CallTyped'
  OBVIOUS
<1>1. call' = [of |-> Loop, methods |-> <<>>, failed |-> FALSE]
  BY DEF NoCall
<1>2. call'.of = Loop /\ call'.methods = <<>> /\ call'.failed = FALSE
  BY <1>1
<1>3. <<>> \in Seq(Methods)
  OBVIOUS
<1>q. QED
  BY <1>1, <1>2, <1>3 DEF CallTyped, CallIsRecord

LEMMA SameCallKeepsType == CallTyped /\ call' = call => CallTyped'
BY DEF CallTyped, CallIsRecord

\* The methods of a poll item's handler.
LEMMA MethodsForType ==
  ASSUME NEW revents
  PROVE  MethodsFor(revents) \in Seq(Methods)
<1>. DEFINE If(event, method) == IF event \in revents THEN <<method>> ELSE <<>>
<1>1. \A event : \A method \in Methods : If(event, method) \in Seq(Methods)
  OBVIOUS
<1>2. {"on_readable", "on_writable", "on_error"} \subseteq Methods
  BY DEF Methods
<1>3. MethodsFor(revents) = (If("POLLIN", "on_readable") \o If("POLLOUT", "on_writable"))
                              \o If("POLLERR", "on_error")
  BY DEF MethodsFor
<1>4. /\ If("POLLIN", "on_readable") \in Seq(Methods)
      /\ If("POLLOUT", "on_writable") \in Seq(Methods)
      /\ If("POLLERR", "on_error") \in Seq(Methods)
  BY <1>1, <1>2
<1>. HIDE DEF If
<1>q. QED
  BY <1>3, <1>4

\* A breaker is an entry, for the loop and for every value.
LEMMA EntriesAreMade ==
  /\ Started \in Entries
  /\ \A v \in Values \cup {Loop} : Breaker(v) \in Entries
  /\ \A t \in Timers : Entry("timer", t) \in Entries
BY DEF Entries

\* What is next in the callback is typed like what was before.
LEMMA MethodDoneType ==
  ASSUME PartsTyped, CallTyped, NEW breakers \in SUBSET Entries, NEW failed \in BOOLEAN,
         MethodDone(breakers, failed), pc = "handler"
  PROVE  /\ CallTyped'
         /\ timers' \subseteq Entries /\ left' \subseteq Entries /\ broken' \in BOOLEAN
         /\ pc' \in {"handler", "timers", "items", "pass_over"}
<1>1. /\ timers' \subseteq timers \cup breakers /\ left' \subseteq left \cup breakers
      /\ pc' \in {"handler", "timers", "items", "pass_over"}
      /\ \/ broken' = (call.failed \/ failed)
         \/ broken' = broken
  BY MethodDoneEffect DEF CallTyped
<1>2. /\ timers' \subseteq Entries /\ left' \subseteq Entries /\ broken' \in BOOLEAN
  BY <1>1 DEF PartsTyped, CallTyped, CallIsRecord
<1>3. CASE Len(call.methods) > 1
  <2>1. call' = [of |-> call.of, methods |-> Tail(call.methods),
                 failed |-> (call.failed \/ failed)]
    BY <1>3 DEF MethodDone, CallTyped, CallIsRecord
  <2>2. Tail(call.methods) \in Seq(Methods)
    <3>1. call.methods \in Seq(Methods) /\ call.methods # <<>>
      BY <1>3 DEF CallTyped
    <3>q. QED
      BY <3>1
  <2>3. (call.failed \/ failed) \in BOOLEAN
    OBVIOUS
  <2>4. call'.of = call.of /\ call'.methods = Tail(call.methods)
        /\ call'.failed = (call.failed \/ failed)
    BY <2>1
  <2>q. QED
    BY <1>1, <1>2, <2>1, <2>2, <2>3, <2>4 DEF CallTyped, CallIsRecord
<1>4. CASE ~(Len(call.methods) > 1)
  <2>1. call' = NoCall
    BY <1>4 DEF MethodDone
  <2>q. QED
    BY <1>1, <1>2, <2>1, NoCallKeepsType
<1>q. QED
  BY <1>3, <1>4

LEMMA InitTyped == Init => PartsTyped /\ CallTyped
<1>. SUFFICES ASSUME Init PROVE PartsTyped /\ CallTyped
  OBVIOUS
<1>1. PartsTyped
  <2>1. 0 \in 0..MaxRuns
    BY ConstantsAssumption
  <2>2. life \in [Values -> {"unmade", "live", "freed"}]
    BY DEF Init
  <2>q. QED
    BY <2>1, <2>2 DEF Init, PartsTyped
<1>2. CallTyped
  <2>1. call = [of |-> Loop, methods |-> <<>>, failed |-> FALSE]
    BY DEF Init, NoCall
  <2>2. call.of = Loop /\ call.methods = <<>> /\ call.failed = FALSE
    BY <2>1
  <2>3. <<>> \in Seq(Methods)
    OBVIOUS
  <2>q. QED
    BY <2>1, <2>2, <2>3 DEF CallTyped, CallIsRecord
<1>q. QED
  BY <1>1, <1>2

LEMMA NextTyped ==
  ASSUME PartsTyped, CallTyped, [Next]_vars
  PROVE  PartsTyped' /\ CallTyped'
<1>. USE ConstantsAssumption, EntriesAreMade, NoCallKeepsType, SameCallKeepsType
     DEF PartsTyped, Values, MayCall, Program,
         loopVars, valueVars, zloopVars, passVars, runVars, faultVars
<1>1. CASE ZmqPoll
  BY <1>1 DEF ZmqPoll
<1>2. CASE PollEnds
  BY <1>2 DEF PollEnds, Return
<1>3. CASE StartedCallback
  BY <1>3 DEF StartedCallback
<1>4. CASE EndTimers
  BY <1>4 DEF EndTimers
<1>5. CASE EndPass
  BY <1>5 DEF EndPass, Return
<1>6. CASE HandlerReturns
  <2>1. CASE zloop = "freed"
    BY <1>6, <2>1 DEF HandlerReturns, InHandler
  <2>2. CASE zloop # "freed"
    <3>1. /\ MethodDone({}, FALSE) /\ pc = "handler"
          /\ asked' \in BOOLEAN /\ UNCHANGED <<loopVars, valueVars, pollers, ended, ready,
                                               result, runs, faultVars>>
      BY <1>6, <2>2 DEF HandlerReturns, InHandler
    <3>2. {} \subseteq Entries
      BY DEF CallTyped
    <3>3. /\ CallTyped'
          /\ timers' \subseteq Entries /\ left' \subseteq Entries /\ broken' \in BOOLEAN
          /\ pc' \in {"handler", "timers", "items", "pass_over"}
      BY <3>1, <3>2, MethodDoneType
    <3>q. QED
      BY <3>1, <3>3
  <2>q. QED
    BY <2>1, <2>2
<1>7. CASE HandlerReturnsFalse
  <2>1. CASE zloop = "freed"
    BY <1>7, <2>1 DEF HandlerReturnsFalse, InHandler
  <2>2. CASE zloop # "freed"
    <3>1. /\ MethodDone({Breaker(call.of)}, TRUE) /\ pc = "handler"
          /\ asked' \in BOOLEAN /\ UNCHANGED <<loopVars, valueVars, pollers, ended, ready,
                                               result, runs, faultVars>>
      BY <1>7, <2>2 DEF HandlerReturnsFalse, InHandler
    <3>2. {Breaker(call.of)} \subseteq Entries
      BY DEF CallTyped
    <3>3. /\ CallTyped'
          /\ timers' \subseteq Entries /\ left' \subseteq Entries /\ broken' \in BOOLEAN
          /\ pc' \in {"handler", "timers", "items", "pass_over"}
      BY <3>1, <3>2, MethodDoneType
    <3>q. QED
      BY <3>1, <3>3
  <2>q. QED
    BY <2>1, <2>2
<1>8. CASE HandlerRescued
  <2>1. CASE zloop = "freed"
    BY <1>8, <2>1 DEF HandlerRescued, InHandler
  <2>2. CASE zloop # "freed"
    <3>1. /\ MethodDone({Breaker(call.of)}, FALSE) /\ pc = "handler"
          /\ asked' \in BOOLEAN /\ UNCHANGED <<loopVars, valueVars, pollers, ended, ready,
                                               result, runs, faultVars>>
      BY <1>8, <2>2 DEF HandlerRescued, InHandler
    <3>2. {Breaker(call.of)} \subseteq Entries
      BY DEF CallTyped
    <3>3. /\ CallTyped'
          /\ timers' \subseteq Entries /\ left' \subseteq Entries /\ broken' \in BOOLEAN
          /\ pc' \in {"handler", "timers", "items", "pass_over"}
      BY <3>1, <3>2, MethodDoneType
    <3>q. QED
      BY <3>1, <3>3
  <2>q. QED
    BY <2>1, <2>2
<1>9. CASE HandlerRaises
  <2>1. CASE zloop = "freed"
    BY <1>9, <2>1 DEF HandlerRaises, InHandler
  <2>2. CASE zloop # "freed"
    <3>1. Breaker(call.of) \in Entries
      BY DEF CallTyped
    <3>q. QED
      BY <1>9, <2>2, <3>1 DEF HandlerRaises, InHandler, Return
  <2>q. QED
    BY <2>1, <2>2
<1>10. CASE Interrupt
  BY <1>10 DEF Interrupt
<1>11. CASE CollectLoop
  BY <1>11 DEF CollectLoop, FreeLoop
<1>12. CASE LoopNew
  BY <1>12 DEF LoopNew
<1>13. CASE Start
  <2>1. runs \in Nat /\ runs < MaxRuns /\ runs' = runs + 1
    BY <1>13 DEF Start
  <2>2. runs' \in 0..MaxRuns
    BY <2>1
  <2>q. QED
    BY <1>13, <2>2 DEF Start
<1>14. CASE Stop
  BY <1>14 DEF Stop, Queue
<1>15. CASE Destroy
  BY <1>15 DEF Destroy, FreeLoop
<1>16. CASE RemovePollable
  BY <1>16 DEF RemovePollable, PollerEnd
<1>17. ASSUME NEW v \in Values \cup {Loop}, BreakerCallback(v) PROVE PartsTyped' /\ CallTyped'
  BY <1>17 DEF BreakerCallback
<1>18. ASSUME NEW t \in Timers, TimerCallback(t) PROVE PartsTyped' /\ CallTyped'
  <2>1. call' = call \/ Call(t, <<"call">>)
    BY <1>18 DEF TimerCallback, CancelledTimer
  <2>2. CallTyped'
    <3>1. t \in Values /\ <<"call">> \in Seq(Methods)
      BY DEF Methods
    <3>q. QED
      BY <2>1, <3>1, CallKeepsType
  <2>3. PartsTyped'
    BY <1>18 DEF TimerCallback, CancelledTimer, Call
  <2>q. QED
    BY <2>2, <2>3
<1>19. ASSUME NEW i \in Pollitems, PollitemCallback(i) PROVE PartsTyped' /\ CallTyped'
  <2>1. call' = call \/ \E revents : Call(i, MethodsFor(revents))
    BY <1>19 DEF PollitemCallback
  <2>2. CallTyped'
    BY <2>1, CallKeepsType, MethodsForType
  <2>3. PartsTyped'
    BY <1>19 DEF PollitemCallback, Call
  <2>q. QED
    BY <2>2, <2>3
<1>20. ASSUME NEW v \in Values, Collect(v) PROVE PartsTyped' /\ CallTyped'
  BY <1>20 DEF Collect
<1>21. ASSUME NEW v \in Values \cup {Loop}, Forget(v) PROVE PartsTyped' /\ CallTyped'
  BY <1>21 DEF Forget
<1>22. ASSUME NEW t \in Timers, RegisterTimer(t) PROVE PartsTyped' /\ CallTyped'
  BY <1>22 DEF RegisterTimer, Queue, Obtain
<1>23. ASSUME NEW t \in Timers, CancelTimer(t) PROVE PartsTyped' /\ CallTyped'
  BY <1>23 DEF CancelTimer
<1>24. ASSUME NEW t \in Timers, TimerCancel(t) PROVE PartsTyped' /\ CallTyped'
  BY <1>24 DEF TimerCancel
<1>25. ASSUME NEW i \in Pollitems, Register(i) PROVE PartsTyped' /\ CallTyped'
  BY <1>25 DEF Register, Obtain
<1>26. ASSUME NEW i \in Pollitems, Remove(i) PROVE PartsTyped' /\ CallTyped'
  BY <1>26 DEF Remove, PollerEnd
<1>27. CASE UNCHANGED vars
  BY <1>27 DEF vars
<1>q. QED
  BY <1>1, <1>2, <1>3, <1>4, <1>5, <1>6, <1>7, <1>8, <1>9, <1>10, <1>11, <1>12, <1>13, <1>14, <1>15, <1>16, <1>17, <1>18, <1>19, <1>20, <1>21, <1>22, <1>23, <1>24, <1>25, <1>26, <1>27
     DEF Next, Reactor, Handler

\* The state has its types whatever the program does: the zloop queues nothing but
\* timers and breakers, a run ends with 0 or -1 or an exception, and a handler is
\* called with nothing but its methods.
THEOREM LoopTyped == Spec => []TypeOK
<1>1. PartsTyped /\ CallTyped /\ [Next]_vars => (PartsTyped /\ CallTyped)'
  BY NextTyped
<1>q. QED
  BY <1>1, InitTyped, TypedIsTypeOK, PTL DEF Spec

-----------------------------------------------------------------------------
(* Nothing that is gone is called                                          *)

\* The program holds what it cancelled or removed until the pass is over, and
\* leaves the loop alone while it runs.
KeepsWhatItEnded == {"forget_at_once", "destroy_while_running"} \cap Risky = {}

\* What somebody can refer to has not been collected.
KeptAlive ==
  \A v \in Values :
    (v \in items \/ v \in held \/ call.of = v) => life[v] = "live"

\* Kept by the array, or ended in this pass and in the program's hands.
Kept(v) == v \in items \/ v \in ended \cap held

\* What the zloop may call before it looks for ended entries again.
CallableKept ==
  /\ \A t \in Timers : Entry("timer", t) \in timers \cup left => Kept(t)
  /\ pollers \subseteq items
  /\ \A i \in ready : Kept(i)

\* The zloop is there while it runs, and it calls nobody outside of a run.
RunsOnLive ==
  /\ Inside => zloop = "live"
  /\ ~Inside => left = {} /\ ready = {}

Shape ==
  /\ life \in [Values -> {"unmade", "live", "freed"}]
  /\ pollers \subseteq Pollitems /\ ready \subseteq Pollitems
  /\ CallIsRecord

NothingStale == Shape /\ KeptAlive /\ CallableKept /\ RunsOnLive /\ fault = "none"

LEMMA InitNothingStale == Init => NothingStale
BY ConstantsAssumption DEF Init, NothingStale, Shape, CallIsRecord, KeptAlive, Kept, CallableKept, RunsOnLive, Inside, NoCall, Values,
         Entry, Started, Breaker, KeepsWhatItEnded

LEMMA NextNothingStale ==
  ASSUME KeepsWhatItEnded, NothingStale, [Next]_vars
  PROVE  NothingStale'
<1>. USE ConstantsAssumption
     DEF NothingStale, Shape, CallIsRecord, KeptAlive, Kept, CallableKept, RunsOnLive, Inside, NoCall, Values,
         Entry, Started, Breaker, KeepsWhatItEnded,
         MayCall, Program,
         loopVars, valueVars, zloopVars, passVars, runVars, faultVars
<1>1. CASE ZmqPoll
  BY <1>1 DEF ZmqPoll
<1>2. CASE PollEnds
  BY <1>2 DEF PollEnds, Return
<1>3. CASE StartedCallback
  BY <1>3 DEF StartedCallback
<1>4. CASE EndTimers
  BY <1>4 DEF EndTimers
<1>5. CASE EndPass
  <2>1. /\ timers' = {e \in timers : e.arg \notin ended \cap Timers} /\ ended' = {}
        /\ left' = {} /\ ready' = {} /\ pc # "outside"
        /\ UNCHANGED <<loopVars, valueVars, pollers, fault>>
    BY <1>5 DEF EndPass, Return
  <2>2. (call' = call \/ call' = NoCall) /\ CallIsRecord'
    <3>1. call' = call \/ call' = NoCall
      BY <1>5 DEF EndPass, Return
    <3>2. CASE call' = call
      BY <3>2
    <3>3. CASE call' = NoCall
      BY <3>3, NoCallIsRecord
    <3>q. QED
      BY <3>1, <3>2, <3>3
  <2>3. \A t \in Timers : Entry("timer", t) \in timers' \cup left' => Kept(t)'
    <3>. SUFFICES ASSUME NEW t \in Timers, Entry("timer", t) \in timers' PROVE t \in items
      BY <2>1
    <3>1. Entry("timer", t) \in timers /\ t \notin ended
      BY <2>1
    <3>q. QED
      BY <3>1
  <2>4. KeptAlive' /\ RunsOnLive'
    BY <2>1, <2>2
  <2>q. QED
    BY <2>1, <2>2, <2>3, <2>4
<1>6. CASE HandlerReturns
  <2>1. CASE zloop = "freed"
    BY <1>6, <2>1 DEF HandlerReturns, InHandler
  <2>2. CASE zloop # "freed"
    <3>1. MethodDone({}, FALSE)
      BY <1>6, <2>2 DEF HandlerReturns, InHandler
    <3>2. /\ CallIsRecord' /\ (call' = NoCall \/ call'.of = call.of) /\ pc' # "outside"
          /\ timers' \subseteq timers \cup {} /\ left' \subseteq left \cup {}
      BY <1>6, <3>1, MethodDoneEffect DEF HandlerReturns, InHandler
    <3>3. /\ pc = "handler" /\ UNCHANGED <<loopVars, valueVars, pollers, ended, ready, fault>>
      BY <1>6, <2>2 DEF HandlerReturns, InHandler
    <3>q. QED
      BY <3>2, <3>3
  <2>q. QED
    BY <2>1, <2>2
<1>7. CASE HandlerReturnsFalse
  <2>1. CASE zloop = "freed"
    BY <1>7, <2>1 DEF HandlerReturnsFalse, InHandler
  <2>2. CASE zloop # "freed"
    <3>1. MethodDone({Breaker(call.of)}, TRUE)
      BY <1>7, <2>2 DEF HandlerReturnsFalse, InHandler
    <3>2. /\ CallIsRecord' /\ (call' = NoCall \/ call'.of = call.of) /\ pc' # "outside"
          /\ timers' \subseteq timers \cup {Breaker(call.of)} /\ left' \subseteq left \cup {Breaker(call.of)}
      BY <1>7, <3>1, MethodDoneEffect DEF HandlerReturnsFalse, InHandler
    <3>3. /\ pc = "handler" /\ UNCHANGED <<loopVars, valueVars, pollers, ended, ready, fault>>
      BY <1>7, <2>2 DEF HandlerReturnsFalse, InHandler
    <3>q. QED
      BY <3>2, <3>3
  <2>q. QED
    BY <2>1, <2>2
<1>8. CASE HandlerRescued
  <2>1. CASE zloop = "freed"
    BY <1>8, <2>1 DEF HandlerRescued, InHandler
  <2>2. CASE zloop # "freed"
    <3>1. MethodDone({Breaker(call.of)}, FALSE)
      BY <1>8, <2>2 DEF HandlerRescued, InHandler
    <3>2. /\ CallIsRecord' /\ (call' = NoCall \/ call'.of = call.of) /\ pc' # "outside"
          /\ timers' \subseteq timers \cup {Breaker(call.of)} /\ left' \subseteq left \cup {Breaker(call.of)}
      BY <1>8, <3>1, MethodDoneEffect DEF HandlerRescued, InHandler
    <3>3. /\ pc = "handler" /\ UNCHANGED <<loopVars, valueVars, pollers, ended, ready, fault>>
      BY <1>8, <2>2 DEF HandlerRescued, InHandler
    <3>q. QED
      BY <3>2, <3>3
  <2>q. QED
    BY <2>1, <2>2
<1>9. CASE HandlerRaises
  <2>1. CASE zloop = "freed"
    BY <1>9, <2>1 DEF HandlerRaises, InHandler
  <2>2. CASE zloop # "freed"
    <3>1. /\ pc = "handler" /\ pc' = "outside" /\ left' = {} /\ ready' = {} /\ call' = NoCall
          /\ timers' = timers \cup {Breaker(call.of)}
          /\ UNCHANGED <<loopVars, valueVars, pollers, ended, fault>>
      BY <1>9, <2>2 DEF HandlerRaises, InHandler, Return
    <3>2. CallIsRecord'
      BY <3>1
    <3>q. QED
      BY <3>1, <3>2
  <2>q. QED
    BY <2>1, <2>2
<1>10. CASE Interrupt
  BY <1>10 DEF Interrupt
<1>11. CASE CollectLoop
  BY <1>11 DEF CollectLoop, FreeLoop
<1>12. CASE LoopNew
  BY <1>12 DEF LoopNew
<1>13. CASE Start
  BY <1>13 DEF Start
<1>14. CASE Stop
  BY <1>14 DEF Stop, Queue
<1>15. CASE Destroy
  BY <1>15 DEF Destroy, FreeLoop
<1>16. CASE RemovePollable
  BY <1>16 DEF RemovePollable, PollerEnd
<1>17. ASSUME NEW v \in Values \cup {Loop}, BreakerCallback(v) PROVE NothingStale'
  BY <1>17 DEF BreakerCallback
<1>18. ASSUME NEW t \in Timers, TimerCallback(t) PROVE NothingStale'
  <2>1. life[t] = "live" /\ Entry("timer", t) \in left
    BY <1>18 DEF TimerCallback
  <2>2. /\ timers' \subseteq timers /\ left' \subseteq left /\ pc = "timers" /\ pc' # "outside"
        /\ ended \subseteq ended' /\ UNCHANGED <<loopVars, valueVars, pollers, ready, fault>>
    BY <1>18, <2>1 DEF TimerCallback, Call, CancelledTimer
  <2>3. call' = call \/ \E methods : call' = [of |-> t, methods |-> methods, failed |-> FALSE]
    BY <1>18, <2>1 DEF TimerCallback, Call, CancelledTimer
  <2>4. CallIsRecord' /\ (call'.of = call.of \/ call'.of = t)
    BY <2>3, CalledIsRecord
  <2>5. CallableKept' /\ RunsOnLive'
    BY <2>2
  <2>q. QED
    BY <2>1, <2>2, <2>4, <2>5
<1>19. ASSUME NEW i \in Pollitems, PollitemCallback(i) PROVE NothingStale'
  <2>1. life[i] # "freed" /\ i \in ready /\ life[i] = "live"
    BY <1>19 DEF PollitemCallback
  <2>2. PICK methods : call' = [of |-> i, methods |-> methods, failed |-> FALSE]
    BY <1>19, <2>1 DEF PollitemCallback, Call
  <2>3. CallIsRecord' /\ call'.of = i
    BY <2>2, CalledIsRecord
  <2>4. /\ pc' = "handler" /\ pc = "items" /\ ready' = ready \ {i}
        /\ UNCHANGED <<loopVars, valueVars, zloopVars, left, fault>>
    BY <1>19, <2>1 DEF PollitemCallback, Call
  <2>q. QED
    BY <2>1, <2>3, <2>4
<1>20. ASSUME NEW v \in Values, Collect(v) PROVE NothingStale'
  BY <1>20 DEF Collect
<1>21. ASSUME NEW v \in Values \cup {Loop}, Forget(v) PROVE NothingStale'
  BY <1>21 DEF Forget
<1>22. ASSUME NEW t \in Timers, RegisterTimer(t) PROVE NothingStale'
  BY <1>22 DEF RegisterTimer, Queue, Obtain, Has
<1>23. ASSUME NEW t \in Timers, CancelTimer(t) PROVE NothingStale'
  BY <1>23 DEF CancelTimer, MayCancel, Has
<1>24. ASSUME NEW t \in Timers, TimerCancel(t) PROVE NothingStale'
  BY <1>24 DEF TimerCancel
<1>25. ASSUME NEW i \in Pollitems, Register(i) PROVE NothingStale'
  BY <1>25 DEF Register, Obtain, Has
<1>26. ASSUME NEW i \in Pollitems, Remove(i) PROVE NothingStale'
  BY <1>26 DEF Remove, PollerEnd, Has
<1>27. CASE UNCHANGED vars
  BY <1>27 DEF vars
<1>q. QED
  BY <1>1, <1>2, <1>3, <1>4, <1>5, <1>6, <1>7, <1>8, <1>9, <1>10, <1>11, <1>12, <1>13, <1>14, <1>15, <1>16, <1>17, <1>18, <1>19, <1>20, <1>21, <1>22, <1>23, <1>24, <1>25, <1>26, <1>27
     DEF Next, Reactor, Handler

\* No callback gets a collected timer or poll item, and no freed zloop is used.
THEOREM NothingStaleCalled ==
  ASSUME KeepsWhatItEnded
  PROVE  Spec => []NoStaleCallback
<1>1. NothingStale /\ [Next]_vars => NothingStale'
  BY NextNothingStale
<1>2. NothingStale => NoStaleCallback
  BY DEF NothingStale, NoStaleCallback
<1>q. QED
  BY <1>1, <1>2, InitNothingStale, PTL DEF Spec

-----------------------------------------------------------------------------
(* A run ends with -1 on request only                                      *)

RunsOnce == "restart" \notin Risky

\* What makes a run end, or will.
Breakers == \E v \in Values \cup {Loop} : Breaker(v) \in timers \cup left

\* Before the run there is none of it, in the run there is none unasked.
Requested ==
  /\ broken \/ call.failed \/ result = "-1" => asked
  /\ Inside /\ Breakers => asked
  /\ runs = 0 => ~Inside /\ ~running /\ ~Breakers
  /\ ~Inside => ~broken /\ ~call.failed /\ left = {}
  /\ broken \in BOOLEAN /\ asked \in BOOLEAN /\ runs \in Nat

OnRequest == CallIsRecord /\ Requested

LEMMA InitOnRequest == Init => OnRequest
<1>. SUFFICES ASSUME Init PROVE OnRequest
  OBVIOUS
<1>1. CallIsRecord /\ ~call.failed
  BY DEF Init, CallIsRecord, NoCall
<1>2. ~Breakers /\ ~Inside
  BY DEF Init, Breakers, Inside
<1>3. /\ ~broken /\ ~running /\ result # "-1" /\ left = {} /\ runs = 0
      /\ broken \in BOOLEAN /\ asked \in BOOLEAN
  BY DEF Init
<1>q. QED
  BY <1>1, <1>2, <1>3 DEF OnRequest, Requested

LEMMA NextOnRequest ==
  ASSUME RunsOnce, OnRequest, [Next]_vars
  PROVE  OnRequest'
<1>. USE ConstantsAssumption
     DEF OnRequest, CallIsRecord, Requested, Breakers, Inside, NoCall, Entry, Started,
         Breaker, RunsOnce,
         MayCall, Program,
         loopVars, valueVars, zloopVars, passVars, runVars, faultVars
<1>1. CASE ZmqPoll
  BY <1>1 DEF ZmqPoll
<1>2. CASE PollEnds
  BY <1>2 DEF PollEnds, Return
<1>3. CASE StartedCallback
  BY <1>3 DEF StartedCallback
<1>4. CASE EndTimers
  BY <1>4 DEF EndTimers
<1>5. CASE EndPass
  <2>1. timers' \subseteq timers /\ left' = {} /\ UNCHANGED <<running, asked, runs>>
    BY <1>5 DEF EndPass, Return
  <2>2. CASE broken
    <3>1. pc' = "outside" /\ broken' = FALSE /\ call' = NoCall
      BY <1>5, <2>2 DEF EndPass, Return
    <3>2. asked' /\ runs' # 0 /\ CallIsRecord'
      BY <1>5, <2>1, <2>2, <3>1 DEF EndPass
    <3>q. QED
      BY <2>1, <3>1, <3>2
  <2>3. CASE ~broken
    <3>1. pc' = "poll" /\ UNCHANGED <<broken, call, result>>
      BY <1>5, <2>3 DEF EndPass
    <3>q. QED
      BY <1>5, <2>1, <2>3, <3>1 DEF EndPass
  <2>q. QED
    BY <2>2, <2>3
<1>6. CASE HandlerReturns
  <2>1. CASE zloop = "freed"
    BY <1>6, <2>1 DEF HandlerReturns, InHandler
  <2>2. CASE zloop # "freed"
    <3>1. /\ MethodDone({}, FALSE) /\ pc = "handler"
          /\ asked' = asked /\ UNCHANGED <<result, running, runs>>
      BY <1>6, <2>2 DEF HandlerReturns, InHandler
    <3>2. /\ CallIsRecord' /\ pc' # "outside"
          /\ timers' \subseteq timers \cup {} /\ left' \subseteq left \cup {}
          /\ \/ call' = NoCall /\ broken' = (call.failed \/ FALSE)
             \/ call'.failed = (call.failed \/ FALSE) /\ broken' = broken
      <4>. HIDE DEF CallIsRecord, NoCall
      <4>q. QED
        BY <3>1, MethodDoneEffect DEF CallIsRecord
    <3>3. broken' \in BOOLEAN /\ (broken' \/ call'.failed => asked')
      BY <3>1, <3>2
    <3>q. QED
      BY <3>1, <3>2, <3>3
  <2>q. QED
    BY <2>1, <2>2
<1>7. CASE HandlerReturnsFalse
  <2>1. CASE zloop = "freed"
    BY <1>7, <2>1 DEF HandlerReturnsFalse, InHandler
  <2>2. CASE zloop # "freed"
    <3>1. /\ MethodDone({Breaker(call.of)}, TRUE) /\ pc = "handler"
          /\ asked' = TRUE /\ UNCHANGED <<result, running, runs>>
      BY <1>7, <2>2 DEF HandlerReturnsFalse, InHandler
    <3>2. /\ CallIsRecord' /\ pc' # "outside"
          /\ timers' \subseteq timers \cup {Breaker(call.of)} /\ left' \subseteq left \cup {Breaker(call.of)}
          /\ \/ call' = NoCall /\ broken' = (call.failed \/ TRUE)
             \/ call'.failed = (call.failed \/ TRUE) /\ broken' = broken
      <4>. HIDE DEF CallIsRecord, NoCall
      <4>q. QED
        BY <3>1, MethodDoneEffect DEF CallIsRecord
    <3>3. broken' \in BOOLEAN /\ (broken' \/ call'.failed => asked')
      BY <3>1, <3>2
    <3>q. QED
      BY <3>1, <3>2, <3>3
  <2>q. QED
    BY <2>1, <2>2
<1>8. CASE HandlerRescued
  <2>1. CASE zloop = "freed"
    BY <1>8, <2>1 DEF HandlerRescued, InHandler
  <2>2. CASE zloop # "freed"
    <3>1. /\ MethodDone({Breaker(call.of)}, FALSE) /\ pc = "handler"
          /\ asked' = TRUE /\ UNCHANGED <<result, running, runs>>
      BY <1>8, <2>2 DEF HandlerRescued, InHandler
    <3>2. /\ CallIsRecord' /\ pc' # "outside"
          /\ timers' \subseteq timers \cup {Breaker(call.of)} /\ left' \subseteq left \cup {Breaker(call.of)}
          /\ \/ call' = NoCall /\ broken' = (call.failed \/ FALSE)
             \/ call'.failed = (call.failed \/ FALSE) /\ broken' = broken
      <4>. HIDE DEF CallIsRecord, NoCall
      <4>q. QED
        BY <3>1, MethodDoneEffect DEF CallIsRecord
    <3>3. broken' \in BOOLEAN /\ (broken' \/ call'.failed => asked')
      BY <3>1, <3>2
    <3>q. QED
      BY <3>1, <3>2, <3>3
  <2>q. QED
    BY <2>1, <2>2
<1>9. CASE HandlerRaises
  <2>1. CASE zloop = "freed"
    BY <1>9, <2>1 DEF HandlerRaises, InHandler
  <2>2. CASE zloop # "freed"
    <3>1. /\ pc = "handler" /\ pc' = "outside" /\ left' = {} /\ broken' = FALSE /\ call' = NoCall
          /\ asked' = TRUE /\ UNCHANGED <<running, runs>>
      BY <1>9, <2>2 DEF HandlerRaises, InHandler, Return
    <3>q. QED
      BY <3>1
  <2>q. QED
    BY <2>1, <2>2
<1>10. CASE Interrupt
  BY <1>10 DEF Interrupt
<1>11. CASE CollectLoop
  BY <1>11 DEF CollectLoop, FreeLoop
<1>12. CASE LoopNew
  BY <1>12 DEF LoopNew
<1>13. CASE Start
  <2>1. runs = 0 /\ runs' = 1 /\ result' = "none" /\ asked' = FALSE
    BY <1>13 DEF Start
  <2>2. ~Breakers'
    BY <1>13, <2>1 DEF Start
  <2>3. ~broken /\ ~call.failed /\ left = {} /\ UNCHANGED <<broken, call, left>>
    BY <1>13 DEF Start
  <2>4. CallIsRecord'
    BY <2>3
  <2>5. UNCHANGED running /\ runs' \in Nat /\ result' # "-1"
    BY <1>13, <2>1 DEF Start
  <2>6. /\ ~broken' /\ ~call'.failed /\ broken' \in BOOLEAN /\ asked' \in BOOLEAN
        /\ runs' # 0 /\ runs' \in Nat /\ left' = {}
    <3>1. broken' = broken /\ call' = call /\ left' = left
      BY <2>3
    <3>2. broken \in BOOLEAN
      BY DEF OnRequest
    <3>3. ~broken' /\ broken' \in BOOLEAN
      BY <2>3, <3>1, <3>2
    <3>4. ~call'.failed
      BY <2>3, <3>1
    <3>5. asked' \in BOOLEAN
      BY <2>1
    <3>6. runs' # 0 /\ runs' \in Nat
      BY <2>1
    <3>q. QED
      BY <2>3, <3>1, <3>3, <3>4, <3>5, <3>6
  <2>7. Requested'
    <3>. HIDE DEF Breakers, CallIsRecord
    <3>q. QED
      BY <2>1, <2>2, <2>6
  <2>q. QED
    BY <2>4, <2>7
<1>14. CASE Stop
  BY <1>14 DEF Stop, Queue
<1>15. CASE Destroy
  BY <1>15 DEF Destroy, FreeLoop
<1>16. CASE RemovePollable
  BY <1>16 DEF RemovePollable, PollerEnd
<1>17. ASSUME NEW v \in Values \cup {Loop}, BreakerCallback(v) PROVE OnRequest'
  BY <1>17 DEF BreakerCallback
<1>18. ASSUME NEW t \in Timers, TimerCallback(t) PROVE OnRequest'
  <2>1. /\ timers' \subseteq timers /\ left' \subseteq left /\ pc = "timers" /\ pc' # "outside"
        /\ UNCHANGED <<running, asked, runs, result, broken>>
    BY <1>18 DEF TimerCallback, Call, CancelledTimer
  <2>2. call' = call \/ \E methods : call' = [of |-> t, methods |-> methods, failed |-> FALSE]
    BY <1>18 DEF TimerCallback, Call, CancelledTimer
  <2>3. CallIsRecord' /\ (call'.failed => call.failed)
    BY <2>2, CalledIsRecord
  <2>q. QED
    BY <2>1, <2>3
<1>19. ASSUME NEW i \in Pollitems, PollitemCallback(i) PROVE OnRequest'
  <2>1. /\ pc = "items" /\ pc' # "outside"
        /\ UNCHANGED <<running, asked, runs, result, broken, timers, left>>
    BY <1>19 DEF PollitemCallback, Call
  <2>2. call' = call \/ \E methods : call' = [of |-> i, methods |-> methods, failed |-> FALSE]
    BY <1>19 DEF PollitemCallback, Call, CancelledTimer
  <2>3. CallIsRecord' /\ (call'.failed => call.failed)
    BY <2>2, CalledIsRecord
  <2>q. QED
    BY <2>1, <2>3
<1>20. ASSUME NEW v \in Values, Collect(v) PROVE OnRequest'
  BY <1>20 DEF Collect
<1>21. ASSUME NEW v \in Values \cup {Loop}, Forget(v) PROVE OnRequest'
  BY <1>21 DEF Forget
<1>22. ASSUME NEW t \in Timers, RegisterTimer(t) PROVE OnRequest'
  BY <1>22 DEF RegisterTimer, Queue, Obtain, Has
<1>23. ASSUME NEW t \in Timers, CancelTimer(t) PROVE OnRequest'
  BY <1>23 DEF CancelTimer, MayCancel, Has
<1>24. ASSUME NEW t \in Timers, TimerCancel(t) PROVE OnRequest'
  BY <1>24 DEF TimerCancel
<1>25. ASSUME NEW i \in Pollitems, Register(i) PROVE OnRequest'
  BY <1>25 DEF Register, Obtain, Has
<1>26. ASSUME NEW i \in Pollitems, Remove(i) PROVE OnRequest'
  BY <1>26 DEF Remove, PollerEnd, Has
<1>27. CASE UNCHANGED vars
  BY <1>27 DEF vars
<1>q. QED
  BY <1>1, <1>2, <1>3, <1>4, <1>5, <1>6, <1>7, <1>8, <1>9, <1>10, <1>11, <1>12, <1>13, <1>14, <1>15, <1>16, <1>17, <1>18, <1>19, <1>20, <1>21, <1>22, <1>23, <1>24, <1>25, <1>26, <1>27
     DEF Next, Reactor, Handler

\* start returns -1 only when a handler called stop, returned false or raised.
THEOREM EndedOnRequest ==
  ASSUME RunsOnce
  PROVE  Spec => []EndsOnRequest
<1>1. OnRequest /\ [Next]_vars => OnRequest'
  BY NextOnRequest
<1>2. OnRequest => EndsOnRequest
  BY DEF OnRequest, Requested, EndsOnRequest
<1>q. QED
  BY <1>1, <1>2, InitOnRequest, PTL DEF Spec

=============================================================================
