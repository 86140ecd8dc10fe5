# rbczmq in TLA+

rbczmq binds czmq, the high level C API of ZeroMQ, to Ruby. Its C extension
keeps Ruby objects, the C structs behind them and the czmq objects those point
to in step, while the global VM lock (GVL) is released and retaken around every
blocking call and the garbage collector frees structs when it likes. This
directory models that bookkeeping in TLA+, checks it with TLC and proves its
safety with TLAPS.

Paths such as `context.c:104` are relative to `ext/rbczmq/`.

## 1. The system

| component | state | operations | interacts with |
| --- | --- | --- | --- |
| Context (`context.c`) | process map `@__zmq_ctx_process`, `ctx->ctx`, flags, zlist `ctx->sockets` of raw wrapper pointers, `context_mutex` | `new`, `socket`, `destroy`, options, free callback | creates sockets, closes them all on destroy |
| Socket (`socket.c`) | raw socket, DESTROYED flag, context pointer, creating thread, state PENDING/BOUND/CONNECTED, endpoints, monitor | `close`, `bind`, `connect` and their undoing, `send`, `recv`, frames, messages, options, free callback | its context's list; frames and messages it consumes or returns |
| Message (`message.c`) | `zmsg_t`, zlist of frame wrappers, OWNED flag | `push`, `add`, `pop`, `remove`, `wrap`, `unwrap`, walk (`first`, `next`, `last`), `to_a`, `destroy`, mark and free callbacks | owns czmq frames and marks their wrappers |
| Frame (`frame.c`) | `zframe_t`, OWNED flag, raw pointer to its message | accessors, `destroy`, free callback | reads its message's flags for `gone?` |
| Poller, Pollitem (`poller.c`, `pollitem.c`) | Ruby array of items, count, C pollset, dirty flag, readables, writables | `register`, `remove`, `poll`, `readables` | copies raw socket pointers |
| Loop, Timer, Handler (`loop.c`, `timer.c`, `lib/zmq/loop.rb`) | `zloop_t`, running flag, items | `start`, `stop`, `register`, timers, callbacks | calls back into Ruby with the GVL |
| Monitor (`socket.c` 1746-1880) | a second Ruby thread, a PAIR socket, a raw pointer to the monitored wrapper | `monitor` | calls a handler with what libzmq reports |
| Beacon (`beacon.c`) | `zbeacon_t` | `publish`, `subscribe`, `pipe`, `destroy`, free callback | lends the one socket it talks to its agent through |
| Ruby layer (`lib/zmq`) | - | `bind`/`connect` by type, SRV lookup, REQ/REP errors, logger | calls the C methods |

What is hard in this code:

- *Atomicity.* A method checks a flag, releases the GVL, calls czmq and sets the
  flag when it has the GVL back. `close`, `ctx.destroy`, `send_message`,
  `send_frame` and `poll` all have this shape, and a second thread, an
  exception of `Thread#raise` or a free callback may run in the gap.
- *Order of destruction.* Sockets, contexts and wrappers die by `close`,
  `ctx.destroy` and two free callbacks, in any order, also at process exit. The
  lists between them hold raw pointers the collector does not know.
- *Two views of one thing.* A message keeps czmq frames and wrappers in parallel
  lists; a poller keeps an array, its length and a C copy.
- *Stale pointers.* Frames point to messages, poll items to raw sockets, calls to
  a `zctx_t` read before the GVL was released, the monitor thread to a wrapper, the
  pipes of a beacon to its socket.
- *Updates after the fact.* `bind`, `connect`, `disconnect` and `unbind` write the
  endpoints and the state of the wrapper when libzmq has done its part and the GVL
  is back, from what the socket and the caller's string say then.
- *One thread at a time.* libzmq wants a socket used by one thread. Most methods
  compare the calling thread with the creating one; some, and `ZMQ.proxy`, do not.
- *Callbacks.* Marking a message moves the same list cursor that `next` uses. A
  loop calls Ruby handlers in the middle of a pass, which change what the pass
  is about to call.

The properties each component must have are listed with its module below;
`PROJECT.json` lists every hazard at its line, with the properties aimed at it.

## 2. Modules

| module | what it is |
| --- | --- |
| `SocketRegistry` | abstract specification: contexts and raw sockets, whoever closes them |
| `ContextSockets` | contexts, sockets, GVL, `context_mutex`, free callbacks; implements `SocketRegistry` |
| `ContextSocketsProofs` | proofs: types and stack frames; what holds whatever the program does; what a program that joins its threads gets; one live context, and the refinement of `SocketRegistry` |
| `SocketCalls` | what threads do with living sockets: endpoints, guards, turns, proxy |
| `SocketCallsProofs` | proofs: the cross-thread guard keeps threads apart; types; endpoints and state mirror libzmq |
| `MessageFrames` | who owns a frame: wrappers, czmq frames, messages, sending, collection |
| `MessageFramesProofs` | proofs: everything the runs check about it |
| `FrameIteration` | `first`/`next`/`last` over a message and what moves the cursor |
| `FrameIterationProofs` | proof: an undisturbed walk is complete and in order |
| `Poller` | poll items, registration and the three parts of `poll` |
| `PollerProofs` | proofs: types, memory safety, fresh pollset, results |
| `Selection` | the entries of a sequence at some positions; used by `Poller` and `SocketCalls` |
| `Loop` | the reactor: one loop, its timers and items, passes, handlers, interrupts |
| `LoopProofs` | proofs: types, no stale callback, runs end on request |
| `Monitor` | a monitored socket, the monitor thread and the end of both |
| `MonitorProofs` | proofs: types, the receive's assertion, order of events |
| `Beacon` | a beacon, its destruction, the pipes around its one socket |
| `BeaconProofs` | proofs: types, destroyed once and by itself |
| `MC...` | the same modules for TLC, with symmetry where it is sound |

### ContextSockets

One action is one stretch of C between two points where the GVL is given up;
`pc[t]` names the point where a thread is parked and `op`, `self_ctx`,
`self_sock` what its frame on the C stack holds. `rb_czmq_ctx_destroy` is thus
`ContextDestroy` (checks, first `zlist_pop`), then for each socket
`LockContextMutex`, `NogvlZsocketDestroy`, `MarkDestroyed` (sets the flag, pops
the next), and at the end `LockContextMutex`, `NogvlZctxDestroy`, `CtxFreed`.
`SocketClose` and the free callbacks `FreeSockGc`, `FreeCtxGc` share those steps
as the C code shares `rb_czmq_context_destroy_socket` and `rb_czmq_free_ctx`.
`ctx.socket` is `ContextSocket`, `NogvlSocketNew`, `SocketAlloc`;
`ZMQ::Context.new` is `ContextNew`, `ContextNewFill`, `ContextNewRegister`, the
last of which may leave the program without the object (a bad I/O thread count
raises after registration).

The actor `GC` is the free callback that is running; it runs on the stack of a
`host` thread, which does nothing meanwhile. A context or socket may be
collected only when no handle, no stack of a running method, no process map entry and no
marking socket reaches it. At exit (`Exit`) everything may be finalized, in any
order.

What the program and the VM do is a set of three constants:
`JoinBeforeDestroy` (threads are joined before `ctx.destroy`, which is how the
tests and the README of the library use it), `FinalizeAtRest` (free callbacks
run only between calls of their host), `AsyncInterrupts` (`Thread#raise`, `kill`
or `Timeout` may unwind a method where the GVL is checked).

Anything czmq would abort on, or that reads freed memory, sets `fault`, so the
properties are statements about histories: `CloseOnce` (each raw socket reaches
`zsocket_destroy` at most once), `NoDangling`, `ListedSocketsLive` (the raw
pointers in a context's list are safe), `FlagMeansClosed`, `NoOrphan` (no open
raw socket escapes its context), `DestroyReachesEverySocket`, `OneContext`,
`MapEntryUsable`, the refinement `KeepsRegistry`, and the liveness properties
`CallsReturn`, `DroppedSocketClosed`, `ExitFinalizesAll`. `DroppedContextDestroyed`
is stated and not checked: section 4 says why it fails. What of this is proved, and
not only checked, is section 5.

### SocketCalls

Sockets that were created and not yet collected, in the hands of threads. A call has
three parts: the checks of the method and what it does before it gives up the GVL
(`Enter`, shared by all), libzmq at work (`Nogvl...`), and the rest of the method
with the GVL back (`...Return`). `inside[t]` is the call a thread is in. A call that
a check refuses raises and changes nothing, so it is no step. Every method that
sends or receives is an action of its own, since the types refuse different ones
(`Unsupported`) and the methods report errors differently (`MethodReturns`,
`FsmHandled`).

`attached` is libzmq's list of what a socket is bound and connected to, each with
the key that undoes it: for `bind` the endpoint as resolved, for `connect` as
written. The wrapper has only `endpoints`, which it fills from `last_endpoint`, and
`state`. `Spelled` gives the spellings libzmq may resolve a name to; `disconnect` and
`unbind` strike out what they were given, so a connection to `tcp://localhost:5555`
can never be struck out (`EndpointsMirror`, the finding of `SocketCalls_localhost`).
The history variable `aliased` holds the sockets this has happened to. For the others
`UnaliasedMirror` and `UnaliasedState` compare wrapper and libzmq between calls;
`BoundIsKnown` is what remains for all: an endpoint may be listed that is no more,
and a connection missing, but never a binding. The one `state` of a socket that is
both bound and connected is the last of the two, so only whether it is attached is
compared.
`OneThreadInside` says that libzmq sees no socket in two threads, option setters and
getters included.

The composition with `ContextSockets` is by the set of sockets: there their life,
here the calls between birth and `close`, whose inner steps are one here
(`CloseReturn`).

### MessageFrames

A frame number names a czmq frame and the wrapper made with it. `zframes[m]` is
the `zmsg_t`, `frames[m]` the zlist of wrappers, `frame_owned` and
`message_owned` the OWNED flags that decide who frees. One action per method;
the two sends take three steps each, because they release the GVL between their
check and their update. Contents are empty or not, since that is all
`pop`, `popstr` and `unwrap` look at. `fault` records the first access to what is
freed or not there, so `NoBadAccess` speaks of every method at once. `OneOwner`,
`NothingLeaks`, `ListsMirror` and `DestroyedIsGone` are about the flags and lists by
which the code decides. `Risky` names uses the code does not
guard against; with `Risky = {}` the properties hold, and each use breaks one (section 4).

An accessor tests the flags of its frame (`GuardFrame`) before it reads it
(`AccessFrame`). `FrameCompare`, which is `<=>`, tests those of the first frame
twice and of the second never, and breaks `NoBadAccess` (section 4). The careful program does not compare with a frame that is
gone. It does not interrupt a send either: an exception where the GVL is taken back
leaves the OWNED flag of what has been sent, which is one of the two outcomes of
`SentFrame` and `SentMessage` (`Disowned`).

### FrameIteration

One message and one walk over it with `first` and `next`, the cursor being
that of the zlist of wrappers. `Disturbs` says who else moves it: the mark
callback of a garbage collection, or `to_a`. Its `TypeOK` is not among the
invariants of the runs, nor is that of `Beacon`: both are part of the inductive
invariants in the proofs.

### Poller

`pollables` is the Ruby array, `poll_size` the count, `pollset` the items the C
array was copied from, `builds` the identity of that array (a rebuild frees the
old one) and `revents` what `zmq_poll` wrote. `Poll`, `NogvlPoll` and
`PollReturn` are the parts of one `poll`. `polled` records what the last
`zmq_poll` found, so that `ReadablesAsPolled` can compare it with the arrays.
Polling an empty poller returns 0 and touches nothing, so it is no action. What
`rb_ary_delete` leaves and what `readables` gets are entries picked by position, by
`EntriesAt` of `Selection`: `SelectSeq` is a recursive definition, about which nothing can be
proved here, and `EntriesAt` is not. `SelectionAssumption` of `MCPoller` compares
the two. When an item that was registered twice is removed, two entries go and the
count goes down by one; `Selectables` then runs past the end of the Ruby array and raises,
with what it has pushed so far in place.

### Loop

The loop's wrapper is `zloop` (none, live, freed), `running` and `items`, the
Ruby array that keeps what the zloop points to. `timers` holds the entries of the
zloop, each a callback with its argument: the started timer and the breakers of
`loop.c` beside the program's timers. `pc` says where `start` is: outside, in
`zmq_poll`, among the timers or the items of a pass, in a handler, or at the end
of a pass. One callback of the zloop is one action (`StartedCallback`,
`BreakerCallback`, `TimerCallback`, `PollitemCallback`); if it calls Ruby, the
handler uses the loop by actions of the program and ends by one of
`HandlerReturns`, `HandlerReturnsFalse`, `HandlerRescued` (it raises, its
`on_error` returns) and `HandlerRaises` (both raise, and `start` is unwound),
which are the ways through `rb_czmq_callback`. Collection may come at any time,
an interrupt whenever the thread has no GVL.

A breaker queued for a failed handler has the handler as its argument. Its store
to `running` then hits the class pointer of a Ruby object; `overwritten` records
it, and what that object does afterwards is not modelled.

`NoStaleCallback`: `items` is enough to keep alive what the zloop may call.
`EndsOnRequest` and `EndsWhenAsked`: a run ends with -1 only if a handler of this
run wants it to, and does end if one does. They hold for a careful program;
`Risky` names what it avoids, and each use breaks one of them (section 4).

### Monitor

`monitor` starts a Ruby thread, which makes a PAIR socket in the context of the
monitored socket and then alternates between a receive without the GVL and calls of
the handler. `thread` is where it is, `main` where the program's thread is, `inbox`
the frames libzmq has put on the PAIR socket. The thread holds a raw pointer to the
monitored wrapper: `wrapper`, `destroyed` and `has_ctx` are what it finds there, at
each point where the code looks. Closing, `ctx.destroy`, a second socket created
meanwhile, forgetting and collection may come at any of its steps.

A receive comes back with a frame, with an error when the PAIR socket was closed, or
because a signal arrived (`Interrupted`, which may happen and need not); one that the
flag prevented comes back as a failure, and the code then tests the flag again and
asserts that it is set (`NotReceived`). `fault` names the step that aborts or uses
what is gone: a wrapper or handler that was collected, a context that is no
more, a context another thread is in (`InContext`: it holds `context_mutex` and not the
GVL), a connect that is refused, a failed receive.

`EventsInOrder`, `EventsReachHandler` and `EndsWithContext`: the handler hears of
events in order and of all of them unless the thread has ended, and the thread ends
once the context is destroyed. Three more properties are stated that the code does not
have (section 4): the thread makes its socket without the mutex
(`AloneInContext`), its PAIR socket is closed under it (`PairStaysOpen`), and its
handler is not marked once the socket is closed (`HandlerIsAlive`).

### Beacon

One `zbeacon_t`, the wrapper's pointer to it, and the wrappers `beacon.pipe` made,
all around the one socket of the `zbeacon_t`. `at` says where each thread and the
free callback are, between ruby, the way to czmq and czmq itself, because no method
holds the GVL in there. `DestroyedOnce`: the `zbeacon_t` is destroyed once, its one
socket is never in two calls, and a method called after the end is given NULL, on
which czmq aborts, but never a freed `zbeacon_t`. `ForgottenBeaconDestroyed` says that a
beacon does get destroyed. A pipe does dangle after the end of its beacon
(`"freed_pipe"`): that is outside of `DestroyedOnce`.

Definitions named for a fault (`DestroySocketAgain`, `MessagePopNotOwned`, ...)
are wrong versions of the definition that follows them. TLC must find the
property listed with them in `PROJECT.json` violated when they take its place.

## 3. Runs

`tlc -config <run>.cfg <module>.tla`; the `about` of each run in `PROJECT.json`
says what it shows.

| run | bounds | checks |
| --- | --- | --- |
| `ContextSockets_joined` | 2 threads, 2 contexts, 2 sockets, fair | all properties of a program that joins its threads: safety, the refinement, liveness |
| `ContextSockets_unrestricted` | 2 threads, 1 context, 2 sockets; no discipline | what holds whatever the program does |
| `ContextSockets_concurrent_destroy` | 2 threads, 1 context, 1 socket | finding: `CloseOnce` |
| `SocketCalls_careful` | a REQ and a DEALER socket of one thread, a second thread; 2 addresses and a name of either; 2 endpoints at a time | types, threads kept apart, endpoints and state |
| `SocketCalls_localhost` | the DEALER socket, an address and its host name; 1 endpoint at a time | finding: `EndpointsMirror` |
| `MessageFrames_careful` | 1 thread, 3 frames, 2 messages, received messages of up to 2 frames | all properties of a careful program |
| `FrameIteration_undisturbed` | up to 4 frames, 6 visits | `WalkInOrder` |
| `FrameIteration_mark` | same, with marking | finding: `WalkInOrder` |
| `Poller_registered_twice` | 2 items, 3 entries, 1 socket, 1 IO, 2 builds | all invariants of a poller |
| `Loop_one_run` | 1 timer, 1 item, 1 start, an `on_error` that may return, fair | all properties of a loop |
| `Monitor_careful` | 3 events, 3 reports, fair | types, order and delivery of events, end of the thread |
| `Beacon_one_thread` | 2 threads of which one uses the beacon, also after destroy; 2 pipes, fair | `DestroyedOnce`, `ForgottenBeaconDestroyed` |

Why the bounds are enough. Every race of the life cycle is between two actors
about one socket or one context, so two threads and the collector cover it; two
sockets make the destroy loop go round with one closed beforehand; a second context
is one made after the first was destroyed. A thread that owns the two sockets, of a type that
takes turns and one that does not, and one that owns neither are enough for the
cross-thread guard, which looks at one socket; two endpoints at a time contain the same
one twice, one under two spellings, one bound and connected to at once, and one
detached while the other stays. Three frames and two messages give a stranger, a member and a loose
frame at once. Two items with three entries contain an item registered
twice beside another. One timer and one item are the two kinds of callback, and
each can make the other stale: a timer's handler removes an item the pass has yet
to serve, and a timer cancelled before `start` is still among the first pass's.
Three reports leave one to be received, one being handled and the last for the
close. Two pipes are two wrappers around the one socket of a beacon. The counters
bounded are `MaxEndpoints`, `MaxEvents`, `MaxFrames`, `MaxMessages`, `MaxLength`,
`MaxVisits`, `MaxItems`, `MaxBuilds` and `MaxRuns`, each in the guard of the
action that counts; the runs that have them do not check for deadlock, because
a program out of numbers stops. `ContextSockets` is checked for
deadlock: only a finished or dead process (`Terminated`) may stop.

Fairness (`FairSpec`): weak fairness of each actor's next step, and of
collecting each dead object. A step waits for the GVL, for
`context_mutex` or for czmq: Ruby hands the GVL round by time slice, the mutex
is held only over calls of czmq that return, and sockets are closed with a
bounded linger. That dead objects are collected in the end is what the collector
promises when the program goes on allocating, and at exit without condition. No
fairness is assumed of what the program does (calls, dropping, exiting).

Fairness of `Loop`: `zmq_poll` comes back while a timer is queued, since the zloop
waits no longer than to the next one (without a timer it may wait for good, even
when interrupted); handlers return; a pass comes to its end, in spite of timers
that handlers add to it; and a breaker that stays queued is due in some pass,
since the clock goes on. The last two are strong fairness, as handlers interrupt
the phase in which they are possible.

Fairness of `Monitor`: the GVL goes round, so the monitor thread and the program's
calls of czmq go on, and a handler returns or raises. A signal need not come. Nothing makes the program
close or destroy anything, or libzmq report anything. Fairness of `Beacon`: calls of
czmq return, and a beacon nothing refers to is collected.

## 4. Findings

With a run (`findings` in `PROJECT.json`):

- `ctx.destroy` beside another thread's `close` hands a socket to czmq twice
  (`context.c:107`): the flag is set after the GVL was away. The comment at
  `context.c:88` asks for exactly once.
- A garbage collection in the middle of a walk restarts it (`message.c:44`).
- `disconnect` of a name that libzmq resolved to an address leaves the address in
  `endpoints` and the state at CONNECTED (`socket.c:313`), in the very example
  its documentation gives (290-295).

Without a run of their own, but with a definition that TLC finds violated as the table
says:

- `frame <=> other` tests the first frame twice and `other` not at all
  (`frame.c:316`), and so reads a czmq frame that was destroyed with its message
  or by a send. The error for a frame that is gone (`frame.h:33`) is
  raised for the first operand only.
- A loop whose `start` has returned says that it is running (`loop.c:304`), unless
  `stop` ended it; the breaker of a failed handler, which should see to it, has
  the wrong argument (`loop.c:51`). The comment at 313 promises otherwise.
- The monitor thread makes its PAIR socket without `context_mutex`
  (`socket.c:1777`), while the `ctx.socket` that the documentation of `monitor` has
  next (1846) may be in the same context.
- The PAIR socket is closed by `ctx.destroy` while the monitor thread is in a
  receive on it (`socket.c:1756`); the flag is tested only before. The comment at
  1819 calls that unsafe, the one at 1828 leaves it so.
- A handler nothing but the socket refers to, such as the default one, is no longer
  marked once the socket is closed (`socket.c:22`), and is then called for the close,
  as `test_monitoring.rb:46` wants it.

To see one of these, or what else the switches of the modules show, take the run
named and change its constant or what it checks:

| run | change | violated |
| --- | --- | --- |
| `ContextSockets_concurrent_destroy` | `JoinBeforeDestroy = TRUE`, `FinalizeAtRest = FALSE` | `CloseOnce`: a free callback nested in another destroy |
| `ContextSockets_concurrent_destroy` | `JoinBeforeDestroy = TRUE`, `AsyncInterrupts = TRUE` | `CloseOnce`: an exception between close and flag |
| `ContextSockets_joined` | `Creators = {t1, t2}` | `OneContext`: the check and the registration of the process map are apart |
| `ContextSockets_joined` | check `DroppedContextDestroyed` too | the process map marks every context (`context.c:202`), so a forgotten one is collected at exit only, and the free callback's own removal from the map (211) comes too late |
| `SocketCalls_localhost` | check `AlwaysHonest`, which is `UnaliasedState` for all sockets | after the same calls the state is CONNECTED and libzmq has nothing attached, so `recv` is let through and waits for good (`socket.c:314`) |
| `SocketCalls_careful` | `Risky = {"edit_the_endpoints"}` or `{"edit_the_argument"}` | `UnaliasedMirror`: `endpoints` hands out the array itself, and the argument is read again after the GVL was away |
| `SocketCalls_careful` | `Risky = {"read_elsewhere"}` or `{"proxy_elsewhere"}` | `OneThreadInside`: the getters and `ZMQ.proxy` have no cross-thread guard |
| `SocketCalls_careful` | `Risky = {"out_of_turn"}`, check `OrderErrorRaised` | of the eight methods `req.rb` and `rep.rb` name only `send` raises `ZMQ::Error`: the receives return nil, `send_message` ignores the error, and `send_frame` is defined again without the rescue |
| `MessageFrames_careful` | `Risky = {"remove_a_stranger"}` (`message.c:343`) or `{"wrap_a_member"}` | `OneOwner`; the first breaks `DestroyedIsGone` as well |
| `MessageFrames_careful` | `Risky = {"keep_what_was_consumed"}` or `{"destroy_a_member"}` | `DestroyedIsGone` |
| `MessageFrames_careful` | `Risky = {"outlive_the_message"}`, or two threads and `{"share_while_sending"}` | `NoBadAccess` |
| `MessageFrames_careful` | `Risky = {"interrupt_a_send"}` | `DestroyedIsGone` and `NoBadAccess`: what was sent keeps its flag |
| `MessageFrames_careful` | `Risky = {"compare_with_gone"}` | `NoBadAccess` |
| `MessageFrames_careful` | `Risky = {"unwrap_a_short_message"}`: `message.c:526` | `NoBadAccess` |
| `FrameIteration_mark` | `Disturbs = {"to_a"}` | `WalkInOrder` |
| `Poller_registered_twice` | `Risky = {"share_while_polling"}` | `NoBadPoll`, and `ReadablesAsPolled` when that is not checked |
| `Poller_registered_twice` | `Risky = {"watch_what_is_closed"}` | `NoBadPoll`: `zmq_poll` gets the raw pointer of a closed socket |
| `Loop_one_run` | check `StoppedIsNotRunning` | after `start` has returned, because the context was terminated or a handler returned false or raised, `running?` is still true |
| `Loop_one_run` | add `"cancel_what_failed"` to `Risky` | `EndsWhenAsked`: the zloop ends timers by argument, and so the breaker of the timer whose handler failed; the loop goes on |
| `Loop_one_run` | `MaxRuns = 2`, `Risky = {"restart"}` | `EndsOnRequest`: a breaker left over from the first run ends the second |
| `Loop_one_run` | `Risky = {"forget_at_once"}` or `{"destroy_while_running"}` | `NoStaleCallback` |
| `Monitor_careful` | `Risky = {"go_on_at_once"}`, check `fault # "no_context"` or `fault # "refused"` | the socket is closed before the thread has begun: `zsocket_new` gets NULL, or the connect fails, and an assertion ends the process (`socket.c:1777`, 1781) |
| `Monitor_careful` | `Risky = {"go_on_at_once"}`, check `AloneInContext` | the thread's `zsocket_new` and one of the program are in one context |
| `Monitor_careful` | check `PairStaysOpen` | `zctx_destroy` closes the socket the thread is receiving from |
| `Monitor_careful` | `Risky = {"leave_the_handler_to_the_socket"}`, check `HandlerIsAlive` | the collector frees the handler before it is called |
| `Monitor_careful` | `Risky = {"forget_the_socket"}`, check `fault # "wrapper_freed"` | the collector frees the wrapper the thread goes by |
| `Monitor_careful` | check `HandlerGetsAddress` | `zmq_recvmsg` returns a size, which the code compares with 0 (`socket.c:1757`), so the address is never read as one |
| `Monitor_careful` | check `ClosedIsReported` | the thread may have ended when the close is reported; `test_monitoring.rb:46` relies on it |
| `Beacon_one_thread` | add `"share"` to `Risky` | `DestroyedOnce`: another thread's method is in the beacon that is destroyed |
| `Beacon_one_thread` | add `"keep_only_the_pipe"` to `Risky` | `DestroyedOnce`: the collector destroys the beacon while its pipe receives |
| `Beacon_one_thread` | check `fault \notin {"NULL_beacon", "freed_pipe"}` | a method after destroy aborts in czmq; a pipe reads freed memory |

Seen while reading, without a run: `poller.remove(sock)` takes out the first item
about the socket only, where the comment promises all (`poller.c:217`, 240);
`poll` of an empty poller leaves the old readables (`poller.c:145`); `loop.remove` of
one of two items about a socket ends both in the zloop, as `zloop_poller_end`
goes by the socket, and `ZL.bind` makes two for a socket that is polled both ways;
the endpoints array of a beacon's pipe is never marked, as its context is NULL
(`beacon.c:301`); `ZmqAssert(endpoint_string != NULL)` cannot fail, since the string
is used before (`socket.c:219`, 221); `send` reads the bytes of the Ruby string
without the GVL (`socket.c:469`).

## 5. Proofs

The theorems are about all modules that model code, for any sets of threads, contexts,
sockets, timers, items, pipes and events and any numbers of frames and messages. All
rest on the `ConstantsAssumption` of the module (objects and `Nil` are distinct, bounds
are numbers). No module uses a fact that is not proved in it, in a module it
extends, or in the library of TLAPS.

| theorem | module | for which programs | property |
| --- | --- | --- | --- |
| `TypeCorrect` | `ContextSocketsProofs` | all | `TypeOK` |
| `ListsSafe` | `ContextSocketsProofs` | all | `ListedSocketsLive` |
| `FlagHonest` | `ContextSocketsProofs` | all | `FlagMeansClosed` |
| `ClosedOnce` | `ContextSocketsProofs` | disciplined | `CloseOnce` |
| `NothingDangles` | `ContextSocketsProofs` | disciplined | `NoDangling` |
| `NoSocketLost` | `ContextSocketsProofs` | disciplined | `NoOrphan` |
| `DestroyComplete` | `ContextSocketsProofs` | disciplined | `DestroyReachesEverySocket` |
| `MapNeverStale` | `ContextSocketsProofs` | disciplined | `MapEntryUsable` |
| `SingleContext` | `ContextSocketsProofs` | disciplined, one creator | `OneContext` |
| `RegistryKept` | `ContextSocketsProofs` | disciplined, one creator | `KeepsRegistry` |
| `GuardSuffices` | `SocketCallsProofs` | keeps to its sockets | `OneThreadInside` |
| `CallsAreTyped` | `SocketCallsProofs` | all | `TypeOK` |
| `EndpointsAreMirrored` | `SocketCallsProofs` | plain | `UnaliasedMirror` |
| `StateIsHonest` | `SocketCallsProofs` | plain | `UnaliasedState` |
| `BindingsAreKnown` | `SocketCallsProofs` | plain | `BoundIsKnown` |
| `FramesTyped` | `MessageFramesProofs` | careful | `TypeOK` |
| `MemorySound` | `MessageFramesProofs` | careful | `NoBadAccess` |
| `FreedOnce` | `MessageFramesProofs` | careful | `OneOwner` |
| `EveryFrameOwned` | `MessageFramesProofs` | careful | `NothingLeaks` |
| `ListsAgree` | `MessageFramesProofs` | careful | `ListsMirror` |
| `GoneSaysSo` | `MessageFramesProofs` | careful | `DestroyedIsGone` |
| `WalkedInOrder` | `FrameIterationProofs` | undisturbed | `WalkInOrder` |
| `PollsetStaysFresh` | `PollerProofs` | all | `PollsetFresh` |
| `PollerTyped` | `PollerProofs` | all | `TypeOK` |
| `PollsSafely` | `PollerProofs` | careful with its poller | `NoBadPoll` |
| `ResultsAreOfLastPoll` | `PollerProofs` | careful with its poller | `ReadablesAsPolled` |
| `LoopTyped` | `LoopProofs` | all | `TypeOK` |
| `NothingStaleCalled` | `LoopProofs` | holds what it ended | `NoStaleCallback` |
| `EndedOnRequest` | `LoopProofs` | starts once | `EndsOnRequest` |
| `TypeCorrect` | `MonitorProofs` | all | `TypeOK` |
| `ReceiveNeverFails` | `MonitorProofs` | all | the assertion of `socket.c:1794` (no run) |
| `HeardInOrder` | `MonitorProofs` | all | `EventsInOrder` |
| `BeaconTyped` | `BeaconProofs` | all | `TypeOK` (no run) |
| `BeaconDestroyedOnce` | `BeaconProofs` | one thread, keeps the beacon | `DestroyedOnce` |

*Disciplined* is `JoinBeforeDestroy /\ FinalizeAtRest /\ ~AsyncInterrupts`, and
*one creator* is `SingleCreator`: the constants of `ContextSockets_joined` are an
instance. Neither can be dropped: the first finding of section 4 and the first
three rows of the table after it are the counterexamples.
*Careful* is `Risky = {}`, which for `MessageFrames` leaves out, beside what section 4
lists, any `<=>` with a frame that is gone: that program reads freed memory, and
`MemorySound` says so of no other accessor. *One thread, keeps the beacon*
(`OneThread`: `Risky` has at most `"use_what_was_destroyed"`) lets the one thread
destroy the beacon twice and use it afterwards. *Keeps to its sockets* (`KeepsToItsSockets`), *holds what
it ended* (`KeepsWhatItEnded`), *starts once* (`RunsOnce`), *plain* (`Plain`:
edits neither the endpoints nor the string of a call under way), *undisturbed*
(`Disturbs = {}`) and *careful with its poller* (`Careful` of `PollerProofs`: one thread
polls, and what is watched stays open) exclude only uses that break the property. A
poller may hold an item twice in all its theorems. For each excluded use section 4 has
the counterexample.

How the argument goes:

1. *Types and frames* (`Frames`). What a parked call has on its C stack follows
   from the place where it is parked. `TypeOK` is inductive only together with
   this, since a step uses `self_ctx[a]` as a context and `self_sock[a]` as a socket.
2. *Lists and flags* (`ListInv`, any program). A wrapper enters its context's list
   once, when `ctx.socket` returns, and whoever sets out to close it takes it off
   before the GVL is given up. So no wrapper in the hands of a closing call is
   listed (`ClosingOK`), none is flagged before its raw socket is closed
   (`FlagsOK`), and a listed one is a socket of that context, allocated and not
   flagged (`ListedOK`). Each `ctx.socket` builds a wrapper of its own (`OpeningOK`).
3. *Hands* (`Safe`, disciplined programs). The invariants the runs check are far
   from inductive, because they do not say what the parked calls hold. `Safe`
   does: a given wrapper without the flag has a live context and is in its list or
   in a call's hands (`SocketsOK`); a socket is in one call's hands at a time
   (`OneCallPerSocket`), and in nobody's while it is listed (`ListsOpen`); a
   context that is being taken down is out of everybody else's reach
   (`DestroyAlone` for `ctx.destroy`, `FreeCtxAlone` for the free callback, which
   is where reachability comes in). Hence a closing call finds the raw socket
   open and its context alive, and every abort is excluded.
   `ContextSockets_joined` is where these parts were tried out before.
4. *The process map* (`RegInv`, one creator). A live context is in the map or
   under construction, contexts are constructed only while the map is empty, and
   an entry goes only with its own context.
5. *Refinement.* `ContextNewFill`, `NogvlSocketNew`, `NogvlZsocketDestroy`,
   `MarkDestroyed` and `NogvlZctxDestroy` implement the five actions of
   `SocketRegistry` (`MarkDestroyed` stutters when the flag was set already), and
   every other step stutters.

6. *Threads in sockets* (`Apart`). Every call a thread is in concerns its own
   sockets only, so two threads are never in one: the guard's comparison is
   inductive by itself once proxies and getters keep to it.
7. *Frames and messages* (`Safe` of `MessageFramesProofs`). The flags are not enough
   for an induction, because what a method finds depends on who refers to what.
   `FrameOK` says that a wrapper on its own has a live frame unless it is being sent,
   and that one the program holds and that does not say `gone?` is in the list of a
   message that is held; `MessageOK` that an owned message has the same frames in both lists, all
   live, different and pointing back to it, and that their wrappers are kept as long
   as somebody refers to the message; `SendOK` that one call at a time sends a thing
   and that nothing but the call ends its ownership; `Numbered` that numbers are
   given out in order, so that a new frame is nobody's. The lemmas on sequences say
   what pushing, adding, popping and removing do to the set of members. Methods are
   then grouped by what they do: `JoinKeeps`, `LeaveKeeps`, `GrowKeeps`,
   `MadeAloneKeeps`, `AllocMessageKeeps`, `FreeFrameKeeps`, `FreeMessageKeeps`.
8. *Callbacks of a loop* (`NothingStale`). What is in `items`, held by the program or
   being called has not been collected (`KeptAlive`); what the zloop may still call in
   this pass is in `items`, or was ended in the pass and is in the program's hands
   (`CallableKept`); the zloop is there while it runs and calls nobody outside of a
   run (`RunsOnLive`). `OnRequest` records where a -1 can come from: before the first
   run there is neither a breaker nor a failed call, and in it there is one only after
   the program asked for the end.
9. *The monitor thread*. Types and order hold of any program. `Typed` adds to
   `TypeOK` that a closed socket is flagged, or in the hands of the call that closes
   it, that libzmq has room for its last report, and that a receive that is over
   brought something. For the order (`InOrder`): the handler was called with what was
   reported first, and `inbox` holds the rest, counted in frames: an event is two of
   them; a step that fails changes neither. A socket may be closed before the thread
   has begun, and then its close is reported to nobody: so `NothingBefore` excludes
   reports without a PAIR socket only while the socket is open. A receive that the
   flag prevented finds the flag set (`ComesBackWith`), since nothing clears it and
   a freed wrapper fails first: so the assertion after it holds (`ReceiveNeverFails`).
   What memory the thread may touch is not proved: a program that waits for the
   first receive and keeps socket and handler is safe by just that, and the
   documented programs that do not are the findings.

10. *Calls and their stages* (`Shapes`, `Staged`). `TypeOK` alone is not inductive: that
   the list stays within its bound when `connect` comes back, and what a `...Return`
   writes, depends on the stage of the call, and so `Stage` ties result and
   argument to the method. A call is on one open socket of its own thread (`CallsOwn`),
   which is why the room the checks found is still there when it returns.
11. *Endpoints and state* (`Tracked`). Between the two halves of a call the wrapper and
   libzmq disagree, so the invariant says by how much: there is a list `old` of
   attachments of which the wrapper's endpoints are the names, and what libzmq has is
   `old` changed by just what the call in flight has done. When nothing is in
   flight the two coincide (`AtRestTracked`). This is given up for a socket that is
   `aliased`. What is kept for every socket: the state goes by whether the list of
   endpoints is empty (`StateGoes`), and the keys of what is bound are listed, or about
   to be, and none is about to be struck out (`BoundKnown`).
12. *The walk* (`WalkInv`). Of the frames still in the list those up to the cursor were
   returned and the others were not (`SeenToCursor`), each once and in the order of the
   list (`SeenInOrder`), wherever a frame is taken out. So when `next` comes to the end,
   every frame was returned.
13. *One poll at a time* (`IInv` of `PollerProofs`). `Registered` is what holds of any
   program: the array is no longer than the count says, and the pollset is the array
   unless it is marked dirty. For the types that is enough, with `OnlyMade`: array and
   pollset hold items that were made. `OneCall`: in a careful program one thread at a time is in a
   poll, the pollset it works on is the current one and has as many entries as are
   counted, and nothing is registered or removed before it is back. So the events
   belong to the entries, and what was found goes from `polled` into the two arrays
   (`Results`). That the selection loses and adds nothing is `EntriesAtProperties`.
14. *The beacon* (`Typed`, `OneAtATime`). The pointer is NULL just when the `zbeacon_t`
   is gone, whatever happens. In a program of one
   thread all others stay away (`MainAlone`), an open pipe keeps the beacon held
   (`PipesOfMain`), and the collector begins when the user is done for good
   (`CollectorLast`), also if that destroyed the beacon before; so whoever is about
   to free it finds it live (`FreedByHolder`) and has it alone (`DestroyerHasIt`).
15. *Types of a loop* (`PartsTyped`, `CallTyped`). The callback in progress is a record
   whose methods are those left of a list made by `MethodsFor`; since a breaker takes
   the object of a call as its argument, the types of entries and calls need each other.

Each preservation proof has a lemma or a step per action and below it a step per
conjunct.

Induction over data is out of the prover's reach as a rule, and most of the proofs do
without. What `EntriesAt` returns needs one, that a finite set of positions can be listed in
ascending order; it is done with sets: the least size for which it fails exists, since
`<` on the naturals is well-founded (`NatLessThanWellFounded`, `WFMin`), and taking the
greatest position away contradicts it. These lemmas (`LeastOf` to
`EntriesAtProperties`) are in `PollerProofs` and again in `SocketCallsProofs`, which
share no module of proofs.

Only model-checked: the liveness properties (`CallsReturn`, `DroppedSocketClosed`,
`ExitFinalizesAll`, `EndsWhenAsked`, `EventsReachHandler`, `EndsWithContext`,
`ForgottenBeaconDestroyed`), which need fairness and `ENABLED`, out of the prover's
reach. Every safety invariant and action property of a passing run has a theorem.

## 6. What is assumed, what is left out

- *Ruby.* C code is atomic while it holds the GVL. So is what it calls in Ruby where
  that is not the program's: `rb_obj_call_init` (`context.c:357`) runs
  `BasicObject#initialize`, a C function that gives up nothing, as none of the
  socket classes defines `initialize`, so that making the wrapper and pushing
  it on the list (`context.c:391-394`) is one action (`SocketAlloc`). A program that
  reopens a socket class to give it an `initialize` is left out. Free callbacks run as a
  separate phase after marking; the stack protects the receiver of a running
  method, not a pointer taken from a list.
- *czmq and libzmq* are not in the tree. The models give them what the extension
  relies on: `zsocket_destroy` aborts on a socket its context does not know,
  `zctx_destroy` closes what is left and does nothing the second time,
  `zframe_send` keeps the frame when it fails or when asked to,
  `zmsg_send` destroys the message in any case, `zlist_first` and `zlist_next`
  move the one cursor of a list, `zmq_poll` writes only `revents`. What ends a timer
  or an item of a zloop takes effect by the end of the pass, an entry whose
  callback returns -1 ends the run and stays, and entries outlive runs.
- libzmq is that of the 4.0 series: it undoes a connection by the endpoint as written
  and a binding by the endpoint as resolved, a receive on a PAIR socket that
  `zctx_destroy` closes comes back with an error (ENOTSOCK or ETERM), if at all: two
  threads are then in one socket (`PairStaysOpen`). It refuses a connect to the inproc
  endpoint of a monitor that has stopped, and a receive of the monitor thread fails in
  no other way than these and EINTR. A socket is to be used by one thread at a time.
- `zsocket_new` always succeeds, and sizes, strings, timeouts and logging are left out.
- A socket is monitored once; a second `monitor` call and `verbose=` are left out.
- Forking: `zctx_destroy` compares the pid, `zsocket_destroy` does not. This
  needs two processes and is planned (module Fork).
- `Loop` is one loop used by the thread that starts it. A `start` inside a
  callback, `ZMQ::Loop.instance` replaced by a second `ZL.run`, and two loops that
  share `zctx_interrupted` are left out, and so is how often a timer fires.
- Not modelled: the choice of an SRV record (real weights and a random number), the
  values of socket options (one value handed to `zsockopt`; which thread may do so is
  in `SocketCalls`), what a beacon broadcasts, the default handlers' input and
  output, the logger, the version and time functions.

## 7. Plan

1. `Fork`: two processes and the finalizers of the child.
2. Failures of `zsocket_new` in `ContextSockets`.
3. Several loops in one process and their common interrupt flag.
4. Proofs: the weakest programs for which the theorems about `MessageFrames`
   hold, use by use instead of `Risky = {}`, and the safety part of the
   liveness arguments (what a waiting call waits for is on its way).
