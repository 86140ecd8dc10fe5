--------------------------- MODULE ContextSockets ---------------------------
(***************************************************************************)
(* The life of ZMQ::Context and ZMQ::Socket objects in one process:        *)
(* ext/rbczmq/context.c and the close and garbage collection callbacks of  *)
(* ext/rbczmq/socket.c.                                                    *)
(*                                                                         *)
(* A Ruby thread runs C code while it holds the global VM lock (GVL), and  *)
(* gives it up only around rb_thread_call_without_gvl and inside calls     *)
(* into Ruby. One action is therefore one stretch of C code between two    *)
(* such points; pc[t] names the point where thread t is parked.            *)
(* context_mutex is taken only without the GVL, by the three functions     *)
(* that call zctx/zsocket.                                                 *)
(*                                                                         *)
(* The garbage collector queues the free callbacks of dead objects and a   *)
(* Ruby thread, the host, runs them one at a time on top of its own stack. *)
(* The actor GC is that nested call; its host does nothing until it ends.  *)
(***************************************************************************)
EXTENDS Naturals, FiniteSets

CONSTANTS
  Threads,            \* the Ruby threads
  Main,               \* the main thread, which never ends before the process
  Creators,           \* the threads that call ZMQ::Context.new
  GC,                 \* the actor that runs the free callbacks
  Contexts,           \* zmq_ctx_wrapper structs
  Sockets,            \* zmq_sock_wrapper structs, each with its own raw socket
  Nil,                \* NULL, Qnil or nobody
  JoinBeforeDestroy,  \* does the program join its threads before ctx.destroy?
  FinalizeAtRest,     \* do free callbacks run only between calls of the host?
  AsyncInterrupts     \* may Thread#kill, Thread#raise or Timeout hit a call?

ASSUME ConstantsAssumption ==
  /\ Main \in Threads
  /\ Creators \subseteq Threads
  /\ GC \notin Threads
  /\ Nil \notin Threads \cup {GC} \cup Contexts \cup Sockets
  /\ {JoinBeforeDestroy, FinalizeAtRest, AsyncInterrupts} \subseteq BOOLEAN

Actors == Threads \cup {GC}

VARIABLES
  process_ctx,    \* @__zmq_ctx_process[pid]
  ctx_value,      \* [Contexts -> ValueStates], the Ruby object and its struct
  zctx,           \* [Contexts -> ...], the zctx_t of the struct
  ctx_destroyed,  \* contexts with the ZMQ_CONTEXT_DESTROYED flag
  lists,          \* contexts whose zlist ctx->sockets is allocated
  sockets         \* [Contexts -> SUBSET Sockets], what ctx->sockets holds

VARIABLES
  sock_value,     \* [Sockets -> ValueStates]
  zsock,          \* [Sockets -> ...], the raw socket
  ctx_wrapper,    \* [Sockets -> Contexts or Nil], the context it came from
  thread,         \* [Sockets -> Threads or Nil], the thread that created it
  sock_destroyed  \* sockets with ZMQ_SOCKET_DESTROYED: ctx and socket are NULL

VARIABLES
  pc,             \* [Actors -> PCs], where the actor is parked
  op,             \* [Actors -> Ops], the method or callback it runs
  self_ctx,       \* [Actors -> Contexts or Nil], the context of that call
  self_sock,      \* [Actors -> Sockets or Nil], the socket of that call
  mutex,          \* the holder of context_mutex
  host,           \* the thread on whose stack GC runs a callback
  ended,          \* threads that have finished
  exiting,        \* the process is finalizing every object
  fault           \* why the process aborted or went undefined, or "none"

ctxVars == <<process_ctx, ctx_value, zctx, ctx_destroyed, lists, sockets>>
sockVars == <<sock_value, zsock, ctx_wrapper, thread, sock_destroyed>>
callVars == <<pc, op, self_ctx, self_sock>>
procVars == <<ended, exiting>>
vars == <<ctxVars, sockVars, callVars, mutex, host, procVars, fault>>

ValueStates == {"unused", "building", "held", "dropped", "freed"}
Nogvl == {"socket_new", "zsocket_destroy", "zctx_destroy"}
Returned == {"socket_alloc", "mark_destroyed", "ctx_freed"}
PCs == {"idle", "zctx_new", "initialize"} \cup Nogvl \cup Returned
Ops == {"none", "new", "socket", "close", "destroy", "free_sock", "free_ctx"}
Faults == {"none", "closed twice", "null list", "freed wrapper", "freed zctx"}

ContextTypes ==
  /\ process_ctx \in Contexts \cup {Nil}
  /\ ctx_value \in [Contexts -> ValueStates]
  /\ zctx \in [Contexts -> {"none", "live", "destroyed"}]
  /\ ctx_destroyed \in SUBSET Contexts
  /\ lists \in SUBSET Contexts
  /\ sockets \in [Contexts -> SUBSET Sockets]

SocketTypes ==
  /\ sock_value \in [Sockets -> ValueStates]
  /\ zsock \in [Sockets -> {"none", "open", "closed"}]
  /\ ctx_wrapper \in [Sockets -> Contexts \cup {Nil}]
  /\ thread \in [Sockets -> Threads \cup {Nil}]
  /\ sock_destroyed \in SUBSET Sockets

CallTypes ==
  /\ pc \in [Actors -> PCs]
  /\ op \in [Actors -> Ops]
  /\ self_ctx \in [Actors -> Contexts \cup {Nil}]
  /\ self_sock \in [Actors -> Sockets \cup {Nil}]

ProcessTypes ==
  /\ mutex \in Actors \cup {Nil}
  /\ host \in Threads \cup {Nil}
  /\ ended \in SUBSET Threads
  /\ exiting \in BOOLEAN
  /\ fault \in Faults

TypeOK == ContextTypes /\ SocketTypes /\ CallTypes /\ ProcessTypes

Init ==
  /\ process_ctx = Nil
  /\ ctx_value = [c \in Contexts |-> "unused"]
  /\ zctx = [c \in Contexts |-> "none"]
  /\ ctx_destroyed = {}
  /\ lists = {}
  /\ sockets = [c \in Contexts |-> {}]
  /\ sock_value = [s \in Sockets |-> "unused"]
  /\ zsock = [s \in Sockets |-> "none"]
  /\ ctx_wrapper = [s \in Sockets |-> Nil]
  /\ thread = [s \in Sockets |-> Nil]
  /\ sock_destroyed = {}
  /\ pc = [a \in Actors |-> "idle"]
  /\ op = [a \in Actors |-> "none"]
  /\ self_ctx = [a \in Actors |-> Nil]
  /\ self_sock = [a \in Actors |-> Nil]
  /\ mutex = Nil
  /\ host = Nil
  /\ ended = {}
  /\ exiting = FALSE
  /\ fault = "none"

-----------------------------------------------------------------------------
(* Scheduling and reachability                                             *)

\* The process has not aborted, nor has its behaviour become undefined.
Alive == fault = "none"

\* A thread may enter a method of this library.
Ready(t) ==
  Alive /\ ~exiting /\ pc[t] = "idle" /\ t \notin ended /\ host # t

\* Actor a may go on with its call: it is not hosting a free callback.
Parked(a, where) == Alive /\ pc[a] \in where /\ host # a

\* Actor a parks at `where`, inside method o on context c and socket s.
Park(a, where, o, c, s) ==
  /\ pc' = [pc EXCEPT ![a] = where]
  /\ op' = [op EXCEPT ![a] = o]
  /\ self_ctx' = [self_ctx EXCEPT ![a] = c]
  /\ self_sock' = [self_sock EXCEPT ![a] = s]

Return(a) == Park(a, "idle", "none", Nil, Nil)

\* The process aborts, or its behaviour is undefined from here on.
Abort(kind) ==
  /\ fault' = kind
  /\ UNCHANGED <<ctxVars, sockVars, callVars, mutex, host, procVars>>

\* The VM stack holds the receiver of a running method; a struct pointer that
\* ctx.destroy took from its list is not a Ruby value and protects nothing.
SocketReachable(s) ==
  /\ ~exiting
  /\ \/ sock_value[s] = "held"
     \/ \E t \in Threads : op[t] = "close" /\ self_sock[t] = s

\* A socket marks its context until it is destroyed; the process map is a root.
ContextReachable(c) ==
  /\ ~exiting
  /\ \/ ctx_value[c] = "held"
     \/ process_ctx = c
     \/ \E t \in Threads : self_ctx[t] = c
     \/ \E s \in Sockets : /\ SocketReachable(s)
                           /\ ctx_wrapper[s] = c
                           /\ s \notin sock_destroyed

\* Where Ruby runs queued free callbacks on the stack of thread t: while it
\* runs Ruby code, and where rb_thread_call_without_gvl checks for interrupts.
MayHost(t) ==
  /\ Alive
  /\ pc[GC] = "idle"
  /\ t \notin ended
  /\ \/ pc[t] \in {"idle", "initialize"}
     \/ ~FinalizeAtRest /\ pc[t] \in {"zctx_new"} \cup Nogvl \cup Returned /\ mutex # t

UnlockContextMutexNever == UNCHANGED mutex

UnlockContextMutex == mutex' = Nil

(* Each operator whose name says what it gets wrong, like the one above, is a *)
(* faulty form of the definition that follows it. Runs of TLC with the faulty *)
(* form in its place must violate the property it is listed with.             *)

-----------------------------------------------------------------------------
(* ZMQ::Context.new                                                        *)

ContextNewUnchecked(t, c) ==
  /\ Ready(t) /\ t \in Creators
  /\ ctx_value[c] = "unused"
  /\ ctx_value' = [ctx_value EXCEPT ![c] = "building"]
  /\ Park(t, "zctx_new", "new", c, Nil)
  /\ UNCHANGED <<process_ctx, zctx, ctx_destroyed, lists, sockets, sockVars,
                 mutex, host, procVars, fault>>

ContextNew(t, c) ==
  /\ Ready(t) /\ t \in Creators
  /\ process_ctx = Nil
  /\ ctx_value[c] = "unused"
  /\ ctx_value' = [ctx_value EXCEPT ![c] = "building"]
  /\ Park(t, "zctx_new", "new", c, Nil)
  /\ UNCHANGED <<process_ctx, zctx, ctx_destroyed, lists, sockets, sockVars,
                 mutex, host, procVars, fault>>

\* Back from zctx_new: fill the struct in, then call initialize, Ruby code.
ContextNewFill(t) ==
  /\ Parked(t, {"zctx_new"})
  /\ zctx' = [zctx EXCEPT ![self_ctx[t]] = "live"]
  /\ lists' = lists \cup {self_ctx[t]}
  /\ Park(t, "initialize", "new", self_ctx[t], Nil)
  /\ UNCHANGED <<process_ctx, ctx_value, ctx_destroyed, sockets, sockVars,
                 mutex, host, procVars, fault>>

ContextNewRegisterSwapped(t) ==
  /\ Parked(t, {"initialize"})
  /\ process_ctx' = t
  /\ UNCHANGED <<ctx_value, zctx, ctx_destroyed, lists, sockets, sockVars,
                 mutex, host, procVars, fault>>
  /\ Return(t)

\* Enter the context in the process map, then apply the I/O threads argument:
\* a negative or non-integer one raises, and the caller never gets the object.
ContextNewRegister(t) ==
  /\ Parked(t, {"initialize"})
  /\ process_ctx' = self_ctx[t]
  /\ \E value \in {"held", "dropped"} :
       ctx_value' = [ctx_value EXCEPT ![self_ctx[t]] = value]
  /\ Return(t)
  /\ UNCHANGED <<zctx, ctx_destroyed, lists, sockets, sockVars, mutex, host,
                 procVars, fault>>

-----------------------------------------------------------------------------
(* ctx.socket                                                              *)

ContextSocket(t, c, s) ==
  /\ Ready(t)
  /\ ctx_value[c] = "held" /\ c \notin ctx_destroyed
  /\ sock_value[s] = "unused"
  /\ sock_value' = [sock_value EXCEPT ![s] = "building"]
  /\ Park(t, "socket_new", "socket", c, s)
  /\ UNCHANGED <<ctxVars, zsock, ctx_wrapper, thread, sock_destroyed, mutex,
                 host, procVars, fault>>

\* zsocket_new on the zctx pointer read before the GVL was released.
NogvlSocketNew(t) ==
  /\ Parked(t, {"socket_new"}) /\ mutex = t
  /\ IF zctx[self_ctx[t]] # "live"
     THEN Abort("freed zctx")
     ELSE /\ zsock' = [zsock EXCEPT ![self_sock[t]] = "open"]
          /\ ctx_wrapper' = [ctx_wrapper EXCEPT ![self_sock[t]] = self_ctx[t]]
          /\ UnlockContextMutex
          /\ Park(t, "socket_alloc", "socket", self_ctx[t], self_sock[t])
          /\ UNCHANGED <<ctxVars, sock_value, thread, sock_destroyed, host,
                         procVars, fault>>

\* rb_czmq_socket_alloc checks the context again and raises, without closing
\* the raw socket, when it was destroyed meanwhile; else the wrapper joins the
\* context's list.
SocketAlloc(t) ==
  /\ Parked(t, {"socket_alloc"})
  /\ LET c == self_ctx[t]
         s == self_sock[t]
     IN IF c \in ctx_destroyed
        THEN /\ sock_value' = [sock_value EXCEPT ![s] = "freed"]
             /\ UNCHANGED <<thread, sockets>>
        ELSE /\ sock_value' = [sock_value EXCEPT ![s] = "held"]
             /\ thread' = [thread EXCEPT ![s] = t]
             /\ sockets' = [sockets EXCEPT ![c] = @ \cup {s}]
  /\ Return(t)
  /\ UNCHANGED <<process_ctx, ctx_value, zctx, ctx_destroyed, lists, zsock,
                 ctx_wrapper, sock_destroyed, mutex, host, procVars, fault>>

-----------------------------------------------------------------------------
(* rb_czmq_context_destroy_socket, shared by sock.close, ctx.destroy and    *)
(* both free callbacks                                                      *)

DestroySocketAgain(a, s, o, c, listed) ==
  /\ Park(a, "zsocket_destroy", o, c, s)
  /\ sockets' = [listed EXCEPT ![ctx_wrapper[s]] = @ \ {s}]

DestroySocketKeepsListed(a, s, o, c, listed) ==
  /\ sockets' = listed
  /\ IF s \in sock_destroyed
     THEN Park(a, "mark_destroyed", o, c, s)
     ELSE Park(a, "zsocket_destroy", o, c, s)

DestroySocketEmptiesList(a, s, o, c, listed) ==
  IF s \in sock_destroyed
  THEN Park(a, "mark_destroyed", o, c, s) /\ sockets' = listed
  ELSE /\ Park(a, "zsocket_destroy", o, c, s)
       /\ sockets' = [listed EXCEPT ![ctx_wrapper[s]] = {}]

DestroySocketOnlyMarks(a, s, o, c, listed) ==
  /\ Park(a, "mark_destroyed", o, c, s)
  /\ sockets' = [listed EXCEPT ![ctx_wrapper[s]] = @ \ {s}]

\* Up to the point where the GVL is released: a wrapper not yet destroyed
\* leaves its context's list and goes on to zsocket_destroy.
DestroySocket(a, s, o, c, listed) ==
  IF s \in sock_destroyed
  THEN Park(a, "mark_destroyed", o, c, s) /\ sockets' = listed
  ELSE /\ Park(a, "zsocket_destroy", o, c, s)
       /\ sockets' = [listed EXCEPT ![ctx_wrapper[s]] = @ \ {s}]

SocketClose(t, s) ==
  /\ Ready(t)
  /\ sock_value[s] = "held" /\ s \notin sock_destroyed /\ thread[s] = t
  /\ IF ctx_wrapper[s] \notin lists
     THEN Abort("null list")
     ELSE /\ DestroySocket(t, s, "close", Nil, sockets)
          /\ UNCHANGED <<process_ctx, ctx_value, zctx, ctx_destroyed, lists,
                         sockVars, mutex, host, procVars, fault>>

\* zsocket_destroy(sock->ctx, sock->socket) reads the wrapper only now. czmq
\* aborts on a socket or a context that is gone.
NogvlZsocketDestroy(a) ==
  /\ Parked(a, {"zsocket_destroy"}) /\ mutex = a
  /\ LET s == self_sock[a]
     IN IF sock_value[s] = "freed"
        THEN Abort("freed wrapper")
        ELSE IF \/ s \in sock_destroyed
                \/ zsock[s] # "open"
                \/ zctx[ctx_wrapper[s]] # "live"
        THEN Abort("closed twice")
        ELSE /\ zsock' = [zsock EXCEPT ![s] = "closed"]
             /\ UnlockContextMutex
             /\ Park(a, "mark_destroyed", op[a], self_ctx[a], s)
             /\ UNCHANGED <<ctxVars, sock_value, ctx_wrapper, thread,
                            sock_destroyed, host, procVars, fault>>

-----------------------------------------------------------------------------
(* rb_czmq_free_ctx, shared by ctx.destroy and the context's free callback  *)

FreeCtxLeavesSockets(a, o, c) ==
  Park(a, "zctx_destroy", o, c, Nil) /\ UNCHANGED sockets

\* One turn of the loop that pops ctx->sockets, up to the next GVL release.
FreeCtx(a, o, c) ==
  IF sockets[c] = {}
  THEN Park(a, "zctx_destroy", o, c, Nil) /\ UNCHANGED sockets
  ELSE \E s \in sockets[c] :
         DestroySocket(a, s, o, c, [sockets EXCEPT ![c] = @ \ {s}])

\* With JoinBeforeDestroy, every thread but the caller has been joined.
ContextDestroy(t, c) ==
  /\ Ready(t)
  /\ ctx_value[c] = "held" /\ c \notin ctx_destroyed
  /\ JoinBeforeDestroy => Threads \ {t} \subseteq ended
  /\ FreeCtx(t, "destroy", c)
  /\ UNCHANGED <<process_ctx, ctx_value, zctx, ctx_destroyed, lists, sockVars,
                 mutex, host, procVars, fault>>

\* zctx_destroy closes the raw sockets that are still open in this zctx, and
\* does nothing for a zctx that is already gone.
NogvlZctxDestroy(a) ==
  /\ Parked(a, {"zctx_destroy"}) /\ mutex = a
  /\ zctx' = [zctx EXCEPT ![self_ctx[a]] = "destroyed"]
  /\ zsock' = [s \in Sockets |->
                 IF zsock[s] = "open" /\ ctx_wrapper[s] = self_ctx[a]
                 THEN "closed" ELSE zsock[s]]
  /\ ctx_destroyed' = ctx_destroyed \cup {self_ctx[a]}
  /\ UnlockContextMutex
  /\ Park(a, "ctx_freed", op[a], self_ctx[a], Nil)
  /\ UNCHANGED <<process_ctx, ctx_value, lists, sockets, sock_value,
                 ctx_wrapper, thread, sock_destroyed, host, procVars, fault>>

UnregisterNot == UNCHANGED process_ctx

Unregister == process_ctx' = Nil

\* Back with the GVL: clear the process map's entry, free the list, and for a
\* free callback the struct itself.
CtxFreed(a) ==
  /\ Parked(a, {"ctx_freed"})
  /\ Unregister
  /\ lists' = lists \ {self_ctx[a]}
  /\ IF op[a] = "free_ctx"
     THEN /\ ctx_value' = [ctx_value EXCEPT ![self_ctx[a]] = "freed"]
          /\ host' = Nil
     ELSE UNCHANGED <<ctx_value, host>>
  /\ Return(a)
  /\ UNCHANGED <<zctx, ctx_destroyed, sockets, sockVars, mutex, procVars,
                 fault>>

\* The end of rb_czmq_context_destroy_socket, again with the GVL, and what its
\* caller does next: return, free the wrapper, or pop the next socket.
MarkDestroyed(a) ==
  /\ Parked(a, {"mark_destroyed"})
  /\ LET s == self_sock[a]
         looping == op[a] \in {"destroy", "free_ctx"}
     IN IF sock_value[s] = "freed"
        THEN Abort("freed wrapper")
        ELSE IF looping /\ self_ctx[a] \notin lists
        THEN Abort("null list")
        ELSE /\ sock_destroyed' = sock_destroyed \cup {s}
             /\ IF looping
                THEN FreeCtx(a, op[a], self_ctx[a])
                ELSE Return(a) /\ UNCHANGED sockets
             /\ IF op[a] = "free_sock"
                THEN /\ sock_value' = [sock_value EXCEPT ![s] = "freed"]
                     /\ host' = Nil
                ELSE UNCHANGED <<sock_value, host>>
             /\ UNCHANGED <<process_ctx, ctx_value, zctx, ctx_destroyed, lists,
                            zsock, ctx_wrapper, thread, mutex, procVars, fault>>

-----------------------------------------------------------------------------
(* context_mutex                                                           *)

LockContextMutex(a) ==
  /\ Parked(a, Nogvl)
  /\ mutex = Nil
  /\ mutex' = a
  /\ UNCHANGED <<ctxVars, sockVars, callVars, host, procVars, fault>>

-----------------------------------------------------------------------------
(* Garbage collection                                                      *)

\* rb_czmq_free_sock_gc, for a socket no Ruby code can reach any more.
FreeSockGc(t, s) ==
  /\ MayHost(t)
  /\ sock_value[s] \in {"held", "dropped"} /\ ~SocketReachable(s)
  /\ IF s \notin sock_destroyed /\ ctx_wrapper[s] \notin lists
     THEN Abort("null list")
     ELSE /\ DestroySocket(GC, s, "free_sock", Nil, sockets)
          /\ host' = t
          /\ UNCHANGED <<process_ctx, ctx_value, zctx, ctx_destroyed, lists,
                         sockVars, mutex, procVars, fault>>

FreeCtxGcOnlyFrees(t, c) ==
  /\ MayHost(t)
  /\ ctx_value[c] \in {"held", "dropped"} /\ ~ContextReachable(c)
  /\ ctx_value' = [ctx_value EXCEPT ![c] = "freed"]
  /\ UNCHANGED <<process_ctx, zctx, ctx_destroyed, lists, sockets, sockVars,
                 callVars, mutex, host, procVars, fault>>

\* rb_czmq_free_ctx_gc destroys a context nobody destroyed, then frees it.
FreeCtxGc(t, c) ==
  /\ MayHost(t)
  /\ ctx_value[c] \in {"held", "dropped"} /\ ~ContextReachable(c)
  /\ IF zctx[c] = "live" /\ c \notin ctx_destroyed
     THEN /\ FreeCtx(GC, "free_ctx", c)
          /\ host' = t
          /\ UNCHANGED <<process_ctx, ctx_value, zctx, ctx_destroyed, lists,
                         sockVars, mutex, procVars, fault>>
     ELSE /\ ctx_value' = [ctx_value EXCEPT ![c] = "freed"]
          /\ UNCHANGED <<process_ctx, zctx, ctx_destroyed, lists, sockets,
                         sockVars, callVars, mutex, host, procVars, fault>>

-----------------------------------------------------------------------------
(* The Ruby program and the VM around the library                          *)

\* The program forgets its last reference.
DropSocket(s) ==
  /\ Alive /\ ~exiting /\ sock_value[s] = "held"
  /\ sock_value' = [sock_value EXCEPT ![s] = "dropped"]
  /\ UNCHANGED <<ctxVars, zsock, ctx_wrapper, thread, sock_destroyed, callVars,
                 mutex, host, procVars, fault>>

DropContext(c) ==
  /\ Alive /\ ~exiting /\ ctx_value[c] = "held"
  /\ ctx_value' = [ctx_value EXCEPT ![c] = "dropped"]
  /\ UNCHANGED <<process_ctx, zctx, ctx_destroyed, lists, sockets, sockVars,
                 callVars, mutex, host, procVars, fault>>

EndThread(t) ==
  /\ Ready(t) /\ t # Main
  /\ ended' = ended \cup {t}
  /\ UNCHANGED <<ctxVars, sockVars, callVars, mutex, host, exiting, fault>>

\* The process ends between calls: every object is finalized, in any order.
Exit ==
  /\ Alive /\ ~exiting /\ \A a \in Actors : pc[a] = "idle"
  /\ exiting' = TRUE
  /\ UNCHANGED <<ctxVars, sockVars, callVars, mutex, host, ended, fault>>

\* rb_thread_call_without_gvl checks for interrupts before it releases the GVL
\* and after it takes it back; an exception delivered there unwinds the method.
Interrupt(t) ==
  /\ AsyncInterrupts
  /\ Parked(t, {"zctx_new"} \cup Nogvl \cup Returned) /\ mutex # t
  /\ ctx_value' = [c \in Contexts |->
                     IF ctx_value[c] = "building" /\ self_ctx[t] = c
                     THEN "dropped" ELSE ctx_value[c]]
  /\ sock_value' = [s \in Sockets |->
                     IF sock_value[s] = "building" /\ self_sock[t] = s
                     THEN "freed" ELSE sock_value[s]]
  /\ Return(t)
  /\ UNCHANGED <<process_ctx, zctx, ctx_destroyed, lists, sockets, zsock,
                 ctx_wrapper, thread, sock_destroyed, mutex, host, procVars,
                 fault>>

\* Nothing is left to finalize, or the process is gone.
Terminated ==
  /\ \/ ~Alive
     \/ /\ exiting
        /\ \A c \in Contexts : ctx_value[c] \in {"unused", "freed"}
        /\ \A s \in Sockets : sock_value[s] \in {"unused", "freed"}
  /\ UNCHANGED vars

Step(a) ==
  \/ ContextNewFill(a)
  \/ ContextNewRegister(a)
  \/ LockContextMutex(a)
  \/ NogvlSocketNew(a)
  \/ SocketAlloc(a)
  \/ NogvlZsocketDestroy(a)
  \/ MarkDestroyed(a)
  \/ NogvlZctxDestroy(a)
  \/ CtxFreed(a)

Call(t) ==
  \/ \E c \in Contexts : ContextNew(t, c) \/ ContextDestroy(t, c)
  \/ \E c \in Contexts, s \in Sockets : ContextSocket(t, c, s)
  \/ \E s \in Sockets : SocketClose(t, s)

CollectSocket(s) == \E t \in Threads : FreeSockGc(t, s)
CollectContext(c) == \E t \in Threads : FreeCtxGc(t, c)

Next ==
  \/ \E a \in Actors : Step(a)
  \/ \E t \in Threads : Call(t) \/ EndThread(t) \/ Interrupt(t)
  \/ \E s \in Sockets : CollectSocket(s) \/ DropSocket(s)
  \/ \E c \in Contexts : CollectContext(c) \/ DropContext(c)
  \/ Exit
  \/ Terminated

Spec == Init /\ [][Next]_vars

\* czmq's calls return (sockets have a bounded linger), a thread that waits
\* for the mutex or the GVL gets it, and garbage is collected in the end.
Fairness ==
  /\ \A a \in Actors : WF_vars(Step(a))
  /\ \A s \in Sockets : WF_vars(CollectSocket(s))
  /\ \A c \in Contexts : WF_vars(CollectContext(c))

FairSpec == Spec /\ Fairness

-----------------------------------------------------------------------------
(* Properties                                                              *)

\* A raw socket is handed to zsocket_destroy at most once and only while its
\* zctx is alive, whichever of close, ctx.destroy and the two free callbacks
\* come, in whatever order: czmq aborts the process otherwise (context.c:88).
CloseOnce == fault # "closed twice"

\* No call touches a wrapper, a socket list or a zctx after it was freed.
NoDangling == fault \notin {"null list", "freed wrapper", "freed zctx"}

\* What a context's list holds is safe to pop and close: wrappers of its own
\* sockets, still allocated and never destroyed. This is what lets ctx.destroy
\* walk a list of raw pointers that the garbage collector does not know.
ListedSocketsLive ==
  Alive => \A c \in lists : \A s \in sockets[c] :
    /\ ctx_wrapper[s] = c
    /\ sock_value[s] \in {"held", "dropped"}
    /\ s \notin sock_destroyed

\* The DESTROYED flag is never ahead of czmq: a wrapper that reports itself
\* destroyed has no open raw socket left behind it.
FlagMeansClosed == \A s \in sock_destroyed : zsock[s] = "closed"

\* No open raw socket escapes its context: it is in the context's list or in
\* the hands of the call that opens or closes it.
NoOrphan ==
  Alive => \A s \in Sockets : zsock[s] = "open" =>
    \/ s \in sockets[ctx_wrapper[s]]
    \/ \E a \in Actors : self_sock[a] = s

\* A destroyed context leaves no socket that still thinks it is open, so a
\* later close or collection of the Ruby object has nothing to destroy.
DestroyReachesEverySocket ==
  \A s \in Sockets : ctx_wrapper[s] \in ctx_destroyed =>
    /\ zsock[s] = "closed"
    /\ sock_value[s] \in {"held", "dropped"} => s \in sock_destroyed

\* A single context per process (context.c:169).
OneContext ==
  \A c, d \in Contexts : zctx[c] = "live" /\ zctx[d] = "live" => c = d

\* The process map never refers the program to a context it can neither use
\* nor replace: a destroyed context is there only while its destroy returns.
MapEntryUsable ==
  process_ctx # Nil =>
    /\ zctx[process_ctx] # "none" /\ ctx_value[process_ctx] # "freed"
    /\ process_ctx \in ctx_destroyed =>
         \E a \in Actors : pc[a] = "ctx_freed" /\ self_ctx[a] = process_ctx

\* The library keeps the promise of SocketRegistry: each raw socket is opened
\* once in a live context and closed once, the DESTROYED flag follows the close,
\* and zctx_destroy comes after every socket of the context was reported closed.
Registry == INSTANCE SocketRegistry
  WITH context <- zctx, socket <- zsock, owner <- ctx_wrapper,
       reported <- sock_destroyed

KeepsRegistry == Registry!Spec

\* Every method and free callback returns: nobody waits for ever for
\* context_mutex, nor loops on a list that does not shrink (context.c:4).
CallsReturn == \A a \in Actors : pc[a] # "idle" ~> pc[a] = "idle" \/ ~Alive

\* A socket the program forgot is closed in the end (socket.c:72).
DroppedSocketClosed ==
  \A s \in Sockets :
    sock_value[s] = "dropped" ~> zsock[s] = "closed" \/ ~Alive

\* The finalizers that run at exit, in any order, close every socket and
\* destroy every context.
ExitFinalizesAll ==
  exiting ~> \/ ~Alive
             \/ /\ \A s \in Sockets : zsock[s] # "open"
                /\ \A c \in Contexts : zctx[c] # "live"

\* A context the program forgot is destroyed in the end (context.c:211).
DroppedContextDestroyed ==
  \A c \in Contexts :
    ctx_value[c] = "dropped" ~> zctx[c] = "destroyed" \/ ~Alive

=============================================================================
