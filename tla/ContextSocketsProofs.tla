------------------------ MODULE ContextSocketsProofs ------------------------
(***************************************************************************)
(* ContextSockets for any number of threads, contexts and sockets.         *)
(*                                                                         *)
(* Types, and two promises, hold whatever the program does: with destroys  *)
(* that race, free callbacks nested in other calls and methods unwound by  *)
(* interrupts.  The others hold for a disciplined program, which joins its *)
(* threads before it destroys a context, and where free callbacks run      *)
(* between calls and no exception unwinds one.  A disciplined program that *)
(* creates its contexts in one thread has one of them alive at a time, and *)
(* implements SocketRegistry.                                              *)
(*                                                                         *)
(* Each part builds on the ones before it.                                 *)
(***************************************************************************)
EXTENDS ContextSockets, TLAPS

-----------------------------------------------------------------------------
(***************************************************************************)
(* Types                                                                   *)
(*                                                                         *)
(* The frame a parked call leaves on its C stack goes with the place where *)
(* it is parked, which is what the other parts build on as well.           *)
(***************************************************************************)

-----------------------------------------------------------------------------
(* Frames                                                                  *)

\* What a parked actor's frame holds, by the place where it is parked.
FrameShape(a, where, o, c, s) ==
  /\ where = "idle" => o = "none" /\ c = Nil /\ s = Nil
  /\ where \in {"zctx_new", "initialize"} =>
       o = "new" /\ c \in Contexts /\ s = Nil
  /\ where \in {"socket_new", "socket_alloc"} =>
       o = "socket" /\ c \in Contexts /\ s \in Sockets
  /\ where \in {"zsocket_destroy", "mark_destroyed"} =>
       /\ s \in Sockets
       /\ \/ o \in {"close", "free_sock"} /\ c = Nil
          \/ o \in {"destroy", "free_ctx"} /\ c \in Contexts
  /\ where \in {"zctx_destroy", "ctx_freed"} =>
       o \in {"destroy", "free_ctx"} /\ c \in Contexts /\ s = Nil
  /\ IF a = GC THEN o \in {"none", "free_sock", "free_ctx"}
               ELSE o \notin {"free_sock", "free_ctx"}

FrameOK(a) == FrameShape(a, pc[a], op[a], self_ctx[a], self_sock[a])

Frames == \A a \in Actors : FrameOK(a)

-----------------------------------------------------------------------------
(* Types                                                                   *)

LEMMA ActorFacts ==
  /\ Threads \subseteq Actors /\ GC \in Actors /\ Nil \notin Actors
  /\ Nil \notin Contexts /\ Nil \notin Sockets /\ Nil \notin Threads
  /\ \A t \in Threads : t # GC
BY ConstantsAssumption DEF Actors

\* Parking changes the frame of one actor only, and a frame of the right shape
\* keeps all frames right.
LEMMA Parking ==
  ASSUME CallTypes, NEW a \in Actors, NEW where \in PCs, NEW o \in Ops,
         NEW c \in Contexts \cup {Nil}, NEW s \in Sockets \cup {Nil},
         Park(a, where, o, c, s)
  PROVE  /\ CallTypes'
         /\ pc'[a] = where /\ op'[a] = o /\ self_ctx'[a] = c /\ self_sock'[a] = s
         /\ \A b \in Actors : b # a =>
              /\ pc'[b] = pc[b] /\ op'[b] = op[b]
              /\ self_ctx'[b] = self_ctx[b] /\ self_sock'[b] = self_sock[b]
         /\ Frames /\ FrameShape(a, where, o, c, s) => Frames'
<1>1. CallTypes'
  BY DEF CallTypes, Park
<1>2. pc'[a] = where /\ op'[a] = o /\ self_ctx'[a] = c /\ self_sock'[a] = s
  BY DEF CallTypes, Park
<1>3. \A b \in Actors : b # a =>
        /\ pc'[b] = pc[b] /\ op'[b] = op[b]
        /\ self_ctx'[b] = self_ctx[b] /\ self_sock'[b] = self_sock[b]
  BY DEF CallTypes, Park
<1>4. ASSUME Frames, FrameShape(a, where, o, c, s)
      PROVE  Frames'
  BY <1>2, <1>3, <1>4 DEF Frames, FrameOK
<1>q. QED
  BY <1>1, <1>2, <1>3, <1>4

LEMMA Returning ==
  ASSUME CallTypes, Frames, NEW a \in Actors, Return(a)
  PROVE  /\ CallTypes' /\ Frames'
         /\ pc'[a] = "idle" /\ op'[a] = "none"
         /\ self_ctx'[a] = Nil /\ self_sock'[a] = Nil
         /\ \A b \in Actors : b # a =>
              /\ pc'[b] = pc[b] /\ op'[b] = op[b]
              /\ self_ctx'[b] = self_ctx[b] /\ self_sock'[b] = self_sock[b]
<1>1. Park(a, "idle", "none", Nil, Nil)
  BY DEF Return
<1>2. "idle" \in PCs /\ "none" \in Ops
  BY DEF PCs, Ops
<1>3. FrameShape(a, "idle", "none", Nil, Nil)
  BY DEF FrameShape
<1>q. QED
  BY <1>1, <1>2, <1>3, Parking

\* The frame of a parked actor, read off its place.
LEMMA FrameFacts ==
  ASSUME Frames, NEW a \in Actors
  PROVE  /\ pc[a] = "idle" => op[a] = "none" /\ self_ctx[a] = Nil /\ self_sock[a] = Nil
         /\ pc[a] \in {"zctx_new", "initialize"} =>
              a # GC /\ op[a] = "new" /\ self_ctx[a] \in Contexts /\ self_sock[a] = Nil
         /\ pc[a] \in {"socket_new", "socket_alloc"} =>
              /\ a # GC /\ op[a] = "socket"
              /\ self_ctx[a] \in Contexts /\ self_sock[a] \in Sockets
         /\ pc[a] \in {"zsocket_destroy", "mark_destroyed"} =>
              /\ self_sock[a] \in Sockets
              /\ op[a] \in {"close", "free_sock", "destroy", "free_ctx"}
              /\ op[a] \in {"close", "free_sock"} => self_ctx[a] = Nil
              /\ op[a] \in {"destroy", "free_ctx"} => self_ctx[a] \in Contexts
         /\ pc[a] \in {"zctx_destroy", "ctx_freed"} =>
              /\ op[a] \in {"destroy", "free_ctx"} /\ self_ctx[a] \in Contexts
              /\ self_sock[a] = Nil
         /\ a = GC => op[a] \in {"none", "free_sock", "free_ctx"}
         /\ a # GC => op[a] \notin {"free_sock", "free_ctx"}
<1>1. FrameShape(a, pc[a], op[a], self_ctx[a], self_sock[a])
  BY DEF Frames, FrameOK
<1>q. QED
  BY <1>1 DEF FrameShape

LEMMA PlaceFacts ==
  /\ {"idle", "zctx_new", "initialize", "socket_new", "socket_alloc",
      "zsocket_destroy", "mark_destroyed", "zctx_destroy", "ctx_freed"} \subseteq PCs
  /\ {"none", "new", "socket", "close", "destroy", "free_sock", "free_ctx"} \subseteq Ops
  /\ "idle" \notin Nogvl \cup Returned
BY DEF PCs, Ops, Nogvl, Returned

LEMMA DestroySocketTypes ==
  ASSUME CallTypes, Frames, NEW a \in Actors, NEW s \in Sockets,
         NEW o \in Ops, NEW c \in Contexts \cup {Nil},
         NEW listed \in [Contexts -> SUBSET Sockets],
         FrameShape(a, "zsocket_destroy", o, c, s),
         DestroySocket(a, s, o, c, listed)
  PROVE  CallTypes' /\ Frames' /\ sockets' \in [Contexts -> SUBSET Sockets]
<1>1. FrameShape(a, "mark_destroyed", o, c, s)
  BY DEF FrameShape
<1>2. sockets' \in [Contexts -> SUBSET Sockets]
  BY DEF DestroySocket
<1>3. \/ Park(a, "mark_destroyed", o, c, s)
      \/ Park(a, "zsocket_destroy", o, c, s)
  BY DEF DestroySocket
<1>q. QED
  BY <1>1, <1>2, <1>3, Parking, PlaceFacts

LEMMA FreeCtxTypes ==
  ASSUME CallTypes, Frames, sockets \in [Contexts -> SUBSET Sockets],
         NEW a \in Actors, NEW o \in {"destroy", "free_ctx"}, NEW c \in Contexts,
         o = "free_ctx" <=> a = GC,
         FreeCtx(a, o, c)
  PROVE  CallTypes' /\ Frames' /\ sockets' \in [Contexts -> SUBSET Sockets]
<1>1. CASE sockets[c] = {}
  <2>1. FrameShape(a, "zctx_destroy", o, c, Nil)
    BY DEF FrameShape
  <2>2. Park(a, "zctx_destroy", o, c, Nil) /\ UNCHANGED sockets
    BY <1>1 DEF FreeCtx
  <2>q. QED
    BY <2>1, <2>2, Parking, PlaceFacts
<1>2. CASE sockets[c] # {}
  <2>1. PICK s \in sockets[c] :
          DestroySocket(a, s, o, c, [sockets EXCEPT ![c] = @ \ {s}])
    BY <1>2 DEF FreeCtx
  <2>2. FrameShape(a, "zsocket_destroy", o, c, s)
    BY ActorFacts DEF FrameShape
  <2>3. [sockets EXCEPT ![c] = @ \ {s}] \in [Contexts -> SUBSET Sockets]
    OBVIOUS
  <2>q. QED
    BY <2>1, <2>2, <2>3, DestroySocketTypes, PlaceFacts
<1>q. QED
  BY <1>1, <1>2

\* What an aborting step leaves alone.
LEMMA AbortTypes ==
  ASSUME TypeOK, Frames, NEW kind \in Faults, Abort(kind)
  PROVE  TypeOK' /\ Frames'
<1>1. ContextTypes'
  BY DEF TypeOK, ContextTypes, Abort, ctxVars
<1>2. SocketTypes'
  BY DEF TypeOK, SocketTypes, Abort, sockVars
<1>3. CallTypes' /\ Frames'
  BY DEF TypeOK, CallTypes, Frames, FrameOK, Abort, callVars
<1>4. ProcessTypes'
  BY DEF TypeOK, ProcessTypes, Abort, procVars
<1>q. QED
  BY <1>1, <1>2, <1>3, <1>4 DEF TypeOK

\* Types and frames are kept by every step, whatever the program does.
LEMMA TypeStep ==
  ASSUME TypeOK, Frames, [Next]_vars
  PROVE  TypeOK' /\ Frames'
<1>1. ASSUME NEW a \in Actors, ContextNewFill(a)
      PROVE  TypeOK' /\ Frames'
  <2>a. CallTypes' /\ Frames'
    BY <1>1, Parking, PlaceFacts, FrameFacts, ActorFacts DEF TypeOK, FrameShape, Parked, ContextNewFill
  <2>c. ContextTypes'
    BY <1>1, FrameFacts, ActorFacts DEF TypeOK, ContextTypes, ValueStates, Parked, ctxVars, ContextNewFill
  <2>s. SocketTypes'
    BY <1>1, FrameFacts, ActorFacts DEF TypeOK, SocketTypes, ValueStates, Parked, sockVars, ContextNewFill
  <2>p. ProcessTypes'
    BY <1>1, FrameFacts, ActorFacts DEF TypeOK, ProcessTypes, Parked, procVars, ContextNewFill
  <2>q. QED
    BY <2>a, <2>c, <2>s, <2>p DEF TypeOK
<1>2. ASSUME NEW a \in Actors, ContextNewRegister(a)
      PROVE  TypeOK' /\ Frames'
  <2>a. CallTypes' /\ Frames'
    BY <1>2, Returning DEF TypeOK, ContextNewRegister
  <2>c. ContextTypes'
    BY <1>2, FrameFacts, ActorFacts DEF TypeOK, ContextTypes, ValueStates, Parked, ctxVars, ContextNewRegister
  <2>s. SocketTypes'
    BY <1>2, FrameFacts, ActorFacts DEF TypeOK, SocketTypes, ValueStates, Parked, sockVars, ContextNewRegister
  <2>p. ProcessTypes'
    BY <1>2, FrameFacts, ActorFacts DEF TypeOK, ProcessTypes, Parked, procVars, ContextNewRegister
  <2>q. QED
    BY <2>a, <2>c, <2>s, <2>p DEF TypeOK
<1>3. ASSUME NEW a \in Actors, LockContextMutex(a)
      PROVE  TypeOK' /\ Frames'
  <2>a. CallTypes' /\ Frames'
    BY <1>3 DEF TypeOK, CallTypes, Frames, FrameOK, callVars, LockContextMutex
  <2>c. ContextTypes'
    BY <1>3, FrameFacts, ActorFacts DEF TypeOK, ContextTypes, ValueStates, Parked, ctxVars, LockContextMutex
  <2>s. SocketTypes'
    BY <1>3, FrameFacts, ActorFacts DEF TypeOK, SocketTypes, ValueStates, Parked, sockVars, LockContextMutex
  <2>p. ProcessTypes'
    BY <1>3, FrameFacts, ActorFacts DEF TypeOK, ProcessTypes, Parked, procVars, LockContextMutex
  <2>q. QED
    BY <2>a, <2>c, <2>s, <2>p DEF TypeOK
<1>4. ASSUME NEW a \in Actors, NogvlSocketNew(a)
      PROVE  TypeOK' /\ Frames'
  <2>1. CASE \E kind \in Faults : Abort(kind)
    BY <2>1, AbortTypes
  <2>2. CASE ~\E kind \in Faults : Abort(kind)
    <3>f. {"closed twice", "null list", "freed wrapper", "freed zctx"} \subseteq Faults
      BY DEF Faults
    <3>b. Park(a, "socket_alloc", "socket", self_ctx[a], self_sock[a])
      BY <1>4, <2>2, <3>f DEF NogvlSocketNew
    <3>1. pc[a] = "socket_new"
      BY <1>4 DEF NogvlSocketNew, Parked
    <3>2. /\ self_ctx[a] \in Contexts /\ self_sock[a] \in Sockets
          /\ FrameShape(a, "socket_alloc", "socket", self_ctx[a], self_sock[a])
      BY <3>1, FrameFacts DEF FrameShape
    <3>a. CallTypes' /\ Frames'
      BY <3>b, <3>2, Parking, PlaceFacts DEF TypeOK
    <3>c. ContextTypes'
      BY <1>4, <2>2, <3>b, <3>f, FrameFacts, ActorFacts DEF TypeOK, ContextTypes, ValueStates, Parked, ctxVars, NogvlSocketNew, UnlockContextMutex
    <3>s. SocketTypes'
      BY <1>4, <2>2, <3>b, <3>f, FrameFacts, ActorFacts DEF TypeOK, SocketTypes, ValueStates, Parked, sockVars, NogvlSocketNew, UnlockContextMutex
    <3>p. ProcessTypes'
      BY <1>4, <2>2, <3>b, <3>f, FrameFacts, ActorFacts DEF TypeOK, ProcessTypes, ValueStates, Parked, procVars, NogvlSocketNew, UnlockContextMutex
    <3>q. QED
      BY <3>a, <3>c, <3>s, <3>p DEF TypeOK
  <2>q. QED
    BY <2>1, <2>2
<1>5. ASSUME NEW a \in Actors, SocketAlloc(a)
      PROVE  TypeOK' /\ Frames'
  <2>a. CallTypes' /\ Frames'
    BY <1>5, Returning DEF TypeOK, SocketAlloc
  <2>c. ContextTypes'
    BY <1>5, FrameFacts, ActorFacts DEF TypeOK, ContextTypes, ValueStates, Parked, ctxVars, SocketAlloc
  <2>s. SocketTypes'
    <3>1. self_sock[a] \in Sockets /\ a \in Threads
      BY <1>5, FrameFacts DEF SocketAlloc, Parked, Actors
    <3>2. sock_value' \in [Sockets -> ValueStates] /\ thread' \in [Sockets -> Threads \cup {Nil}]
      BY <1>5, <3>1 DEF SocketAlloc, TypeOK, SocketTypes, ValueStates
    <3>q. QED
      BY <1>5, <3>2 DEF TypeOK, SocketTypes, SocketAlloc
  <2>p. ProcessTypes'
    BY <1>5, FrameFacts, ActorFacts DEF TypeOK, ProcessTypes, Parked, procVars, SocketAlloc
  <2>q. QED
    BY <2>a, <2>c, <2>s, <2>p DEF TypeOK
<1>6. ASSUME NEW a \in Actors, NogvlZsocketDestroy(a)
      PROVE  TypeOK' /\ Frames'
  <2>1. CASE \E kind \in Faults : Abort(kind)
    BY <2>1, AbortTypes
  <2>2. CASE ~\E kind \in Faults : Abort(kind)
    <3>f. {"closed twice", "null list", "freed wrapper", "freed zctx"} \subseteq Faults
      BY DEF Faults
    <3>b. Park(a, "mark_destroyed", op[a], self_ctx[a], self_sock[a])
      BY <1>6, <2>2, <3>f DEF NogvlZsocketDestroy
    <3>1. pc[a] = "zsocket_destroy"
      BY <1>6 DEF NogvlZsocketDestroy, Parked
    <3>2. /\ self_ctx[a] \in Contexts \cup {Nil} /\ self_sock[a] \in Sockets
          /\ op[a] \in Ops
          /\ FrameShape(a, "mark_destroyed", op[a], self_ctx[a], self_sock[a])
      BY <3>1, FrameFacts, PlaceFacts DEF FrameShape
    <3>a. CallTypes' /\ Frames'
      BY <3>b, <3>2, Parking, PlaceFacts DEF TypeOK
    <3>c. ContextTypes'
      BY <1>6, <2>2, <3>b, <3>f, FrameFacts, ActorFacts DEF TypeOK, ContextTypes, ValueStates, Parked, ctxVars, NogvlZsocketDestroy, UnlockContextMutex
    <3>s. SocketTypes'
      BY <1>6, <2>2, <3>b, <3>f, FrameFacts, ActorFacts DEF TypeOK, SocketTypes, ValueStates, Parked, sockVars, NogvlZsocketDestroy, UnlockContextMutex
    <3>p. ProcessTypes'
      BY <1>6, <2>2, <3>b, <3>f, FrameFacts, ActorFacts DEF TypeOK, ProcessTypes, ValueStates, Parked, procVars, NogvlZsocketDestroy, UnlockContextMutex
    <3>q. QED
      BY <3>a, <3>c, <3>s, <3>p DEF TypeOK
  <2>q. QED
    BY <2>1, <2>2
<1>7. ASSUME NEW a \in Actors, MarkDestroyed(a)
      PROVE  TypeOK' /\ Frames'
  <2>1. CASE \E kind \in Faults : Abort(kind)
    BY <2>1, AbortTypes
  <2>2. CASE ~\E kind \in Faults : Abort(kind)
    <3>f. {"closed twice", "null list", "freed wrapper", "freed zctx"} \subseteq Faults
      BY DEF Faults
    <3>1. self_sock[a] \in Sockets /\ (op[a] \in {"destroy", "free_ctx"} => self_ctx[a] \in Contexts)
      BY <1>7, FrameFacts DEF Parked, MarkDestroyed
    <3>2. IF op[a] \in {"destroy", "free_ctx"}
          THEN FreeCtx(a, op[a], self_ctx[a])
          ELSE Return(a) /\ UNCHANGED sockets
      BY <1>7, <2>2, <3>f DEF MarkDestroyed
    <3>3. op[a] \in {"destroy", "free_ctx"} => (op[a] = "free_ctx" <=> a = GC)
      BY FrameFacts
    <3>b. sockets' \in [Contexts -> SUBSET Sockets]
      BY <3>1, <3>2, <3>3, FreeCtxTypes DEF TypeOK, ContextTypes
    <3>a. CallTypes' /\ Frames'
      BY <3>1, <3>2, <3>3, FreeCtxTypes, Returning DEF TypeOK, ContextTypes
    <3>c. ContextTypes'
      BY <1>7, <2>2, <3>b, <3>f, FrameFacts, ActorFacts DEF TypeOK, ContextTypes, ValueStates, Parked, ctxVars, MarkDestroyed
    <3>4. /\ sock_destroyed' = sock_destroyed \cup {self_sock[a]}
          /\ \/ sock_value' = [sock_value EXCEPT ![self_sock[a]] = "freed"]
             \/ UNCHANGED sock_value
          /\ UNCHANGED <<zsock, ctx_wrapper, thread>>
      BY <1>7, <2>2, <3>f DEF MarkDestroyed
    <3>s. SocketTypes'
      BY <3>1, <3>4 DEF TypeOK, SocketTypes, ValueStates
    <3>p. ProcessTypes'
      BY <1>7, <2>2, <3>b, <3>f, FrameFacts, ActorFacts DEF TypeOK, ProcessTypes, ValueStates, Parked, procVars, MarkDestroyed
    <3>q. QED
      BY <3>a, <3>c, <3>s, <3>p DEF TypeOK
  <2>q. QED
    BY <2>1, <2>2
<1>8. ASSUME NEW a \in Actors, NogvlZctxDestroy(a)
      PROVE  TypeOK' /\ Frames'
  <2>a. CallTypes' /\ Frames'
    BY <1>8, Parking, PlaceFacts, FrameFacts, ActorFacts DEF TypeOK, FrameShape, Parked, NogvlZctxDestroy
  <2>c. ContextTypes'
    BY <1>8, FrameFacts, ActorFacts DEF TypeOK, ContextTypes, ValueStates, Parked, ctxVars, NogvlZctxDestroy, UnlockContextMutex
  <2>s. SocketTypes'
    BY <1>8, FrameFacts, ActorFacts DEF TypeOK, SocketTypes, ValueStates, Parked, sockVars, NogvlZctxDestroy, UnlockContextMutex
  <2>p. ProcessTypes'
    BY <1>8, FrameFacts, ActorFacts DEF TypeOK, ProcessTypes, Parked, procVars, NogvlZctxDestroy, UnlockContextMutex
  <2>q. QED
    BY <2>a, <2>c, <2>s, <2>p DEF TypeOK
<1>9. ASSUME NEW a \in Actors, CtxFreed(a)
      PROVE  TypeOK' /\ Frames'
  <2>a. CallTypes' /\ Frames'
    BY <1>9, Returning DEF TypeOK, CtxFreed
  <2>c. ContextTypes'
    BY <1>9, FrameFacts, ActorFacts DEF TypeOK, ContextTypes, ValueStates, Parked, ctxVars, CtxFreed, Unregister
  <2>s. SocketTypes'
    BY <1>9, FrameFacts, ActorFacts DEF TypeOK, SocketTypes, ValueStates, Parked, sockVars, CtxFreed, Unregister
  <2>p. ProcessTypes'
    BY <1>9, FrameFacts, ActorFacts DEF TypeOK, ProcessTypes, Parked, procVars, CtxFreed, Unregister
  <2>q. QED
    BY <2>a, <2>c, <2>s, <2>p DEF TypeOK
<1>10. ASSUME NEW t \in Threads, NEW c \in Contexts, ContextNew(t, c)
      PROVE  TypeOK' /\ Frames'
  <2>a. CallTypes' /\ Frames'
    BY <1>10, Parking, PlaceFacts, FrameFacts, ActorFacts DEF TypeOK, FrameShape, Parked, ContextNew, Ready
  <2>c. ContextTypes'
    BY <1>10, FrameFacts, ActorFacts DEF TypeOK, ContextTypes, ValueStates, Parked, ctxVars, ContextNew
  <2>s. SocketTypes'
    BY <1>10, FrameFacts, ActorFacts DEF TypeOK, SocketTypes, ValueStates, Parked, sockVars, ContextNew
  <2>p. ProcessTypes'
    BY <1>10, FrameFacts, ActorFacts DEF TypeOK, ProcessTypes, Parked, procVars, ContextNew
  <2>q. QED
    BY <2>a, <2>c, <2>s, <2>p DEF TypeOK
<1>11. ASSUME NEW t \in Threads, NEW c \in Contexts, ContextDestroy(t, c)
      PROVE  TypeOK' /\ Frames'
  <2>b. CallTypes' /\ Frames' /\ sockets' \in [Contexts -> SUBSET Sockets]
    BY <1>11, FreeCtxTypes, ActorFacts DEF TypeOK, ContextTypes, ContextDestroy
  <2>a. CallTypes' /\ Frames'
    BY <2>b
  <2>c. ContextTypes'
    BY <1>11, <2>b, FrameFacts, ActorFacts DEF TypeOK, ContextTypes, ValueStates, Parked, ctxVars, ContextDestroy
  <2>s. SocketTypes'
    BY <1>11, <2>b, FrameFacts, ActorFacts DEF TypeOK, SocketTypes, ValueStates, Parked, sockVars, ContextDestroy
  <2>p. ProcessTypes'
    BY <1>11, <2>b, FrameFacts, ActorFacts DEF TypeOK, ProcessTypes, Parked, procVars, ContextDestroy
  <2>q. QED
    BY <2>a, <2>c, <2>s, <2>p DEF TypeOK
<1>12. ASSUME NEW t \in Threads, NEW c \in Contexts, NEW s \in Sockets,
             ContextSocket(t, c, s)
      PROVE  TypeOK' /\ Frames'
  <2>a. CallTypes' /\ Frames'
    BY <1>12, Parking, PlaceFacts, FrameFacts, ActorFacts DEF TypeOK, FrameShape, Parked, ContextSocket, Ready
  <2>c. ContextTypes'
    BY <1>12, FrameFacts, ActorFacts DEF TypeOK, ContextTypes, ValueStates, Parked, ctxVars, ContextSocket
  <2>s. SocketTypes'
    BY <1>12, FrameFacts, ActorFacts DEF TypeOK, SocketTypes, ValueStates, Parked, sockVars, ContextSocket
  <2>p. ProcessTypes'
    BY <1>12, FrameFacts, ActorFacts DEF TypeOK, ProcessTypes, Parked, procVars, ContextSocket
  <2>q. QED
    BY <2>a, <2>c, <2>s, <2>p DEF TypeOK
<1>13. ASSUME NEW t \in Threads, NEW s \in Sockets, SocketClose(t, s)
      PROVE  TypeOK' /\ Frames'
  <2>1. CASE \E kind \in Faults : Abort(kind)
    BY <2>1, AbortTypes
  <2>2. CASE ~\E kind \in Faults : Abort(kind)
    <3>f. {"closed twice", "null list", "freed wrapper", "freed zctx"} \subseteq Faults
      BY DEF Faults
    <3>1. DestroySocket(t, s, "close", Nil, sockets)
      BY <1>13, <2>2, <3>f DEF SocketClose
    <3>2. FrameShape(t, "zsocket_destroy", "close", Nil, s)
      BY ActorFacts DEF FrameShape
    <3>b. CallTypes' /\ Frames' /\ sockets' \in [Contexts -> SUBSET Sockets]
      BY <3>1, <3>2, DestroySocketTypes, PlaceFacts, ActorFacts DEF TypeOK, ContextTypes
    <3>a. CallTypes' /\ Frames'
      BY <3>b
    <3>c. ContextTypes'
      BY <1>13, <2>2, <3>b, <3>f, FrameFacts, ActorFacts DEF TypeOK, ContextTypes, ValueStates, Parked, ctxVars, SocketClose
    <3>s. SocketTypes'
      BY <1>13, <2>2, <3>b, <3>f, FrameFacts, ActorFacts DEF TypeOK, SocketTypes, ValueStates, Parked, sockVars, SocketClose
    <3>p. ProcessTypes'
      BY <1>13, <2>2, <3>b, <3>f, FrameFacts, ActorFacts DEF TypeOK, ProcessTypes, ValueStates, Parked, procVars, SocketClose
    <3>q. QED
      BY <3>a, <3>c, <3>s, <3>p DEF TypeOK
  <2>q. QED
    BY <2>1, <2>2
<1>14. ASSUME NEW t \in Threads, EndThread(t)
      PROVE  TypeOK' /\ Frames'
  <2>a. CallTypes' /\ Frames'
    BY <1>14 DEF TypeOK, CallTypes, Frames, FrameOK, callVars, EndThread
  <2>c. ContextTypes'
    BY <1>14, FrameFacts, ActorFacts DEF TypeOK, ContextTypes, ValueStates, Parked, ctxVars, EndThread
  <2>s. SocketTypes'
    BY <1>14, FrameFacts, ActorFacts DEF TypeOK, SocketTypes, ValueStates, Parked, sockVars, EndThread
  <2>p. ProcessTypes'
    BY <1>14, FrameFacts, ActorFacts DEF TypeOK, ProcessTypes, Parked, procVars, EndThread
  <2>q. QED
    BY <2>a, <2>c, <2>s, <2>p DEF TypeOK
<1>15. ASSUME NEW t \in Threads, Interrupt(t)
      PROVE  TypeOK' /\ Frames'
  <2>a. CallTypes' /\ Frames'
    BY <1>15, Returning, ActorFacts DEF TypeOK, Interrupt
  <2>c. ContextTypes'
    BY <1>15, FrameFacts, ActorFacts DEF TypeOK, ContextTypes, ValueStates, Parked, ctxVars, Interrupt
  <2>s. SocketTypes'
    BY <1>15, FrameFacts, ActorFacts DEF TypeOK, SocketTypes, ValueStates, Parked, sockVars, Interrupt
  <2>p. ProcessTypes'
    BY <1>15, FrameFacts, ActorFacts DEF TypeOK, ProcessTypes, Parked, procVars, Interrupt
  <2>q. QED
    BY <2>a, <2>c, <2>s, <2>p DEF TypeOK
<1>16. ASSUME NEW t \in Threads, NEW s \in Sockets, FreeSockGc(t, s)
      PROVE  TypeOK' /\ Frames'
  <2>1. CASE \E kind \in Faults : Abort(kind)
    BY <2>1, AbortTypes
  <2>2. CASE ~\E kind \in Faults : Abort(kind)
    <3>f. {"closed twice", "null list", "freed wrapper", "freed zctx"} \subseteq Faults
      BY DEF Faults
    <3>1. DestroySocket(GC, s, "free_sock", Nil, sockets)
      BY <1>16, <2>2, <3>f DEF FreeSockGc
    <3>2. FrameShape(GC, "zsocket_destroy", "free_sock", Nil, s)
      BY DEF FrameShape
    <3>b. CallTypes' /\ Frames' /\ sockets' \in [Contexts -> SUBSET Sockets]
      BY <3>1, <3>2, DestroySocketTypes, PlaceFacts, ActorFacts DEF TypeOK, ContextTypes
    <3>a. CallTypes' /\ Frames'
      BY <3>b
    <3>c. ContextTypes'
      BY <1>16, <2>2, <3>b, <3>f, FrameFacts, ActorFacts DEF TypeOK, ContextTypes, ValueStates, Parked, ctxVars, FreeSockGc
    <3>s. SocketTypes'
      BY <1>16, <2>2, <3>b, <3>f, FrameFacts, ActorFacts DEF TypeOK, SocketTypes, ValueStates, Parked, sockVars, FreeSockGc
    <3>p. ProcessTypes'
      BY <1>16, <2>2, <3>b, <3>f, FrameFacts, ActorFacts DEF TypeOK, ProcessTypes, ValueStates, Parked, procVars, FreeSockGc
    <3>q. QED
      BY <3>a, <3>c, <3>s, <3>p DEF TypeOK
  <2>q. QED
    BY <2>1, <2>2
<1>17. ASSUME NEW t \in Threads, NEW c \in Contexts, FreeCtxGc(t, c)
      PROVE  TypeOK' /\ Frames'
  <2>b. CallTypes' /\ Frames' /\ sockets' \in [Contexts -> SUBSET Sockets]
    <3>1. CASE FreeCtx(GC, "free_ctx", c)
      BY <3>1, FreeCtxTypes, ActorFacts DEF TypeOK, ContextTypes
    <3>2. CASE UNCHANGED <<sockets, callVars>>
      BY <3>2 DEF TypeOK, ContextTypes, CallTypes, Frames, FrameOK, callVars
    <3>q. QED
      BY <1>17, <3>1, <3>2 DEF FreeCtxGc
  <2>a. CallTypes' /\ Frames'
    BY <2>b
  <2>c. ContextTypes'
    BY <1>17, <2>b, FrameFacts, ActorFacts DEF TypeOK, ContextTypes, ValueStates, Parked, ctxVars, FreeCtxGc
  <2>s. SocketTypes'
    BY <1>17, <2>b, FrameFacts, ActorFacts DEF TypeOK, SocketTypes, ValueStates, Parked, sockVars, FreeCtxGc
  <2>p. ProcessTypes'
    BY <1>17, <2>b, FrameFacts, ActorFacts DEF TypeOK, ProcessTypes, Parked, procVars, FreeCtxGc
  <2>q. QED
    BY <2>a, <2>c, <2>s, <2>p DEF TypeOK
<1>18. ASSUME NEW s \in Sockets, DropSocket(s)
      PROVE  TypeOK' /\ Frames'
  <2>a. CallTypes' /\ Frames'
    BY <1>18 DEF TypeOK, CallTypes, Frames, FrameOK, callVars, DropSocket
  <2>c. ContextTypes'
    BY <1>18, FrameFacts, ActorFacts DEF TypeOK, ContextTypes, ValueStates, Parked, ctxVars, DropSocket
  <2>s. SocketTypes'
    BY <1>18, FrameFacts, ActorFacts DEF TypeOK, SocketTypes, ValueStates, Parked, sockVars, DropSocket
  <2>p. ProcessTypes'
    BY <1>18, FrameFacts, ActorFacts DEF TypeOK, ProcessTypes, Parked, procVars, DropSocket
  <2>q. QED
    BY <2>a, <2>c, <2>s, <2>p DEF TypeOK
<1>19. ASSUME NEW c \in Contexts, DropContext(c)
      PROVE  TypeOK' /\ Frames'
  <2>a. CallTypes' /\ Frames'
    BY <1>19 DEF TypeOK, CallTypes, Frames, FrameOK, callVars, DropContext
  <2>c. ContextTypes'
    BY <1>19, FrameFacts, ActorFacts DEF TypeOK, ContextTypes, ValueStates, Parked, ctxVars, DropContext
  <2>s. SocketTypes'
    BY <1>19, FrameFacts, ActorFacts DEF TypeOK, SocketTypes, ValueStates, Parked, sockVars, DropContext
  <2>p. ProcessTypes'
    BY <1>19, FrameFacts, ActorFacts DEF TypeOK, ProcessTypes, Parked, procVars, DropContext
  <2>q. QED
    BY <2>a, <2>c, <2>s, <2>p DEF TypeOK
<1>20. ASSUME Exit
      PROVE  TypeOK' /\ Frames'
  <2>a. CallTypes' /\ Frames'
    BY <1>20 DEF TypeOK, CallTypes, Frames, FrameOK, callVars, Exit
  <2>c. ContextTypes'
    BY <1>20, FrameFacts, ActorFacts DEF TypeOK, ContextTypes, ValueStates, Parked, ctxVars, Exit
  <2>s. SocketTypes'
    BY <1>20, FrameFacts, ActorFacts DEF TypeOK, SocketTypes, ValueStates, Parked, sockVars, Exit
  <2>p. ProcessTypes'
    BY <1>20, FrameFacts, ActorFacts DEF TypeOK, ProcessTypes, Parked, procVars, Exit
  <2>q. QED
    BY <2>a, <2>c, <2>s, <2>p DEF TypeOK
<1>21. ASSUME UNCHANGED vars
      PROVE  TypeOK' /\ Frames'
  <2>a. CallTypes' /\ Frames'
    BY <1>21 DEF TypeOK, CallTypes, Frames, FrameOK, callVars, vars
  <2>c. ContextTypes'
    BY <1>21, FrameFacts, ActorFacts DEF TypeOK, ContextTypes, ValueStates, Parked, ctxVars, vars
  <2>s. SocketTypes'
    BY <1>21, FrameFacts, ActorFacts DEF TypeOK, SocketTypes, ValueStates, Parked, sockVars, vars
  <2>p. ProcessTypes'
    BY <1>21, FrameFacts, ActorFacts DEF TypeOK, ProcessTypes, Parked, procVars, vars
  <2>q. QED
    BY <2>a, <2>c, <2>s, <2>p DEF TypeOK
<1>q. QED
  BY <1>1, <1>2, <1>3, <1>4, <1>5, <1>6, <1>7, <1>8, <1>9, <1>10, <1>11, <1>12, <1>13, <1>14, <1>15, <1>16, <1>17, <1>18, <1>19, <1>20, <1>21
     DEF Next, Step, Call, CollectSocket, CollectContext, Terminated

LEMMA InitTypes == Init => TypeOK /\ Frames
<1> SUFFICES ASSUME Init PROVE TypeOK /\ Frames
  OBVIOUS
<1>1. ContextTypes
  BY DEF Init, ContextTypes, ValueStates
<1>2. SocketTypes
  BY DEF Init, SocketTypes, ValueStates
<1>3. CallTypes
  BY PlaceFacts DEF Init, CallTypes
<1>4. ProcessTypes
  BY DEF Init, ProcessTypes, Faults
<1>5. Frames
  BY DEF Init, Frames, FrameOK, FrameShape
<1>q. QED
  BY <1>1, <1>2, <1>3, <1>4, <1>5 DEF TypeOK

\* Types hold in every reachable state, for any use of the library.
THEOREM TypeCorrect == Spec => []TypeOK
<1>1. TypeOK /\ Frames /\ [Next]_vars => TypeOK' /\ Frames'
  BY TypeStep
<1>q. QED
  BY InitTypes, <1>1, PTL DEF Spec

-----------------------------------------------------------------------------
(***************************************************************************)
(* The lists of sockets and the flags                                      *)
(*                                                                         *)
(* A context's list holds only wrappers that are safe to pop, and the      *)
(* DESTROYED flag never runs ahead of czmq, whatever the program does.     *)
(*                                                                         *)
(* Both rest on one observation: a wrapper enters a list once, when        *)
(* ctx.socket returns it, and whoever sets out to close it takes it off    *)
(* before giving up the GVL; so no wrapper in the hands of a closing call  *)
(* is listed, and none is flagged before its raw socket is closed.         *)
(***************************************************************************)

Given == {"held", "dropped"}

\* A wrapper that ctx.socket has not returned yet carries no flag.
FlagsOK ==
  \A s \in Sockets :
    /\ sock_value[s] = "unused" => zsock[s] = "none"
    /\ sock_value[s] \in {"unused", "building"} => s \notin sock_destroyed
    /\ s \in sock_destroyed => zsock[s] = "closed"

ListedOK ==
  \A c \in Contexts : \A s \in sockets[c] :
    ctx_wrapper[s] = c /\ sock_value[s] \in Given /\ s \notin sock_destroyed

\* Each ctx.socket call builds a wrapper of its own.
OpeningOK ==
  /\ \A a \in Actors :
       /\ op[a] = "socket" => sock_value[self_sock[a]] = "building"
       /\ pc[a] = "socket_new" => zsock[self_sock[a]] = "none"
       /\ pc[a] = "socket_alloc" => ctx_wrapper[self_sock[a]] = self_ctx[a]
  /\ \A a, b \in Actors :
       op[a] = "socket" /\ op[b] = "socket" /\ self_sock[a] = self_sock[b] => a = b

\* A closing call works on a wrapper that no list holds any more.
ClosingOK ==
  \A a \in Actors :
    /\ pc[a] \in {"zsocket_destroy", "mark_destroyed"} =>
         /\ sock_value[self_sock[a]] \in Given \cup {"freed"}
         /\ \A c \in Contexts : self_sock[a] \notin sockets[c]
    /\ pc[a] = "mark_destroyed" => zsock[self_sock[a]] = "closed"

ListInv == FlagsOK /\ ListedOK /\ OpeningOK /\ ClosingOK

-----------------------------------------------------------------------------
(* Steps that leave the sockets alone                                      *)

\* Who has which kind of socket in hand, by operation and by place.
LEMMA InHandPlaces ==
  ASSUME TypeOK, Frames, ListInv, NEW a \in Actors
  PROVE  /\ op[a] = "socket" <=> pc[a] \in {"socket_new", "socket_alloc"}
         /\ op[a] = "socket" =>
              /\ a # GC /\ self_sock[a] \in Sockets /\ self_ctx[a] \in Contexts
              /\ sock_value[self_sock[a]] = "building"
         /\ pc[a] \in {"zsocket_destroy", "mark_destroyed"} =>
              /\ self_sock[a] \in Sockets
              /\ sock_value[self_sock[a]] \in {"held", "dropped", "freed"}
              /\ \A c \in Contexts : self_sock[a] \notin sockets[c]
<1>1. op[a] = "socket" => pc[a] \in {"socket_new", "socket_alloc"}
  BY FrameFacts DEF TypeOK, CallTypes, PCs, Nogvl, Returned
<1>q. QED
  BY <1>1, FrameFacts DEF ListInv, OpeningOK, ClosingOK, Given

\* The invariant reads no more than these variables.
LEMMA ListInvUnchanged ==
  ASSUME ListInv, UNCHANGED <<sockets, sockVars, callVars>>
  PROVE  ListInv'
<1>1. FlagsOK'
  BY DEF ListInv, FlagsOK, sockVars
<1>2. ListedOK'
  BY DEF ListInv, ListedOK, sockVars
<1>3. OpeningOK'
  BY DEF ListInv, OpeningOK, sockVars, callVars
<1>4. ClosingOK'
  BY DEF ListInv, ClosingOK, sockVars, callVars
<1>q. QED
  BY <1>1, <1>2, <1>3, <1>4 DEF ListInv

\* A step of actor a that sets the flag of the socket in its hands, or none.
Marked(a) ==
  /\ UNCHANGED <<sock_value, zsock, ctx_wrapper>>
  /\ \/ UNCHANGED sock_destroyed
     \/ /\ pc[a] = "mark_destroyed"
        /\ sock_destroyed' = sock_destroyed \cup {self_sock[a]}

\* Such a step spoils no flag and no list, if the lists do not grow.
LEMMA Marking ==
  ASSUME TypeOK, Frames, ListInv, NEW a \in Actors, Marked(a),
         \A c \in Contexts : sockets'[c] \subseteq sockets[c]
  PROVE  FlagsOK' /\ ListedOK'
<1>1. \A s \in sock_destroyed' \ sock_destroyed :
        /\ zsock[s] = "closed"
        /\ sock_value[s] \in {"held", "dropped", "freed"}
        /\ \A c \in Contexts : s \notin sockets[c]
  BY InHandPlaces DEF Marked, ListInv, ClosingOK
<1>2. FlagsOK'
  BY <1>1 DEF Marked, ListInv, FlagsOK
<1>3. ListedOK'
  BY <1>1 DEF Marked, ListInv, ListedOK
<1>q. QED
  BY <1>2, <1>3

\* Parking where no socket is in hand.
LEMMA ListInvElsewhere ==
  ASSUME TypeOK, Frames, ListInv, NEW a \in Actors,
         NEW where \in {"idle", "zctx_new", "initialize", "zctx_destroy", "ctx_freed"},
         NEW o \in Ops \ {"socket"}, NEW c \in Contexts \cup {Nil},
         Park(a, where, o, c, Nil), Marked(a), UNCHANGED sockets
  PROVE  ListInv'
<1>p. /\ pc'[a] = where /\ op'[a] = o
      /\ \A b \in Actors : b # a =>
           /\ pc'[b] = pc[b] /\ op'[b] = op[b]
           /\ self_ctx'[b] = self_ctx[b] /\ self_sock'[b] = self_sock[b]
  BY DEF TypeOK, CallTypes, Park
<1>1. FlagsOK' /\ ListedOK'
  BY Marking
<1>2. OpeningOK'
  BY <1>p DEF ListInv, OpeningOK, Marked
<1>3. ClosingOK'
  BY <1>p DEF ListInv, ClosingOK, Marked
<1>q. QED
  BY <1>1, <1>2, <1>3 DEF ListInv

-----------------------------------------------------------------------------
(* ctx.socket                                                              *)

LEMMA ListInvContextSocket ==
  ASSUME TypeOK, Frames, ListInv,
         NEW t \in Threads, NEW c \in Contexts, NEW s \in Sockets,
         ContextSocket(t, c, s)
  PROVE  ListInv'
<1>p. /\ t \in Actors
      /\ pc'[t] = "socket_new" /\ op'[t] = "socket" /\ self_sock'[t] = s
      /\ \A b \in Actors : b # t =>
           /\ pc'[b] = pc[b] /\ op'[b] = op[b]
           /\ self_ctx'[b] = self_ctx[b] /\ self_sock'[b] = self_sock[b]
  BY ActorFacts DEF ContextSocket, TypeOK, CallTypes, Park
<1>v. /\ sock_value[s] = "unused"
      /\ sock_value'[s] = "building"
      /\ \A r \in Sockets : r # s => sock_value'[r] = sock_value[r]
      /\ UNCHANGED <<sockets, zsock, ctx_wrapper, sock_destroyed>>
  BY DEF ContextSocket, TypeOK, SocketTypes, ctxVars
<1>1. FlagsOK'
  BY <1>v DEF ListInv, FlagsOK
<1>2. ListedOK'
  BY <1>v DEF ListInv, ListedOK, TypeOK, ContextTypes, Given
<1>i. \A b \in Actors :
        /\ op[b] = "socket" => self_sock[b] \in Sockets /\ self_sock[b] # s
        /\ pc[b] \in {"zsocket_destroy", "mark_destroyed"} =>
             self_sock[b] \in Sockets /\ self_sock[b] # s
        /\ pc[b] \in {"socket_new", "socket_alloc"} => op[b] = "socket"
  BY <1>v, InHandPlaces
<1>3. OpeningOK'
  BY <1>p, <1>v, <1>i DEF ListInv, FlagsOK, OpeningOK
<1>4. ClosingOK'
  BY <1>p, <1>v, <1>i DEF ListInv, ClosingOK
<1>q. QED
  BY <1>1, <1>2, <1>3, <1>4 DEF ListInv

LEMMA ListInvNogvlSocketNew ==
  ASSUME TypeOK, Frames, ListInv, NEW t \in Actors, NogvlSocketNew(t)
  PROVE  ListInv'
<1>1. CASE Abort("freed zctx")
  BY <1>1, ListInvUnchanged DEF Abort, ctxVars
<1>2. CASE ~Abort("freed zctx")
  <2> DEFINE s == self_sock[t]
  <2>0. pc[t] = "socket_new" /\ op[t] = "socket" /\ s \in Sockets
    BY InHandPlaces DEF NogvlSocketNew, Parked
  <2>n. /\ zsock' = [zsock EXCEPT ![s] = "open"]
        /\ ctx_wrapper' = [ctx_wrapper EXCEPT ![s] = self_ctx[t]]
        /\ Park(t, "socket_alloc", "socket", self_ctx[t], s)
        /\ UNCHANGED <<ctxVars, sock_value, sock_destroyed>>
    BY <1>2 DEF NogvlSocketNew
  <2>p. /\ pc'[t] = "socket_alloc" /\ op'[t] = "socket" /\ self_sock'[t] = s
        /\ self_ctx'[t] = self_ctx[t]
        /\ \A b \in Actors : b # t =>
             /\ pc'[b] = pc[b] /\ op'[b] = op[b]
             /\ self_ctx'[b] = self_ctx[b] /\ self_sock'[b] = self_sock[b]
    BY <2>n DEF TypeOK, CallTypes, Park
  <2>v. /\ sock_value[s] = "building"
        /\ ctx_wrapper'[s] = self_ctx[t]
        /\ \A r \in Sockets : r # s =>
             zsock'[r] = zsock[r] /\ ctx_wrapper'[r] = ctx_wrapper[r]
        /\ UNCHANGED <<sockets, sock_value, sock_destroyed>>
    BY <2>0, <2>n, InHandPlaces DEF TypeOK, SocketTypes, ctxVars
  <2>i. \A b \in Actors :
          /\ pc[b] \in {"zsocket_destroy", "mark_destroyed"} =>
               self_sock[b] \in Sockets /\ self_sock[b] # s
          /\ pc[b] \in {"socket_new", "socket_alloc"} =>
               op[b] = "socket" /\ self_sock[b] \in Sockets
          /\ op[b] = "socket" /\ self_sock[b] = s => b = t
    BY <2>0, <2>v, InHandPlaces DEF ListInv, OpeningOK
  <2>1. FlagsOK'
    BY <2>0, <2>v DEF ListInv, FlagsOK
  <2>2. ListedOK'
    BY <2>0, <2>v DEF ListInv, ListedOK, TypeOK, ContextTypes, Given
  <2>3. OpeningOK'
    BY <2>0, <2>p, <2>v, <2>i DEF ListInv, OpeningOK
  <2>4. ClosingOK'
    BY <2>0, <2>p, <2>v, <2>i DEF ListInv, ClosingOK
  <2>q. QED
    BY <2>1, <2>2, <2>3, <2>4 DEF ListInv
<1>q. QED
  BY <1>1, <1>2

LEMMA ListInvSocketAlloc ==
  ASSUME TypeOK, Frames, ListInv, NEW t \in Actors, SocketAlloc(t)
  PROVE  ListInv'
<1> DEFINE s == self_sock[t]
<1>0. /\ pc[t] = "socket_alloc" /\ op[t] = "socket"
      /\ s \in Sockets /\ self_ctx[t] \in Contexts
  BY InHandPlaces DEF SocketAlloc, Parked
<1>p. /\ pc'[t] = "idle" /\ op'[t] = "none"
      /\ \A b \in Actors : b # t =>
           /\ pc'[b] = pc[b] /\ op'[b] = op[b]
           /\ self_ctx'[b] = self_ctx[b] /\ self_sock'[b] = self_sock[b]
  BY Returning DEF SocketAlloc, TypeOK
<1>v. /\ sock_value[s] = "building" /\ ctx_wrapper[s] = self_ctx[t]
      /\ sock_value'[s] # "unused" /\ sock_value'[s] # "building"
      /\ \A r \in Sockets : r # s => sock_value'[r] = sock_value[r]
      /\ UNCHANGED <<zsock, ctx_wrapper, sock_destroyed>>
  BY <1>0, InHandPlaces DEF SocketAlloc, TypeOK, SocketTypes, ListInv, OpeningOK
<1>l. \/ UNCHANGED sockets
      \/ sockets' = [sockets EXCEPT ![self_ctx[t]] = @ \cup {s}] /\ sock_value'[s] = "held"
  BY <1>0 DEF SocketAlloc, TypeOK, SocketTypes
<1>i. \A b \in Actors :
        /\ pc[b] \in {"zsocket_destroy", "mark_destroyed"} =>
             self_sock[b] \in Sockets /\ self_sock[b] # s
        /\ pc[b] \in {"socket_new", "socket_alloc"} =>
             op[b] = "socket" /\ self_sock[b] \in Sockets
        /\ op[b] = "socket" => self_sock[b] \in Sockets
        /\ op[b] = "socket" /\ self_sock[b] = s => b = t
  BY <1>0, <1>v, InHandPlaces DEF ListInv, OpeningOK
<1>1. FlagsOK'
  BY <1>0, <1>v DEF ListInv, FlagsOK
<1>2. ListedOK'
  <2>1. s \notin sock_destroyed
    BY <1>0, <1>v DEF ListInv, FlagsOK
  <2>2. CASE UNCHANGED sockets
    BY <2>2, <1>0, <1>v DEF ListInv, ListedOK, TypeOK, ContextTypes, Given
  <2>3. CASE /\ sockets' = [sockets EXCEPT ![self_ctx[t]] = @ \cup {s}]
             /\ sock_value'[s] = "held"
    <3>1. ASSUME NEW c \in Contexts, NEW r \in sockets'[c]
          PROVE  /\ r \in sockets[c] \/ (r = s /\ c = self_ctx[t])
                 /\ r \in Sockets
      BY <2>3, <1>0 DEF TypeOK, ContextTypes
    <3>q. QED
      BY <3>1, <2>1, <2>3, <1>0, <1>v DEF ListInv, ListedOK, Given
  <2>q. QED
    BY <2>2, <2>3, <1>l
<1>3. OpeningOK'
  BY <1>0, <1>p, <1>v, <1>i DEF ListInv, OpeningOK
<1>4. ClosingOK'
  <2>1. ASSUME NEW b \in Actors, b # t, pc[b] \in {"zsocket_destroy", "mark_destroyed"}
        PROVE  /\ sock_value'[self_sock[b]] \in Given \cup {"freed"}
               /\ \A c \in Contexts : self_sock[b] \notin sockets'[c]
    BY <2>1, <1>0, <1>v, <1>l, <1>i DEF ListInv, ClosingOK, TypeOK, ContextTypes
  <2>q. QED
    BY <2>1, <1>p, <1>v DEF ListInv, ClosingOK
<1>q. QED
  BY <1>1, <1>2, <1>3, <1>4 DEF ListInv

-----------------------------------------------------------------------------
(* Closing                                                                 *)

\* Taking a socket in hand to close it, off the list it may be in.  The lists
\* are those of before, or shorter by this socket.
LEMMA ListInvDestroySocket ==
  ASSUME TypeOK, Frames, ListInv, NEW a \in Actors, NEW s \in Sockets,
         NEW o \in Ops \ {"socket"}, NEW c \in Contexts \cup {Nil},
         NEW listed \in [Contexts -> SUBSET Sockets],
         \A d \in Contexts : listed[d] \subseteq sockets[d],
         sock_value[s] \in Given,
         s \in sock_destroyed => listed = sockets,
         DestroySocket(a, s, o, c, listed),
         Marked(a)
  PROVE  ListInv'
<1>p. /\ op'[a] = o /\ self_sock'[a] = s
      /\ \/ pc'[a] = "mark_destroyed" /\ s \in sock_destroyed
         \/ pc'[a] = "zsocket_destroy"
      /\ \A b \in Actors : b # a =>
           /\ pc'[b] = pc[b] /\ op'[b] = op[b]
           /\ self_ctx'[b] = self_ctx[b] /\ self_sock'[b] = self_sock[b]
  BY DEF DestroySocket, TypeOK, CallTypes, Park
<1>l. \A d \in Contexts : sockets'[d] \subseteq sockets[d] /\ s \notin sockets'[d]
  <2>1. CASE s \in sock_destroyed
    BY <2>1 DEF DestroySocket, ListInv, ListedOK
  <2>2. CASE s \notin sock_destroyed
    BY <2>2 DEF DestroySocket, ListInv, ListedOK
  <2>q. QED
    BY <2>1, <2>2
<1>1. FlagsOK' /\ ListedOK'
  BY <1>l, Marking
<1>2. OpeningOK'
  BY <1>p DEF ListInv, OpeningOK, Marked
<1>3. ClosingOK'
  BY <1>p, <1>l DEF ListInv, ClosingOK, FlagsOK, Marked
<1>q. QED
  BY <1>1, <1>2, <1>3 DEF ListInv

\* One turn of the loop over a context's list.
LEMMA ListInvFreeCtx ==
  ASSUME TypeOK, Frames, ListInv, NEW a \in Actors,
         NEW o \in {"destroy", "free_ctx"}, NEW c \in Contexts,
         FreeCtx(a, o, c), Marked(a)
  PROVE  ListInv'
<1>1. CASE sockets[c] = {}
  BY <1>1, ListInvElsewhere, PlaceFacts DEF FreeCtx
<1>2. CASE sockets[c] # {}
  <2>1. PICK s \in sockets[c] :
          DestroySocket(a, s, o, c, [sockets EXCEPT ![c] = @ \ {s}])
    BY <1>2 DEF FreeCtx
  <2>2. /\ s \in Sockets /\ sock_value[s] \in Given /\ s \notin sock_destroyed
        /\ sockets \in [Contexts -> SUBSET Sockets]
    BY DEF TypeOK, ContextTypes, ListInv, ListedOK
  <2>3. /\ [sockets EXCEPT ![c] = @ \ {s}] \in [Contexts -> SUBSET Sockets]
        /\ \A d \in Contexts : [sockets EXCEPT ![c] = @ \ {s}][d] \subseteq sockets[d]
    BY <2>2
  <2>q. QED
    BY <2>1, <2>2, <2>3, ListInvDestroySocket, PlaceFacts
<1>q. QED
  BY <1>1, <1>2

LEMMA ListInvNogvlZsocketDestroy ==
  ASSUME TypeOK, Frames, ListInv, NEW a \in Actors, NogvlZsocketDestroy(a)
  PROVE  ListInv'
<1>1. CASE \E kind \in Faults : Abort(kind)
  BY <1>1, ListInvUnchanged DEF Abort, ctxVars
<1>2. CASE ~\E kind \in Faults : Abort(kind)
  <2> DEFINE s == self_sock[a]
  <2>f. {"closed twice", "freed wrapper"} \subseteq Faults
    BY DEF Faults
  <2>0. pc[a] = "zsocket_destroy" /\ s \in Sockets
    BY InHandPlaces DEF NogvlZsocketDestroy, Parked
  <2>1. /\ zsock' = [zsock EXCEPT ![s] = "closed"]
        /\ zsock[s] = "open"
        /\ Park(a, "mark_destroyed", op[a], self_ctx[a], s)
        /\ UNCHANGED <<ctxVars, sock_value, ctx_wrapper, thread, sock_destroyed>>
    BY <1>2, <2>f DEF NogvlZsocketDestroy
  <2>p. /\ pc'[a] = "mark_destroyed" /\ op'[a] = op[a] /\ self_sock'[a] = s
        /\ \A b \in Actors : b # a =>
             /\ pc'[b] = pc[b] /\ op'[b] = op[b]
             /\ self_ctx'[b] = self_ctx[b] /\ self_sock'[b] = self_sock[b]
    BY <2>1 DEF TypeOK, CallTypes, Park
  <2>v. /\ zsock'[s] = "closed"
        /\ \A r \in Sockets : r # s => zsock'[r] = zsock[r]
        /\ sock_value[s] \in {"held", "dropped", "freed"}
        /\ op[a] # "socket"
        /\ UNCHANGED <<sockets, sock_value, ctx_wrapper, sock_destroyed>>
    BY <2>0, <2>1, InHandPlaces DEF TypeOK, SocketTypes, ctxVars
  <2>i. \A b \in Actors :
          /\ op[b] = "socket" => self_sock[b] \in Sockets /\ self_sock[b] # s
          /\ pc[b] \in {"socket_new", "socket_alloc"} => op[b] = "socket"
          /\ pc[b] \in {"zsocket_destroy", "mark_destroyed"} => self_sock[b] \in Sockets
    BY <2>v, InHandPlaces
  <2>2. FlagsOK'
    BY <2>v DEF ListInv, FlagsOK
  <2>3. ListedOK'
    BY <2>v DEF ListInv, ListedOK
  <2>4. OpeningOK'
    BY <2>p, <2>v, <2>i DEF ListInv, OpeningOK
  <2>5. ClosingOK'
    <3>1. \A c \in Contexts : s \notin sockets'[c]
      BY <2>0, <2>v DEF ListInv, ClosingOK
    <3>q. QED
      BY <3>1, <2>p, <2>v, <2>i DEF ListInv, ClosingOK, Given
  <2>q. QED
    BY <2>2, <2>3, <2>4, <2>5 DEF ListInv
<1>q. QED
  BY <1>1, <1>2

LEMMA ListInvMarkDestroyed ==
  ASSUME TypeOK, Frames, ListInv, NEW a \in Actors, MarkDestroyed(a)
  PROVE  ListInv'
<1>1. CASE \E kind \in Faults : Abort(kind)
  BY <1>1, ListInvUnchanged DEF Abort, ctxVars
<1>2. CASE ~\E kind \in Faults : Abort(kind)
  <2> DEFINE s == self_sock[a]
  <2>f. {"null list", "freed wrapper"} \subseteq Faults
    BY DEF Faults
  <2>0. pc[a] = "mark_destroyed" /\ s \in Sockets
    BY InHandPlaces DEF MarkDestroyed, Parked
  <2>1. /\ sock_destroyed' = sock_destroyed \cup {s}
        /\ IF op[a] \in {"destroy", "free_ctx"}
           THEN FreeCtx(a, op[a], self_ctx[a])
           ELSE Return(a) /\ UNCHANGED sockets
        /\ IF op[a] = "free_sock"
           THEN sock_value' = [sock_value EXCEPT ![s] = "freed"]
           ELSE UNCHANGED sock_value
        /\ UNCHANGED <<zsock, ctx_wrapper>>
    BY <1>2, <2>f DEF MarkDestroyed
  <2>2. CASE op[a] \in {"destroy", "free_ctx"}
    <3>1. Marked(a)
      BY <2>0, <2>1, <2>2 DEF Marked
    <3>2. self_ctx[a] \in Contexts
      BY <2>0, <2>2, FrameFacts
    <3>q. QED
      BY <2>1, <2>2, <3>1, <3>2, ListInvFreeCtx
  <2>3. CASE op[a] \notin {"destroy", "free_ctx"}
    <3>p. /\ pc'[a] = "idle" /\ op'[a] = "none"
          /\ \A b \in Actors : b # a =>
               /\ pc'[b] = pc[b] /\ op'[b] = op[b]
               /\ self_ctx'[b] = self_ctx[b] /\ self_sock'[b] = self_sock[b]
      BY <2>1, <2>3, Returning DEF TypeOK
    <3>v. /\ zsock[s] = "closed"
          /\ sock_value[s] \in {"held", "dropped", "freed"}
          /\ sock_value'[s] \in {"held", "dropped", "freed"}
          /\ \A r \in Sockets : r # s => sock_value'[r] = sock_value[r]
          /\ \A c \in Contexts : s \notin sockets[c]
          /\ UNCHANGED sockets
      BY <2>0, <2>1, <2>3, InHandPlaces DEF TypeOK, SocketTypes, ListInv, ClosingOK
    <3>i. \A b \in Actors :
            /\ op[b] = "socket" => self_sock[b] \in Sockets /\ self_sock[b] # s
            /\ pc[b] \in {"socket_new", "socket_alloc"} => op[b] = "socket"
            /\ pc[b] \in {"zsocket_destroy", "mark_destroyed"} => self_sock[b] \in Sockets
      BY <3>v, InHandPlaces
    <3>1. FlagsOK'
      BY <2>0, <2>1, <3>v DEF ListInv, FlagsOK
    <3>2. ListedOK'
      <4>1. \A c \in Contexts : sockets[c] \subseteq Sockets
        BY DEF TypeOK, ContextTypes
      <4>q. QED
        BY <4>1, <2>0, <2>1, <3>v DEF ListInv, ListedOK
    <3>3. OpeningOK'
      BY <2>1, <3>p, <3>v, <3>i DEF ListInv, OpeningOK
    <3>4. ClosingOK'
      <4>1. ASSUME NEW b \in Actors, b # a, pc[b] \in {"zsocket_destroy", "mark_destroyed"}
            PROVE  sock_value'[self_sock[b]] \in Given \cup {"freed"}
        BY <4>1, <3>v, <3>i DEF ListInv, ClosingOK, Given
      <4>q. QED
        BY <4>1, <2>1, <3>p, <3>v, <3>i DEF ListInv, ClosingOK
    <3>q. QED
      BY <3>1, <3>2, <3>3, <3>4 DEF ListInv
  <2>q. QED
    BY <2>2, <2>3
<1>q. QED
  BY <1>1, <1>2

\* zctx_destroy closes raw sockets and touches no wrapper.
LEMMA ListInvNogvlZctxDestroy ==
  ASSUME TypeOK, Frames, ListInv, NEW a \in Actors, NogvlZctxDestroy(a)
  PROVE  ListInv'
<1>0. pc[a] = "zctx_destroy" /\ op[a] # "socket"
  BY InHandPlaces DEF NogvlZctxDestroy, Parked
<1>p. /\ pc'[a] = "ctx_freed" /\ op'[a] = op[a]
      /\ \A b \in Actors : b # a =>
           /\ pc'[b] = pc[b] /\ op'[b] = op[b]
           /\ self_ctx'[b] = self_ctx[b] /\ self_sock'[b] = self_sock[b]
  BY DEF NogvlZctxDestroy, TypeOK, CallTypes, Park
<1>v. /\ \A s \in Sockets :
           /\ zsock[s] # "open" => zsock'[s] = zsock[s]
           /\ zsock[s] = "open" => zsock'[s] \in {"open", "closed"}
      /\ UNCHANGED <<sockets, sock_value, ctx_wrapper, sock_destroyed>>
  BY DEF NogvlZctxDestroy
<1>i. \A b \in Actors :
        /\ pc[b] \in {"socket_new", "socket_alloc"} => self_sock[b] \in Sockets
        /\ pc[b] \in {"zsocket_destroy", "mark_destroyed"} => self_sock[b] \in Sockets
  BY InHandPlaces
<1>1. FlagsOK'
  BY <1>v DEF ListInv, FlagsOK
<1>2. ListedOK'
  BY <1>v DEF ListInv, ListedOK
<1>3. OpeningOK'
  BY <1>0, <1>p, <1>v, <1>i DEF ListInv, OpeningOK
<1>4. ClosingOK'
  BY <1>0, <1>p, <1>v, <1>i DEF ListInv, ClosingOK
<1>q. QED
  BY <1>1, <1>2, <1>3, <1>4 DEF ListInv

-----------------------------------------------------------------------------
(* Interrupts and the program                                              *)

LEMMA ListInvInterrupt ==
  ASSUME TypeOK, Frames, ListInv, NEW t \in Threads, Interrupt(t)
  PROVE  ListInv'
<1>p. /\ t \in Actors /\ pc'[t] = "idle" /\ op'[t] = "none"
      /\ \A b \in Actors : b # t =>
           /\ pc'[b] = pc[b] /\ op'[b] = op[b]
           /\ self_ctx'[b] = self_ctx[b] /\ self_sock'[b] = self_sock[b]
  BY Returning, ActorFacts DEF Interrupt, TypeOK
<1>v. /\ \A s \in Sockets :
           \/ sock_value'[s] = sock_value[s]
           \/ /\ sock_value[s] = "building" /\ self_sock[t] = s
              /\ sock_value'[s] = "freed"
      /\ UNCHANGED <<sockets, zsock, ctx_wrapper, sock_destroyed>>
  BY DEF Interrupt
<1>i. \A b \in Actors :
        /\ op[b] = "socket" =>
             /\ self_sock[b] \in Sockets
             /\ self_sock[b] = self_sock[t] /\ op[t] = "socket" => b = t
        /\ pc[b] \in {"socket_new", "socket_alloc"} => op[b] = "socket"
        /\ pc[b] \in {"zsocket_destroy", "mark_destroyed"} => self_sock[b] \in Sockets
  BY <1>p, InHandPlaces DEF ListInv, OpeningOK
<1>o. \A s \in Sockets :
        sock_value'[s] # sock_value[s] => op[t] = "socket" /\ self_sock[t] = s
  <2> TAKE s \in Sockets
  <2> HAVE sock_value'[s] # sock_value[s]
  <2>1. self_sock[t] = s /\ sock_value[s] = "building"
    BY <1>v
  <2>2. self_sock[t] # Nil
    BY <2>1, ActorFacts
  <2>3. pc[t] \in {"socket_new", "socket_alloc", "zsocket_destroy", "mark_destroyed"}
    BY <2>2, <1>p, FrameFacts DEF TypeOK, CallTypes, PCs, Nogvl, Returned
  <2>q. QED
    BY <2>1, <2>3, <1>p, InHandPlaces
<1>1. FlagsOK'
  BY <1>v DEF ListInv, FlagsOK
<1>2. ListedOK'
  <2>1. \A c \in Contexts : sockets[c] \subseteq Sockets
    BY DEF TypeOK, ContextTypes
  <2>q. QED
    BY <2>1, <1>v DEF ListInv, ListedOK, Given
<1>3. OpeningOK'
  BY <1>p, <1>v, <1>i, <1>o DEF ListInv, OpeningOK
<1>4. ClosingOK'
  BY <1>p, <1>v, <1>i DEF ListInv, ClosingOK, Given
<1>q. QED
  BY <1>1, <1>2, <1>3, <1>4 DEF ListInv

LEMMA ListInvDropSocket ==
  ASSUME TypeOK, Frames, ListInv, NEW s \in Sockets, DropSocket(s)
  PROVE  ListInv'
<1>v. /\ \A r \in Sockets :
           \/ sock_value'[r] = sock_value[r]
           \/ sock_value[r] = "held" /\ sock_value'[r] = "dropped"
      /\ UNCHANGED <<sockets, zsock, ctx_wrapper, sock_destroyed, callVars>>
  BY DEF DropSocket, TypeOK, SocketTypes, ctxVars
<1>i. \A b \in Actors :
        /\ op[b] = "socket" => self_sock[b] \in Sockets
        /\ pc[b] \in {"socket_new", "socket_alloc"} => op[b] = "socket"
        /\ pc[b] \in {"zsocket_destroy", "mark_destroyed"} => self_sock[b] \in Sockets
  BY InHandPlaces
<1>1. FlagsOK'
  BY <1>v DEF ListInv, FlagsOK
<1>2. ListedOK'
  <2>1. \A c \in Contexts : sockets[c] \subseteq Sockets
    BY DEF TypeOK, ContextTypes
  <2>q. QED
    BY <2>1, <1>v DEF ListInv, ListedOK, Given
<1>3. OpeningOK'
  BY <1>v, <1>i DEF ListInv, OpeningOK, callVars
<1>4. ClosingOK'
  BY <1>v, <1>i DEF ListInv, ClosingOK, Given, callVars
<1>q. QED
  BY <1>1, <1>2, <1>3, <1>4 DEF ListInv

-----------------------------------------------------------------------------
(* The theorem                                                             *)

LEMMA ListStep ==
  ASSUME TypeOK, Frames, ListInv, [Next]_vars
  PROVE  ListInv'
<1>1. ASSUME NEW a \in Actors, ContextNewFill(a)
      PROVE  ListInv'
  <2>1. self_ctx[a] \in Contexts
    BY <1>1, FrameFacts DEF ContextNewFill, Parked
  <2>q. QED
    BY <1>1, <2>1, ListInvElsewhere, PlaceFacts DEF ContextNewFill, Marked, sockVars
<1>2. ASSUME NEW a \in Actors, ContextNewRegister(a)
      PROVE  ListInv'
  BY <1>2, ListInvElsewhere, PlaceFacts DEF ContextNewRegister, Return, Marked, sockVars
<1>3. ASSUME NEW a \in Actors, LockContextMutex(a)
      PROVE  ListInv'
  BY <1>3, ListInvUnchanged DEF LockContextMutex, ctxVars
<1>4. ASSUME NEW a \in Actors, CtxFreed(a)
      PROVE  ListInv'
  BY <1>4, ListInvElsewhere, PlaceFacts DEF CtxFreed, Return, Marked, sockVars
<1>5. ASSUME NEW t \in Threads, NEW c \in Contexts, ContextNew(t, c)
      PROVE  ListInv'
  BY <1>5, ListInvElsewhere, PlaceFacts, ActorFacts DEF ContextNew, Marked, sockVars
<1>6. ASSUME NEW t \in Threads, NEW c \in Contexts, ContextDestroy(t, c)
      PROVE  ListInv'
  BY <1>6, ListInvFreeCtx, ActorFacts DEF ContextDestroy, Marked, sockVars
<1>7. ASSUME NEW t \in Threads, NEW s \in Sockets, SocketClose(t, s)
      PROVE  ListInv'
  <2>1. CASE Abort("null list")
    BY <2>1, ListInvUnchanged DEF Abort, ctxVars
  <2>2. CASE DestroySocket(t, s, "close", Nil, sockets) /\ UNCHANGED sockVars
    <3>1. sockets \in [Contexts -> SUBSET Sockets] /\ sock_value[s] \in Given
      BY <1>7 DEF TypeOK, ContextTypes, SocketClose, Given
    <3>q. QED
      BY <2>2, <3>1, ListInvDestroySocket, PlaceFacts, ActorFacts DEF Marked, sockVars
  <2>q. QED
    BY <1>7, <2>1, <2>2 DEF SocketClose
<1>8. ASSUME NEW t \in Threads, NEW s \in Sockets, FreeSockGc(t, s)
      PROVE  ListInv'
  <2>1. CASE Abort("null list")
    BY <2>1, ListInvUnchanged DEF Abort, ctxVars
  <2>2. CASE DestroySocket(GC, s, "free_sock", Nil, sockets) /\ UNCHANGED sockVars
    <3>1. sockets \in [Contexts -> SUBSET Sockets] /\ sock_value[s] \in Given
      BY <1>8 DEF TypeOK, ContextTypes, FreeSockGc, Given
    <3>q. QED
      BY <2>2, <3>1, ListInvDestroySocket, PlaceFacts, ActorFacts DEF Marked, sockVars
  <2>q. QED
    BY <1>8, <2>1, <2>2 DEF FreeSockGc
<1>9. ASSUME NEW t \in Threads, NEW c \in Contexts, FreeCtxGc(t, c)
      PROVE  ListInv'
  <2>1. CASE UNCHANGED <<sockets, sockVars, callVars>>
    BY <2>1, ListInvUnchanged
  <2>2. CASE FreeCtx(GC, "free_ctx", c) /\ UNCHANGED sockVars
    BY <2>2, ListInvFreeCtx, ActorFacts DEF Marked, sockVars
  <2>q. QED
    BY <1>9, <2>1, <2>2 DEF FreeCtxGc
<1>10. ASSUME \/ \E t \in Threads : EndThread(t)
              \/ \E c \in Contexts : DropContext(c)
              \/ Exit \/ Terminated \/ UNCHANGED vars
       PROVE  ListInv'
  BY <1>10, ListInvUnchanged
     DEF EndThread, DropContext, Exit, Terminated, vars, ctxVars
<1>q. QED
  BY <1>1, <1>2, <1>3, <1>4, <1>5, <1>6, <1>7, <1>8, <1>9, <1>10,
     ListInvNogvlSocketNew, ListInvSocketAlloc, ListInvNogvlZsocketDestroy,
     ListInvMarkDestroyed, ListInvNogvlZctxDestroy, ListInvContextSocket,
     ListInvInterrupt, ListInvDropSocket
     DEF Next, Step, Call, CollectSocket, CollectContext

LEMMA ListInvAlways == Spec => [](TypeOK /\ Frames /\ ListInv)
<1>1. Init => TypeOK /\ Frames /\ ListInv
  <2> SUFFICES ASSUME Init PROVE TypeOK /\ Frames /\ ListInv
    OBVIOUS
  <2>1. TypeOK /\ Frames
    BY InitTypes
  <2>2. FlagsOK /\ ListedOK /\ OpeningOK /\ ClosingOK
    BY DEF Init, FlagsOK, ListedOK, OpeningOK, ClosingOK
  <2>q. QED
    BY <2>1, <2>2 DEF ListInv
<1>2. TypeOK /\ Frames /\ ListInv /\ [Next]_vars => (TypeOK /\ Frames /\ ListInv)'
  BY TypeStep, ListStep
<1>q. QED
  BY <1>1, <1>2, PTL DEF Spec

\* What a context's list holds is safe to pop and close, for any number of
\* threads and sockets and whatever they do to each other (context.c:48).
THEOREM ListsSafe == Spec => []ListedSocketsLive
<1>1. TypeOK /\ Frames /\ ListInv => ListedSocketsLive
  BY DEF ListInv, ListedOK, ListedSocketsLive, Given, TypeOK, ContextTypes
<1>q. QED
  BY <1>1, ListInvAlways, PTL

\* A wrapper that says it is destroyed has no open raw socket left behind it,
\* whatever the program does (context.c:116).
THEOREM FlagHonest == Spec => []FlagMeansClosed
<1>1. TypeOK /\ Frames /\ ListInv => FlagMeansClosed
  BY DEF ListInv, FlagsOK, FlagMeansClosed, TypeOK, SocketTypes
<1>q. QED
  BY <1>1, ListInvAlways, PTL

-----------------------------------------------------------------------------
(***************************************************************************)
(* Discipline                                                              *)
(*                                                                         *)
(* In a disciplined program no raw socket reaches czmq twice, nothing freed*)
(* is used, no open socket is lost, and a destroyed context leaves no socket*)
(* that believes it is open.                                               *)
(*                                                                         *)
(* The argument is about who has a socket in hand.  A wrapper that is not  *)
(* flagged is in its context's list or in the hands of one call, and its   *)
(* context is alive; a context is taken down when nobody but the call that *)
(* does so can have one of its sockets in hand.                            *)
(***************************************************************************)

\* How a program has to use the library, and the VM to run it.
Disciplined == JoinBeforeDestroy /\ FinalizeAtRest /\ ~AsyncInterrupts

-----------------------------------------------------------------------------
(* The inductive invariant, with Frames and ListInv below it               *)

\* Who can be where: a host rests, an ended or exiting thread is idle.
Scheduling ==
  /\ mutex # Nil => pc[mutex] \in Nogvl
  /\ pc[GC] = "idle" <=> host = Nil
  /\ host # Nil => pc[host] \in {"idle", "initialize"} /\ host \notin ended
  /\ \A t \in ended : pc[t] = "idle"
  /\ exiting => \A t \in Threads : pc[t] = "idle"

\* A context is usable from its creation until zctx_destroy returns.
ContextsOK ==
  \A c \in Contexts :
    /\ c \in ctx_destroyed <=> zctx[c] = "destroyed"
    /\ zctx[c] = "live" => c \in lists
    /\ ctx_value[c] = "unused" => zctx[c] = "none"
    /\ ctx_value[c] \in Given => zctx[c] # "none"

\* A wrapper that is not flagged has a live context and is in that context's
\* list, unless a call has it in hand.
SocketsOK ==
  \A s \in Sockets :
    /\ sock_value[s] = "building" =>
         \E a \in Actors : op[a] = "socket" /\ self_sock[a] = s
    /\ sock_value[s] = "freed" => s \in sock_destroyed
    /\ zsock[s] = "none" => ctx_wrapper[s] = Nil
    /\ sock_value[s] \in Given /\ s \notin sock_destroyed =>
         /\ ctx_wrapper[s] \in Contexts /\ zctx[ctx_wrapper[s]] = "live"
         /\ \/ s \in sockets[ctx_wrapper[s]]
            \/ \E a \in Actors : self_sock[a] = s

\* A listed wrapper is open, and in nobody's hands.
ListsOpen ==
  \A c \in Contexts : \A s \in sockets[c] :
    zsock[s] = "open" /\ \A a \in Actors : self_sock[a] # s

\* A socket is in the hands of one call at a time.
OneCallPerSocket ==
  \A a, b \in Actors : self_sock[a] # Nil /\ self_sock[a] = self_sock[b] => a = b

\* What the socket in a call's hands has been through.
SocketInHand(a) ==
  /\ pc[a] = "socket_alloc" => zsock[self_sock[a]] = "open"
  /\ pc[a] \in {"zsocket_destroy", "mark_destroyed"} =>
       /\ sock_value[self_sock[a]] \in Given
       /\ op[a] # "free_sock" => self_sock[a] \notin sock_destroyed
       /\ op[a] = "free_sock" /\ ~exiting => sock_value[self_sock[a]] = "dropped"
       /\ op[a] = "close" => thread[self_sock[a]] = a
       /\ op[a] \in {"destroy", "free_ctx"} =>
            ctx_wrapper[self_sock[a]] = self_ctx[a]
  /\ pc[a] = "zsocket_destroy" =>
       self_sock[a] \notin sock_destroyed /\ zsock[self_sock[a]] = "open"

\* And the context.
ContextInHand(a) ==
  /\ op[a] = "socket" =>
       zctx[self_ctx[a]] = "live" /\ ctx_value[self_ctx[a]] \in Given
  /\ op[a] \in {"destroy", "free_ctx"} =>
       /\ ctx_value[self_ctx[a]] \in Given
       /\ zctx[self_ctx[a]] = IF pc[a] = "ctx_freed" THEN "destroyed" ELSE "live"
  /\ pc[a] = "zctx_destroy" => sockets[self_ctx[a]] = {}
  /\ op[a] = "new" => ctx_value[self_ctx[a]] = "building"
  /\ pc[a] = "zctx_new" => zctx[self_ctx[a]] = "none"
  /\ pc[a] = "initialize" => zctx[self_ctx[a]] = "live"

InHand == \A a \in Actors : SocketInHand(a) /\ ContextInHand(a)

\* A context is under construction by one thread.
OneBuilder ==
  \A t, u \in Threads :
    op[t] = "new" /\ op[u] = "new" /\ self_ctx[t] = self_ctx[u] => t = u

\* ctx.destroy runs alone.
DestroyAlone ==
  \A t \in Threads : op[t] = "destroy" =>
    Threads \ {t} \subseteq ended /\ pc[GC] = "idle"

\* The free callback of a context runs on one that no thread can get at.
FreeCtxAlone ==
  op[GC] = "free_ctx" =>
    /\ ~exiting => ctx_value[self_ctx[GC]] = "dropped"
    /\ \A t \in Threads :
         /\ self_ctx[t] # self_ctx[GC]
         /\ op[t] = "close" => ctx_wrapper[self_sock[t]] # self_ctx[GC]
    /\ \A s \in Sockets :
         ~exiting /\ ctx_wrapper[s] = self_ctx[GC] /\ s \notin sock_destroyed
           => sock_value[s] # "held"

Alone == OneBuilder /\ DestroyAlone /\ FreeCtxAlone

Safe ==
  /\ fault = "none"
  /\ Scheduling
  /\ ContextsOK
  /\ SocketsOK
  /\ ListsOpen
  /\ OneCallPerSocket
  /\ InHand
  /\ Alone
  /\ MapEntryUsable

SafeInv == TypeOK /\ Frames /\ ListInv /\ Safe

-----------------------------------------------------------------------------
(* Reading the frames                                                      *)

\* Which operation is where, and with what in hand.
LEMMA Places ==
  ASSUME TypeOK, Frames, NEW b \in Actors
  PROVE  /\ op[b] = "none" <=> pc[b] = "idle"
         /\ op[b] = "new" <=> pc[b] \in {"zctx_new", "initialize"}
         /\ op[b] = "socket" <=> pc[b] \in {"socket_new", "socket_alloc"}
         /\ op[b] \in {"close", "free_sock"} =>
              pc[b] \in {"zsocket_destroy", "mark_destroyed"}
         /\ op[b] \in {"destroy", "free_ctx"} =>
              pc[b] \in {"zsocket_destroy", "mark_destroyed", "zctx_destroy", "ctx_freed"}
         /\ pc[b] \in {"zsocket_destroy", "mark_destroyed"} =>
              op[b] \in {"close", "free_sock", "destroy", "free_ctx"}
         /\ pc[b] \in {"zctx_destroy", "ctx_freed"} => op[b] \in {"destroy", "free_ctx"}
         /\ op[b] \in {"free_sock", "free_ctx"} => b = GC
         /\ b = GC => op[b] \in {"none", "free_sock", "free_ctx"}
         /\ IF pc[b] \in {"socket_new", "socket_alloc", "zsocket_destroy", "mark_destroyed"}
            THEN self_sock[b] \in Sockets ELSE self_sock[b] = Nil
         /\ IF op[b] \in {"new", "socket", "destroy", "free_ctx"}
            THEN self_ctx[b] \in Contexts ELSE self_ctx[b] = Nil
<1>1. /\ pc[b] \in {"idle", "zctx_new", "initialize", "socket_new", "socket_alloc",
                    "zsocket_destroy", "mark_destroyed", "zctx_destroy", "ctx_freed"}
      /\ op[b] \in {"none", "new", "socket", "close", "destroy", "free_sock", "free_ctx"}
  BY DEF TypeOK, CallTypes, PCs, Ops, Nogvl, Returned
<1>q. QED
  BY <1>1, FrameFacts

\* Actor a moves to `where` and everybody else stays.
Moves(a, where, o, c, s) ==
  /\ pc'[a] = where /\ op'[a] = o /\ self_ctx'[a] = c /\ self_sock'[a] = s
  /\ \A b \in Actors : b # a =>
       /\ pc'[b] = pc[b] /\ op'[b] = op[b]
       /\ self_ctx'[b] = self_ctx[b] /\ self_sock'[b] = self_sock[b]

LEMMA ParkMoves ==
  ASSUME TypeOK, NEW a \in Actors, NEW where, NEW o, NEW c, NEW s,
         Park(a, where, o, c, s)
  PROVE  Moves(a, where, o, c, s)
BY DEF Park, Moves, TypeOK, CallTypes

LEMMA ReturnMoves ==
  ASSUME TypeOK, NEW a \in Actors, Return(a)
  PROVE  Moves(a, "idle", "none", Nil, Nil)
BY ParkMoves DEF Return

\* The facts about types and names most steps need.
LEMMA Ground ==
  ASSUME SafeInv
  PROVE  /\ TypeOK /\ Frames /\ ListInv /\ Safe
         /\ Threads \subseteq Actors /\ GC \in Actors
         /\ \A t \in Threads : t # GC
         /\ Nil \notin Actors /\ Nil \notin Contexts /\ Nil \notin Sockets
         /\ ended \subseteq Threads /\ process_ctx \in Contexts \cup {Nil}
         /\ mutex \in Actors \cup {Nil} /\ host \in Threads \cup {Nil}
         /\ \A c \in Contexts : sockets[c] \subseteq Sockets
BY ActorFacts DEF SafeInv, TypeOK, ProcessTypes, ContextTypes

-----------------------------------------------------------------------------
(* What a step leaves in the other calls' hands                            *)

\* What call b has in hand stays as it is, but that the program may forget it.
Forgotten(old, new) == new = old \/ (old = "held" /\ new = "dropped")

Kept(b) ==
  /\ pc'[b] = pc[b] /\ op'[b] = op[b]
  /\ self_ctx'[b] = self_ctx[b] /\ self_sock'[b] = self_sock[b]
  /\ LET s == self_sock[b]
     IN s \in Sockets =>
          /\ Forgotten(sock_value[s], sock_value'[s])
          /\ zsock'[s] = zsock[s] /\ ctx_wrapper'[s] = ctx_wrapper[s]
          /\ thread'[s] = thread[s]
          /\ (s \in sock_destroyed' <=> s \in sock_destroyed)
  /\ LET c == self_ctx[b]
     IN c \in Contexts =>
          /\ Forgotten(ctx_value[c], ctx_value'[c])
          /\ zctx'[c] = zctx[c] /\ sockets'[c] \subseteq sockets[c]

\* So what holds of the call goes on holding.
LEMMA HandKept ==
  ASSUME SafeInv, exiting => exiting', NEW b \in Actors, Kept(b)
  PROVE  SocketInHand(b)' /\ ContextInHand(b)'
<1>1. SocketInHand(b)'
  BY Ground, Places DEF Safe, InHand, SocketInHand, Kept, Forgotten, Given
<1>2. ContextInHand(b)'
  BY Ground, Places DEF Safe, InHand, ContextInHand, Kept, Forgotten, Given
<1>q. QED
  BY <1>1, <1>2

-----------------------------------------------------------------------------
(* ZMQ::Context.new                                                        *)

LEMMA SafeContextNew ==
  ASSUME SafeInv, NEW t \in Threads, NEW c \in Contexts, ContextNew(t, c)
  PROVE  Safe'
<1>p. Moves(t, "zctx_new", "new", c, Nil)
  BY Ground, ParkMoves DEF ContextNew
<1>v. /\ pc[t] = "idle" /\ t \notin ended /\ host # t /\ ~exiting /\ fault' = "none"
      /\ ctx_value[c] = "unused" /\ ctx_value'[c] = "building"
      /\ \A d \in Contexts : d # c => ctx_value'[d] = ctx_value[d]
      /\ process_ctx = Nil
      /\ UNCHANGED <<process_ctx, zctx, ctx_destroyed, lists, sockets,
                     sock_value, zsock, ctx_wrapper, thread, sock_destroyed,
                     mutex, host, ended, exiting>>
  BY Ground DEF ContextNew, Ready, Alive, TypeOK, ContextTypes, sockVars, procVars
<1>o. \A b \in Actors : self_ctx[b] # c
  BY <1>v, Ground, Places DEF Safe, InHand, ContextInHand, Given
<1>1. Scheduling'
  BY <1>p, <1>v, Ground
     DEF Safe, Moves, Scheduling, Nogvl
<1>2. ContextsOK'
  BY <1>p, <1>v, Ground
     DEF Safe, Moves, ContextsOK, Given
<1>3. SocketsOK'
  BY <1>p, <1>v, Ground, Places
     DEF Safe, Moves, SocketsOK, Given
<1>4. ListsOpen'
  BY <1>p, <1>v, Ground, Places
     DEF Safe, Moves, ListsOpen
<1>5. OneCallPerSocket'
  BY <1>p, <1>v, Ground, Places
     DEF Safe, Moves, OneCallPerSocket
<1>6. InHand'
  <2>1. ASSUME NEW b \in Actors, b # t PROVE SocketInHand(b)' /\ ContextInHand(b)'
    <3>1. Kept(b)
      BY <2>1, <1>p, <1>v, <1>o DEF Moves, Kept, Forgotten
    <3>q. QED
      BY <3>1, <1>v, HandKept
  <2>2. SocketInHand(t)' /\ ContextInHand(t)'
    BY <1>p, <1>v, Ground DEF Safe, ContextsOK, SocketInHand, ContextInHand, Moves
  <2>q. QED
    BY <2>1, <2>2 DEF InHand
<1>7. OneBuilder'
  BY <1>p, <1>v, Ground, <1>o
     DEF Safe, Alone, Moves, OneBuilder
<1>8. DestroyAlone'
  BY <1>p, <1>v, Ground, Places
     DEF Safe, Alone, Moves, DestroyAlone
<1>9. FreeCtxAlone'
  BY <1>p, <1>v, Ground, <1>o, Places
     DEF Safe, Alone, Moves, FreeCtxAlone
<1>10. MapEntryUsable'
  BY <1>p, <1>v, Ground, Places
     DEF Safe, Moves, MapEntryUsable
<1>q. QED
  BY <1>1, <1>2, <1>3, <1>4, <1>5, <1>6, <1>7, <1>8, <1>9, <1>10, <1>v DEF Safe, Alone

LEMMA SafeContextNewFill ==
  ASSUME SafeInv, NEW t \in Actors, ContextNewFill(t)
  PROVE  Safe'
<1> DEFINE c == self_ctx[t]
<1>0. pc[t] = "zctx_new" /\ op[t] = "new" /\ t # GC /\ t \in Threads
      /\ c \in Contexts /\ host # t
  BY Ground, Places DEF ContextNewFill, Parked, Actors
<1>p. Moves(t, "initialize", "new", c, Nil)
  BY Ground, ParkMoves DEF ContextNewFill
<1>v. /\ fault' = "none" /\ ctx_value[c] = "building"
      /\ zctx[c] = "none" /\ zctx'[c] = "live"
      /\ \A d \in Contexts : d # c => zctx'[d] = zctx[d]
      /\ lists' = lists \cup {c}
      /\ UNCHANGED <<process_ctx, ctx_value, ctx_destroyed, sockets,
                     sock_value, zsock, ctx_wrapper, thread, sock_destroyed,
                     mutex, host, ended, exiting>>
  BY <1>0, Ground DEF ContextNewFill, TypeOK, ContextTypes, Safe, InHand,
     ContextInHand, sockVars, procVars
<1>o. \A b \in Actors : b # t => self_ctx[b] # c
  <2>2. ASSUME NEW b \in Actors, b # t, self_ctx[b] = c PROVE b \in Threads /\ op[b] = "new"
    BY <1>v, <2>2, <1>0, Ground, Places DEF Safe, InHand, ContextInHand, Given, Actors
  <2>q. QED
    BY <2>2, <1>0, Ground DEF Safe, Alone, OneBuilder
<1>d. c \notin ctx_destroyed
  BY <1>0, <1>v, Ground DEF Safe, ContextsOK
<1>1. Scheduling'
  BY <1>0, <1>p, <1>v, Ground
     DEF Safe, Moves, Scheduling, Nogvl
<1>2. ContextsOK'
  BY <1>0, <1>p, <1>v, Ground, <1>d
     DEF Safe, Moves, ContextsOK, Given
<1>3. SocketsOK'
  BY <1>0, <1>p, <1>v, Ground, Places
     DEF Safe, Moves, SocketsOK, Given
<1>4. ListsOpen'
  BY <1>0, <1>p, <1>v, Ground, Places
     DEF Safe, Moves, ListsOpen
<1>5. OneCallPerSocket'
  BY <1>0, <1>p, <1>v, Ground, Places
     DEF Safe, Moves, OneCallPerSocket
<1>6. InHand'
  <2>1. ASSUME NEW b \in Actors, b # t PROVE SocketInHand(b)' /\ ContextInHand(b)'
    <3>1. Kept(b)
      BY <2>1, <1>p, <1>v, <1>o DEF Moves, Kept, Forgotten
    <3>q. QED
      BY <3>1, <1>v, HandKept
  <2>2. SocketInHand(t)' /\ ContextInHand(t)'
    BY <1>0, <1>p, <1>v, Ground DEF Safe, InHand, SocketInHand, ContextInHand, Moves
  <2>q. QED
    BY <2>1, <2>2 DEF InHand
<1>7. OneBuilder'
  BY <1>0, <1>p, <1>v, Ground, <1>o
     DEF Safe, Alone, Moves, OneBuilder
<1>8. DestroyAlone'
  BY <1>0, <1>p, <1>v, Ground, Places
     DEF Safe, Alone, Moves, DestroyAlone
<1>9. FreeCtxAlone'
  BY <1>0, <1>p, <1>v, Ground, <1>o, Places
     DEF Safe, Alone, Moves, FreeCtxAlone
<1>10. MapEntryUsable'
  BY <1>0, <1>p, <1>v, Ground, Places, <1>d
     DEF Safe, Moves, MapEntryUsable
<1>q. QED
  BY <1>1, <1>2, <1>3, <1>4, <1>5, <1>6, <1>7, <1>8, <1>9, <1>10, <1>v DEF Safe, Alone

LEMMA SafeContextNewRegister ==
  ASSUME SafeInv, NEW t \in Actors, ContextNewRegister(t)
  PROVE  Safe'
<1> DEFINE c == self_ctx[t]
<1>0. pc[t] = "initialize" /\ op[t] = "new" /\ t # GC /\ t \in Threads
      /\ c \in Contexts /\ host # t
  BY Ground, Places DEF ContextNewRegister, Parked, Actors
<1>p. Moves(t, "idle", "none", Nil, Nil)
  BY Ground, ReturnMoves DEF ContextNewRegister
<1>v. /\ fault' = "none" /\ zctx[c] = "live" /\ ctx_value[c] = "building"
      /\ ctx_value'[c] \in Given
      /\ \A d \in Contexts : d # c => ctx_value'[d] = ctx_value[d]
      /\ process_ctx' = c
      /\ UNCHANGED <<zctx, lists, ctx_destroyed, sockets,
                     sock_value, zsock, ctx_wrapper, thread, sock_destroyed,
                     mutex, host, ended, exiting>>
  BY <1>0, Ground DEF ContextNewRegister, TypeOK, ContextTypes, Safe, InHand,
     ContextInHand, sockVars, procVars, Given
<1>o. \A b \in Actors : b # t => self_ctx[b] # c
  <2>2. ASSUME NEW b \in Actors, b # t, self_ctx[b] = c PROVE b \in Threads /\ op[b] = "new"
    BY <1>v, <2>2, <1>0, Ground, Places DEF Safe, InHand, ContextInHand, Given, Actors
  <2>q. QED
    BY <2>2, <1>0, Ground DEF Safe, Alone, OneBuilder
<1>d. c \notin ctx_destroyed
  BY <1>0, <1>v, Ground DEF Safe, ContextsOK
<1>1. Scheduling'
  BY <1>0, <1>p, <1>v, Ground
     DEF Safe, Moves, Scheduling, Nogvl
<1>2. ContextsOK'
  BY <1>0, <1>p, <1>v, Ground, <1>d
     DEF Safe, Moves, ContextsOK, Given
<1>3. SocketsOK'
  BY <1>0, <1>p, <1>v, Ground, Places
     DEF Safe, Moves, SocketsOK, Given
<1>4. ListsOpen'
  BY <1>0, <1>p, <1>v, Ground, Places
     DEF Safe, Moves, ListsOpen
<1>5. OneCallPerSocket'
  BY <1>0, <1>p, <1>v, Ground, Places
     DEF Safe, Moves, OneCallPerSocket
<1>6. InHand'
  <2>1. ASSUME NEW b \in Actors, b # t PROVE SocketInHand(b)' /\ ContextInHand(b)'
    <3>1. Kept(b)
      BY <2>1, <1>p, <1>v, <1>o DEF Moves, Kept, Forgotten
    <3>q. QED
      BY <3>1, <1>v, HandKept
  <2>2. SocketInHand(t)' /\ ContextInHand(t)'
    BY <1>p DEF SocketInHand, ContextInHand, Moves
  <2>q. QED
    BY <2>1, <2>2 DEF InHand
<1>7. OneBuilder'
  BY <1>0, <1>p, <1>v, Ground, <1>o
     DEF Safe, Alone, Moves, OneBuilder
<1>8. DestroyAlone'
  BY <1>0, <1>p, <1>v, Ground, Places
     DEF Safe, Alone, Moves, DestroyAlone
<1>9. FreeCtxAlone'
  BY <1>0, <1>p, <1>v, Ground, <1>o, Places
     DEF Safe, Alone, Moves, FreeCtxAlone
<1>10. MapEntryUsable'
  BY <1>0, <1>p, <1>v, Ground, Places, <1>d
     DEF Safe, Moves, MapEntryUsable, Given
<1>q. QED
  BY <1>1, <1>2, <1>3, <1>4, <1>5, <1>6, <1>7, <1>8, <1>9, <1>10, <1>v DEF Safe, Alone

-----------------------------------------------------------------------------
(* ctx.socket                                                              *)

LEMMA SafeContextSocket ==
  ASSUME SafeInv, NEW t \in Threads, NEW c \in Contexts, NEW s \in Sockets,
         ContextSocket(t, c, s)
  PROVE  Safe'
<1>p. Moves(t, "socket_new", "socket", c, s)
  BY Ground, ParkMoves DEF ContextSocket
<1>v. /\ pc[t] = "idle" /\ t \notin ended /\ host # t /\ ~exiting /\ fault' = "none"
      /\ ctx_value[c] = "held" /\ sock_value[s] = "unused" /\ sock_value'[s] = "building"
      /\ \A r \in Sockets : r # s => sock_value'[r] = sock_value[r]
      /\ UNCHANGED <<process_ctx, ctx_value, zctx, ctx_destroyed, lists, sockets,
                     zsock, ctx_wrapper, thread, sock_destroyed,
                     mutex, host, ended, exiting>>
  BY Ground DEF ContextSocket, Ready, Alive, TypeOK, SocketTypes, ctxVars, procVars
<1>l. zctx[c] = "live"
  <2>1. c \notin ctx_destroyed
    BY DEF ContextSocket
  <2>q. QED
    BY <2>1, <1>v, Ground DEF Safe, ContextsOK, Given, TypeOK, ContextTypes
<1>h. \A b \in Actors : self_sock[b] # s
  BY <1>v, Ground, Places, InHandPlaces DEF Safe, InHand, SocketInHand, Given
<1>1. Scheduling'
  BY <1>p, <1>v, Ground
     DEF Safe, Moves, Scheduling, Nogvl
<1>2. ContextsOK'
  BY <1>p, <1>v, Ground
     DEF Safe, Moves, ContextsOK, Given
<1>3. SocketsOK'
  BY <1>p, <1>v, Ground, <1>h, Places
     DEF Safe, Moves, SocketsOK, Given
<1>4. ListsOpen'
  <2>1. \A d \in Contexts : s \notin sockets[d]
    BY <1>v, Ground DEF ListInv, ListedOK, Given
  <2>q. QED
    BY <2>1, <1>p, <1>v, Ground DEF Safe, ListsOpen, Moves
<1>5. OneCallPerSocket'
  BY <1>p, <1>v, Ground, <1>h, Places
     DEF Safe, Moves, OneCallPerSocket
<1>6. InHand'
  <2>1. ASSUME NEW b \in Actors, b # t PROVE SocketInHand(b)' /\ ContextInHand(b)'
    <3>1. Kept(b)
      BY <2>1, <1>p, <1>v, <1>h DEF Moves, Kept, Forgotten
    <3>q. QED
      BY <3>1, <1>v, HandKept
  <2>2. SocketInHand(t)' /\ ContextInHand(t)'
    BY <1>p, <1>v, <1>l, Ground DEF SocketInHand, ContextInHand, Moves, Given
  <2>q. QED
    BY <2>1, <2>2 DEF InHand
<1>7. OneBuilder'
  BY <1>p, <1>v, Ground, Places
     DEF Safe, Alone, Moves, OneBuilder
<1>8. DestroyAlone'
  BY <1>p, <1>v, Ground, Places
     DEF Safe, Alone, Moves, DestroyAlone
<1>9. FreeCtxAlone'
  BY <1>p, <1>v, Ground, Places
     DEF Safe, Alone, Moves, FreeCtxAlone
<1>10. MapEntryUsable'
  BY <1>p, <1>v, Ground, Places
     DEF Safe, Moves, MapEntryUsable
<1>q. QED
  BY <1>1, <1>2, <1>3, <1>4, <1>5, <1>6, <1>7, <1>8, <1>9, <1>10, <1>v DEF Safe, Alone

LEMMA SafeNogvlSocketNew ==
  ASSUME SafeInv, NEW t \in Actors, NogvlSocketNew(t)
  PROVE  Safe'
<1> DEFINE c == self_ctx[t]
<1> DEFINE s == self_sock[t]
<1>0. /\ pc[t] = "socket_new" /\ op[t] = "socket" /\ t # GC /\ t \in Threads
      /\ c \in Contexts /\ s \in Sockets /\ host # t /\ mutex = t
      /\ zctx[c] = "live" /\ sock_value[s] = "building"
  BY Ground, Places, InHandPlaces DEF NogvlSocketNew, Parked, Actors, Safe, InHand,
     ContextInHand
<1>p. Moves(t, "socket_alloc", "socket", c, s)
  BY <1>0, Ground, ParkMoves DEF NogvlSocketNew
<1>v. /\ fault' = "none" /\ mutex' = Nil
      /\ zsock'[s] = "open" /\ ctx_wrapper'[s] = c
      /\ \A r \in Sockets : r # s =>
           zsock'[r] = zsock[r] /\ ctx_wrapper'[r] = ctx_wrapper[r]
      /\ UNCHANGED <<process_ctx, ctx_value, zctx, ctx_destroyed, lists, sockets,
                     sock_value, thread, sock_destroyed, host, ended, exiting>>
  BY <1>0, Ground DEF NogvlSocketNew, UnlockContextMutex, Safe, TypeOK, SocketTypes,
     ctxVars, procVars
<1>h. \A b \in Actors : self_sock[b] = s => b = t
  BY <1>0, Ground DEF Safe, OneCallPerSocket
<1>l. \A d \in Contexts : s \notin sockets[d]
  BY <1>0, Ground DEF ListInv, ListedOK, Given
<1>1. Scheduling'
  BY <1>0, <1>p, <1>v, Ground
     DEF Safe, Moves, Scheduling, Nogvl
<1>2. ContextsOK'
  BY <1>0, <1>p, <1>v, Ground
     DEF Safe, Moves, ContextsOK, Given
<1>3. SocketsOK'
  BY <1>0, <1>p, <1>v, Ground, <1>l, Places
     DEF Safe, Moves, SocketsOK, Given
<1>4. ListsOpen'
  BY <1>0, <1>p, <1>v, Ground, <1>l, <1>h
     DEF Safe, Moves, ListsOpen
<1>5. OneCallPerSocket'
  BY <1>0, <1>p, <1>v, Ground, <1>h, Places
     DEF Safe, Moves, OneCallPerSocket
<1>6. InHand'
  <2>1. ASSUME NEW b \in Actors, b # t PROVE SocketInHand(b)' /\ ContextInHand(b)'
    <3>1. Kept(b)
      BY <2>1, <1>p, <1>v, <1>h DEF Moves, Kept, Forgotten
    <3>q. QED
      BY <3>1, <1>v, HandKept
  <2>2. SocketInHand(t)' /\ ContextInHand(t)'
    BY <1>0, <1>p, <1>v, Ground DEF Safe, InHand, SocketInHand, ContextInHand, Moves
  <2>q. QED
    BY <2>1, <2>2 DEF InHand
<1>7. OneBuilder'
  BY <1>0, <1>p, <1>v, Ground, Places
     DEF Safe, Alone, Moves, OneBuilder
<1>8. DestroyAlone'
  BY <1>0, <1>p, <1>v, Ground, Places
     DEF Safe, Alone, Moves, DestroyAlone
<1>9. FreeCtxAlone'
  BY <1>0, <1>p, <1>v, Ground, <1>h, Places
     DEF Safe, Alone, Moves, FreeCtxAlone
<1>10. MapEntryUsable'
  BY <1>0, <1>p, <1>v, Ground, Places
     DEF Safe, Moves, MapEntryUsable
<1>q. QED
  BY <1>1, <1>2, <1>3, <1>4, <1>5, <1>6, <1>7, <1>8, <1>9, <1>10, <1>v DEF Safe, Alone

LEMMA SafeSocketAlloc ==
  ASSUME SafeInv, NEW t \in Actors, SocketAlloc(t)
  PROVE  Safe'
<1> DEFINE c == self_ctx[t]
<1> DEFINE s == self_sock[t]
<1>0. /\ pc[t] = "socket_alloc" /\ op[t] = "socket" /\ t # GC /\ t \in Threads
      /\ c \in Contexts /\ s \in Sockets /\ host # t
      /\ zctx[c] = "live" /\ sock_value[s] = "building" /\ zsock[s] = "open"
      /\ ctx_wrapper[s] = c /\ s \notin sock_destroyed
  BY Ground, Places, InHandPlaces DEF SocketAlloc, Parked, Actors, Safe, InHand,
     ContextInHand, SocketInHand, ListInv, OpeningOK, FlagsOK
<1>d. c \notin ctx_destroyed
  BY <1>0, Ground DEF Safe, ContextsOK
<1>p. Moves(t, "idle", "none", Nil, Nil)
  BY <1>0, Ground, ReturnMoves DEF SocketAlloc
<1>v. /\ fault' = "none"
      /\ sock_value'[s] = "held" /\ thread'[s] = t
      /\ \A r \in Sockets : r # s =>
           sock_value'[r] = sock_value[r] /\ thread'[r] = thread[r]
      /\ sockets'[c] = sockets[c] \cup {s}
      /\ \A d \in Contexts : d # c => sockets'[d] = sockets[d]
      /\ UNCHANGED <<process_ctx, ctx_value, zctx, ctx_destroyed, lists,
                     zsock, ctx_wrapper, sock_destroyed, mutex, host, ended, exiting>>
  BY <1>0, <1>d, Ground DEF SocketAlloc, Safe, TypeOK, SocketTypes, ContextTypes,
     procVars
<1>h. \A b \in Actors : self_sock[b] = s => b = t
  BY <1>0, Ground DEF Safe, OneCallPerSocket
<1>o. \A b \in Actors : op[b] \in {"destroy", "free_ctx"} => self_ctx[b] # c
  BY <1>0, Ground, Places DEF Safe, Scheduling, Alone, DestroyAlone, FreeCtxAlone, Actors
<1>1. Scheduling'
  BY <1>0, <1>p, <1>v, Ground
     DEF Safe, Moves, Scheduling, Nogvl
<1>2. ContextsOK'
  BY <1>0, <1>p, <1>v, Ground
     DEF Safe, Moves, ContextsOK, Given
<1>3. SocketsOK'
  BY <1>0, <1>p, <1>v, Ground, <1>h, Places
     DEF Safe, Moves, SocketsOK, Given
<1>4. ListsOpen'
  BY <1>0, <1>p, <1>v, Ground, <1>h, Places
     DEF Safe, Moves, ListsOpen
<1>5. OneCallPerSocket'
  BY <1>0, <1>p, <1>v, Ground, <1>h, Places
     DEF Safe, Moves, OneCallPerSocket
<1>6. InHand'
  <2>1. ASSUME NEW b \in Actors, b # t, op[b] \in {"destroy", "free_ctx"}
        PROVE  SocketInHand(b)' /\ ContextInHand(b)'
    <3>1. Kept(b)
      BY <2>1, <1>p, <1>v, <1>h, <1>o DEF Moves, Kept, Forgotten
    <3>q. QED
      BY <3>1, <1>v, HandKept
  <2>2. ASSUME NEW b \in Actors, b # t, op[b] \notin {"destroy", "free_ctx"}
        PROVE  SocketInHand(b)' /\ ContextInHand(b)'
    BY <2>2, <1>p, <1>v, <1>h, Ground, Places
       DEF Safe, InHand, SocketInHand, ContextInHand, Moves
  <2>3. SocketInHand(t)' /\ ContextInHand(t)'
    BY <1>p DEF SocketInHand, ContextInHand, Moves
  <2>q. QED
    BY <2>1, <2>2, <2>3 DEF InHand
<1>7. OneBuilder'
  BY <1>0, <1>p, <1>v, Ground, Places
     DEF Safe, Alone, Moves, OneBuilder
<1>8. DestroyAlone'
  BY <1>0, <1>p, <1>v, Ground, Places
     DEF Safe, Alone, Moves, DestroyAlone
<1>9. FreeCtxAlone'
  BY <1>0, <1>p, <1>v, Ground, <1>h, <1>o, Places
     DEF Safe, Alone, Moves, FreeCtxAlone
<1>10. MapEntryUsable'
  BY <1>0, <1>p, <1>v, Ground, Places
     DEF Safe, Moves, MapEntryUsable
<1>q. QED
  BY <1>1, <1>2, <1>3, <1>4, <1>5, <1>6, <1>7, <1>8, <1>9, <1>10, <1>v DEF Safe, Alone

-----------------------------------------------------------------------------
(* Closing a socket                                                        *)

\* Nobody has the socket in hand: an idle creator is not closing it, ctx.destroy
\* runs alone, and a free callback has only what no handle refers to.
LEMMA SafeSocketClose ==
  ASSUME SafeInv, NEW t \in Threads, NEW s \in Sockets, SocketClose(t, s)
  PROVE  Safe'
<1> DEFINE c == ctx_wrapper[s]
<1>0. /\ pc[t] = "idle" /\ t \notin ended /\ host # t /\ ~exiting
      /\ sock_value[s] = "held" /\ s \notin sock_destroyed /\ thread[s] = t
  BY DEF SocketClose, Ready
<1>c. c \in Contexts /\ zctx[c] = "live" /\ c \in lists
  BY <1>0, Ground DEF Safe, SocketsOK, ContextsOK, Given
<1>h. \A b \in Actors : self_sock[b] # s
  <2> SUFFICES ASSUME NEW b \in Actors, self_sock[b] = s PROVE FALSE
    OBVIOUS
  <2>1. pc[b] \in {"zsocket_destroy", "mark_destroyed"} /\ b # t
    BY <1>0, Ground, Places, InHandPlaces
  <2>2. CASE op[b] = "close"
    BY <2>1, <2>2, <1>0, Ground DEF Safe, InHand, SocketInHand
  <2>3. CASE op[b] = "free_sock"
    BY <2>1, <2>3, <1>0, Ground DEF Safe, InHand, SocketInHand
  <2>4. CASE op[b] = "destroy"
    BY <2>1, <2>4, <1>0, Ground, Places DEF Safe, Alone, DestroyAlone, Actors
  <2>5. CASE op[b] = "free_ctx"
    BY <2>1, <2>5, <1>0, Ground, Places
       DEF Safe, InHand, SocketInHand, Alone, FreeCtxAlone
  <2>q. QED
    BY <2>1, <2>2, <2>3, <2>4, <2>5, Ground, Places
<1>l. s \in sockets[c] /\ zsock[s] = "open"
  BY <1>0, <1>c, <1>h, Ground DEF Safe, SocketsOK, ListsOpen, Given
<1>p. Moves(t, "zsocket_destroy", "close", Nil, s)
  BY <1>0, <1>c, Ground, ParkMoves DEF SocketClose, DestroySocket
<1>v. /\ fault' = "none"
      /\ sockets'[c] = sockets[c] \ {s}
      /\ \A d \in Contexts : d # c => sockets'[d] = sockets[d]
      /\ UNCHANGED <<process_ctx, ctx_value, zctx, ctx_destroyed, lists,
                     sock_value, zsock, ctx_wrapper, thread, sock_destroyed,
                     mutex, host, ended, exiting>>
  BY <1>0, <1>c, Ground DEF SocketClose, DestroySocket, Safe, TypeOK, ContextTypes,
     sockVars, procVars
<1>n. \A d \in Contexts : s \notin sockets'[d]
  BY <1>c, <1>v, Ground DEF ListInv, ListedOK
<1>1. Scheduling'
  BY <1>0, <1>p, <1>v, Ground
     DEF Safe, Moves, Scheduling, Nogvl
<1>2. ContextsOK'
  BY <1>0, <1>p, <1>v, Ground
     DEF Safe, Moves, ContextsOK, Given
<1>3. SocketsOK'
  BY <1>0, <1>p, <1>v, Ground, <1>h, Places
     DEF Safe, Moves, SocketsOK, Given
<1>4. ListsOpen'
  BY <1>0, <1>p, <1>v, Ground, <1>n
     DEF Safe, Moves, ListsOpen
<1>5. OneCallPerSocket'
  BY <1>0, <1>p, <1>v, Ground, <1>h, Places
     DEF Safe, Moves, OneCallPerSocket
<1>6. InHand'
  <2>1. ASSUME NEW b \in Actors, b # t PROVE SocketInHand(b)' /\ ContextInHand(b)'
    <3>1. Kept(b)
      BY <2>1, <1>p, <1>v, <1>h DEF Moves, Kept, Forgotten
    <3>q. QED
      BY <3>1, <1>v, HandKept
  <2>2. SocketInHand(t)' /\ ContextInHand(t)'
    BY <1>0, <1>p, <1>v, <1>l DEF SocketInHand, ContextInHand, Moves, Given
  <2>q. QED
    BY <2>1, <2>2 DEF InHand
<1>7. OneBuilder'
  BY <1>0, <1>p, <1>v, Ground, Places
     DEF Safe, Alone, Moves, OneBuilder
<1>8. DestroyAlone'
  BY <1>0, <1>p, <1>v, Ground, Places
     DEF Safe, Alone, Moves, DestroyAlone
<1>9. FreeCtxAlone'
  <2>1. op[GC] = "free_ctx" => c # self_ctx[GC]
    BY <1>0, Ground DEF Safe, Alone, FreeCtxAlone
  <2>q. QED
    BY <2>1, <1>0, <1>p, <1>v, Ground, Places DEF Safe, Alone, FreeCtxAlone, Moves
<1>10. MapEntryUsable'
  BY <1>0, <1>p, <1>v, Ground, Places
     DEF Safe, Moves, MapEntryUsable
<1>q. QED
  BY <1>1, <1>2, <1>3, <1>4, <1>5, <1>6, <1>7, <1>8, <1>9, <1>10, <1>v DEF Safe, Alone

LEMMA SafeNogvlZsocketDestroy ==
  ASSUME SafeInv, NEW a \in Actors, NogvlZsocketDestroy(a)
  PROVE  Safe'
<1> DEFINE s == self_sock[a]
<1>0. /\ pc[a] = "zsocket_destroy" /\ s \in Sockets /\ host # a /\ mutex = a
      /\ sock_value[s] \in Given /\ s \notin sock_destroyed /\ zsock[s] = "open"
  BY Ground, Places DEF NogvlZsocketDestroy, Parked, Safe, InHand, SocketInHand
<1>c. ctx_wrapper[s] \in Contexts /\ zctx[ctx_wrapper[s]] = "live"
  BY <1>0, Ground DEF Safe, SocketsOK
<1>p. Moves(a, "mark_destroyed", op[a], self_ctx[a], s)
  BY <1>0, <1>c, Ground, ParkMoves DEF NogvlZsocketDestroy, Given
<1>v. /\ fault' = "none" /\ mutex' = Nil
      /\ zsock'[s] = "closed"
      /\ \A r \in Sockets : r # s => zsock'[r] = zsock[r]
      /\ UNCHANGED <<process_ctx, ctx_value, zctx, ctx_destroyed, lists, sockets,
                     sock_value, ctx_wrapper, thread, sock_destroyed,
                     host, ended, exiting>>
  BY <1>0, <1>c, Ground DEF NogvlZsocketDestroy, UnlockContextMutex, Safe, TypeOK,
     SocketTypes, ctxVars, procVars, Given
<1>h. \A b \in Actors : self_sock[b] = s => b = a
  BY <1>0, Ground DEF Safe, OneCallPerSocket
<1>l. \A d \in Contexts : s \notin sockets[d]
  BY <1>0, Ground DEF ListInv, ClosingOK
<1>1. Scheduling'
  BY <1>0, <1>p, <1>v, Ground
     DEF Safe, Moves, Scheduling, Nogvl
<1>2. ContextsOK'
  BY <1>0, <1>p, <1>v, Ground
     DEF Safe, Moves, ContextsOK, Given
<1>3. SocketsOK'
  BY <1>0, <1>p, <1>v, Ground, <1>h, Places
     DEF Safe, Moves, SocketsOK, Given
<1>4. ListsOpen'
  BY <1>0, <1>p, <1>v, Ground, <1>l
     DEF Safe, Moves, ListsOpen
<1>5. OneCallPerSocket'
  BY <1>0, <1>p, <1>v, Ground, <1>h, Places
     DEF Safe, Moves, OneCallPerSocket
<1>6. InHand'
  <2>1. ASSUME NEW b \in Actors, b # a PROVE SocketInHand(b)' /\ ContextInHand(b)'
    <3>1. Kept(b)
      BY <2>1, <1>p, <1>v, <1>h DEF Moves, Kept, Forgotten
    <3>q. QED
      BY <3>1, <1>v, HandKept
  <2>2. SocketInHand(a)' /\ ContextInHand(a)'
    BY <1>0, <1>p, <1>v, Ground, Places
       DEF Safe, InHand, SocketInHand, ContextInHand, Moves, Given
  <2>q. QED
    BY <2>1, <2>2 DEF InHand
<1>7. OneBuilder'
  BY <1>0, <1>p, <1>v, Ground, Places
     DEF Safe, Alone, Moves, OneBuilder
<1>8. DestroyAlone'
  BY <1>0, <1>p, <1>v, Ground, Places
     DEF Safe, Alone, Moves, DestroyAlone
<1>9. FreeCtxAlone'
  BY <1>0, <1>p, <1>v, Ground, Places
     DEF Safe, Alone, Moves, FreeCtxAlone
<1>10. MapEntryUsable'
  BY <1>0, <1>p, <1>v, Ground, Places
     DEF Safe, Moves, MapEntryUsable
<1>q. QED
  BY <1>1, <1>2, <1>3, <1>4, <1>5, <1>6, <1>7, <1>8, <1>9, <1>10, <1>v DEF Safe, Alone

\* One turn of the loop over a context's list takes an open socket that nobody
\* has in hand, or goes on to zctx_destroy when there is none.
LEMMA Popping ==
  ASSUME SafeInv, NEW a \in Actors, NEW o, NEW c \in Contexts, FreeCtx(a, o, c)
  PROVE  \/ /\ sockets[c] = {} /\ sockets' = sockets
            /\ Moves(a, "zctx_destroy", o, c, Nil)
         \/ \E s \in Sockets :
              /\ Moves(a, "zsocket_destroy", o, c, s)
              /\ s \in sockets[c] /\ ctx_wrapper[s] = c /\ zsock[s] = "open"
              /\ sock_value[s] \in Given /\ s \notin sock_destroyed
              /\ \A b \in Actors : self_sock[b] # s
              /\ sockets'[c] = sockets[c] \ {s}
              /\ \A d \in Contexts : d # c => sockets'[d] = sockets[d]
              /\ \A d \in Contexts : s \notin sockets'[d]
<1>1. CASE sockets[c] = {}
  BY <1>1, Ground, ParkMoves DEF FreeCtx
<1>2. CASE sockets[c] # {}
  <2>1. PICK s \in sockets[c] :
          DestroySocket(a, s, o, c, [sockets EXCEPT ![c] = @ \ {s}])
    BY <1>2 DEF FreeCtx
  <2>2. /\ s \in Sockets /\ ctx_wrapper[s] = c /\ zsock[s] = "open"
        /\ sock_value[s] \in Given /\ s \notin sock_destroyed
        /\ \A b \in Actors : self_sock[b] # s
        /\ sockets \in [Contexts -> SUBSET Sockets]
    BY Ground DEF ListInv, ListedOK, Safe, ListsOpen, TypeOK, ContextTypes
  <2>3. Moves(a, "zsocket_destroy", o, c, s)
    BY <2>1, <2>2, Ground, ParkMoves DEF DestroySocket
  <2>4. /\ sockets'[c] = sockets[c] \ {s}
        /\ \A d \in Contexts : d # c => sockets'[d] = sockets[d]
    BY <2>1, <2>2 DEF DestroySocket
  <2>5. \A d \in Contexts : s \notin sockets'[d]
    BY <2>2, <2>4, Ground DEF ListInv, ListedOK
  <2>q. QED
    BY <2>2, <2>3, <2>4, <2>5
<1>q. QED
  BY <1>1, <1>2

\* What such a turn preserves, whoever runs it: ctx.destroy, the free callback of
\* a context, or either after it has marked the socket of the turn before.
LEMMA PoppingSafe ==
  ASSUME SafeInv, NEW a \in Actors, NEW o \in {"destroy", "free_ctx"},
         NEW c \in Contexts, FreeCtx(a, o, c),
         ctx_value[c] \in Given, zctx[c] = "live",
         \/ pc[a] = "idle" /\ UNCHANGED sock_destroyed
         \/ /\ pc[a] = "mark_destroyed"
            /\ sock_destroyed' = sock_destroyed \cup {self_sock[a]},
         UNCHANGED <<process_ctx, ctx_value, zctx, ctx_destroyed, lists,
                     sock_value, zsock, ctx_wrapper, thread, exiting>>
  PROVE  /\ ContextsOK' /\ SocketsOK' /\ ListsOpen' /\ OneCallPerSocket'
         /\ InHand' /\ OneBuilder' /\ MapEntryUsable'
<1>m. /\ \A b \in Actors : b # a =>
           /\ pc'[b] = pc[b] /\ op'[b] = op[b]
           /\ self_ctx'[b] = self_ctx[b] /\ self_sock'[b] = self_sock[b]
      /\ op'[a] = o /\ self_ctx'[a] = c
      /\ \A d \in Contexts : sockets'[d] \subseteq sockets[d]
  BY Popping, Ground DEF Moves
<1>e. \/ /\ sockets[c] = {} /\ sockets' = sockets
         /\ pc'[a] = "zctx_destroy" /\ self_sock'[a] = Nil
      \/ \E s \in Sockets :
           /\ pc'[a] = "zsocket_destroy" /\ self_sock'[a] = s
           /\ s \in sockets[c] /\ ctx_wrapper[s] = c /\ zsock[s] = "open"
           /\ sock_value[s] \in Given /\ s \notin sock_destroyed
           /\ \A b \in Actors : self_sock[b] # s
           /\ sockets'[c] = sockets[c] \ {s}
           /\ \A d \in Contexts : d # c => sockets'[d] = sockets[d]
           /\ \A d \in Contexts : s \notin sockets'[d]
  BY Popping DEF Moves
<1>h. \A b \in Actors : b # a /\ self_sock[b] \in Sockets =>
        (self_sock[b] \in sock_destroyed' <=> self_sock[b] \in sock_destroyed)
  BY Ground DEF Safe, OneCallPerSocket
<1>l. \A d \in Contexts, s \in Sockets :
        s \in sockets[d] /\ s \notin sockets'[d] => self_sock'[a] = s
  BY <1>e
<1>1. ContextsOK'
  BY Ground DEF Safe, ContextsOK
<1>2. SocketsOK'
  <2>1. ASSUME NEW s \in Sockets, sock_value[s] = "building"
        PROVE  \E b \in Actors : op'[b] = "socket" /\ self_sock'[b] = s
    <3>1. PICK b \in Actors : op[b] = "socket" /\ self_sock[b] = s
      BY <2>1, Ground DEF Safe, SocketsOK
    <3>2. b # a
      BY <3>1, Ground, Places
    <3>q. QED
      BY <3>1, <3>2, <1>m
  <2>2. ASSUME NEW s \in Sockets, sock_value[s] \in Given, s \notin sock_destroyed'
        PROVE  /\ ctx_wrapper[s] \in Contexts /\ zctx[ctx_wrapper[s]] = "live"
               /\ \/ s \in sockets'[ctx_wrapper[s]]
                  \/ \E b \in Actors : self_sock'[b] = s
    <3>1. /\ ctx_wrapper[s] \in Contexts /\ zctx[ctx_wrapper[s]] = "live"
          /\ \/ s \in sockets[ctx_wrapper[s]]
             \/ \E b \in Actors : self_sock[b] = s
      BY <2>2, Ground DEF Safe, SocketsOK
    <3>2. self_sock[a] # s
      BY <2>2, Ground, Places
    <3>q. QED
      BY <3>1, <3>2, <1>m, <1>l
  <2>q. QED
    BY <2>1, <2>2, Ground DEF Safe, SocketsOK
<1>3. ListsOpen'
  <2>1. ASSUME NEW d \in Contexts, NEW s \in sockets'[d], NEW b \in Actors
        PROVE  zsock[s] = "open" /\ self_sock'[b] # s
    <3>1. s \in sockets[d] /\ s \in Sockets
      BY <2>1, <1>m, Ground
    <3>2. zsock[s] = "open" /\ self_sock[b] # s
      BY <3>1, Ground DEF Safe, ListsOpen
    <3>3. b = a => self_sock'[b] # s
      BY <2>1, <3>1, <1>e, Ground
    <3>q. QED
      BY <3>2, <3>3, <1>m
  <2>q. QED
    BY <2>1 DEF ListsOpen
<1>4. OneCallPerSocket'
  <2>1. ASSUME NEW b \in Actors, b # a, self_sock'[a] # Nil
        PROVE  self_sock'[b] # self_sock'[a]
    BY <2>1, <1>m, <1>e
  <2>q. QED
    BY <2>1, <1>m, Ground DEF Safe, OneCallPerSocket
<1>5. InHand'
  <2>1. ASSUME NEW b \in Actors, b # a PROVE SocketInHand(b)' /\ ContextInHand(b)'
    <3>1. Kept(b)
      BY <2>1, <1>m, <1>h DEF Kept, Forgotten
    <3>q. QED
      BY <3>1, HandKept
  <2>2. SocketInHand(a)' /\ ContextInHand(a)'
    <3>1. self_sock'[a] \in Sockets => self_sock'[a] # self_sock[a]
      BY <1>e, Ground
    <3>q. QED
      BY <3>1, <1>m, <1>e, Ground DEF SocketInHand, ContextInHand
  <2>q. QED
    BY <2>1, <2>2 DEF InHand
<1>6. OneBuilder'
  BY <1>m, Ground DEF Safe, Alone, OneBuilder
<1>7. MapEntryUsable'
  BY <1>m, Ground DEF Safe, MapEntryUsable
<1>q. QED
  BY <1>1, <1>2, <1>3, <1>4, <1>5, <1>6, <1>7

-----------------------------------------------------------------------------
(* ctx.destroy, and zctx_destroy for the free callback too                 *)

LEMMA SafeContextDestroy ==
  ASSUME Disciplined, SafeInv, NEW t \in Threads, NEW c \in Contexts,
         ContextDestroy(t, c)
  PROVE  Safe'
<1>0. /\ pc[t] = "idle" /\ t \notin ended /\ host # t /\ ~exiting
      /\ ctx_value[c] = "held" /\ c \notin ctx_destroyed
      /\ FreeCtx(t, "destroy", c) /\ fault' = "none"
      /\ UNCHANGED <<process_ctx, ctx_value, zctx, ctx_destroyed, lists,
                     sock_value, zsock, ctx_wrapper, thread, sock_destroyed,
                     mutex, host, ended, exiting>>
  BY DEF ContextDestroy, Ready, Alive, sockVars, procVars
<1>c. zctx[c] = "live"
  BY <1>0, Ground DEF Safe, ContextsOK, Given, TypeOK, ContextTypes
<1>j. Threads \ {t} \subseteq ended /\ host = Nil /\ pc[GC] = "idle"
  <2>1. Threads \ {t} \subseteq ended
    BY DEF ContextDestroy, Disciplined
  <2>q. QED
    BY <2>1, <1>0, Ground DEF Safe, Scheduling
<1>p. /\ \A b \in Actors : b # t => pc'[b] = pc[b] /\ op'[b] = op[b]
      /\ op'[t] = "destroy"
  BY <1>0, Popping, Ground DEF Moves
<1>1. /\ ContextsOK' /\ SocketsOK' /\ ListsOpen' /\ OneCallPerSocket'
      /\ InHand' /\ OneBuilder' /\ MapEntryUsable'
  BY <1>0, <1>c, PoppingSafe, Ground DEF Given
<1>2. Scheduling'
  BY <1>0, <1>j, <1>p, Ground DEF Safe, Scheduling, Nogvl
<1>3. DestroyAlone'
  BY <1>0, <1>j, <1>p, Ground, Places DEF Safe, Scheduling, DestroyAlone
<1>4. FreeCtxAlone'
  BY <1>j, <1>p, Ground, Places DEF FreeCtxAlone
<1>q. QED
  BY <1>0, <1>1, <1>2, <1>3, <1>4 DEF Safe, Alone

\* When zctx_destroy runs, nobody else can have the context or one of its
\* sockets in hand.
LEMMA ZctxDestroyAlone ==
  ASSUME SafeInv, NEW a \in Actors, pc[a] = "zctx_destroy"
  PROVE  \A b \in Actors : b # a =>
           /\ self_ctx[b] # self_ctx[a]
           /\ self_sock[b] \in Sockets => ctx_wrapper[self_sock[b]] # self_ctx[a]
<1> DEFINE c == self_ctx[a]
<1>0. /\ op[a] \in {"destroy", "free_ctx"} /\ (a = GC \/ op[a] = "destroy")
      /\ c \in Contexts
  BY Ground, Places
<1> SUFFICES ASSUME NEW b \in Actors, b # a
             PROVE  /\ self_ctx[b] # c
                    /\ self_sock[b] \in Sockets => ctx_wrapper[self_sock[b]] # c
  OBVIOUS
<1>1. CASE op[a] = "destroy"
  <2>1. pc[b] = "idle"
    BY <1>1, <1>0, Ground, Places DEF Safe, Scheduling, Alone, DestroyAlone, Actors
  <2>q. QED
    BY <2>1, <1>0, Ground, Places
<1>2. CASE op[a] = "free_ctx"
  <2>1. a = GC /\ b \in Threads
    BY <1>2, <1>0, Ground, Places DEF Actors
  <2>2. self_ctx[b] # c /\ (op[b] = "close" => ctx_wrapper[self_sock[b]] # c)
    BY <1>2, <2>1, Ground DEF Safe, Alone, FreeCtxAlone
  <2>3. op[b] # "destroy"
    BY <2>1, <1>0, Ground DEF Safe, Alone, DestroyAlone
  <2>4. CASE op[b] = "socket"
    <3>1. pc[b] = "socket_new" => ctx_wrapper[self_sock[b]] = Nil
      BY <2>4, Ground, Places DEF ListInv, OpeningOK, Safe, SocketsOK
    <3>2. pc[b] = "socket_alloc" => ctx_wrapper[self_sock[b]] = self_ctx[b]
      BY Ground DEF ListInv, OpeningOK
    <3>q. QED
      BY <2>2, <2>4, <3>1, <3>2, <1>0, Ground, Places
  <2>q. QED
    BY <2>1, <2>2, <2>3, <2>4, Ground, Places
<1>q. QED
  BY <1>1, <1>2, <1>0

LEMMA SafeNogvlZctxDestroy ==
  ASSUME SafeInv, NEW a \in Actors, NogvlZctxDestroy(a)
  PROVE  Safe'
<1> DEFINE c == self_ctx[a]
<1>0. /\ pc[a] = "zctx_destroy" /\ op[a] \in {"destroy", "free_ctx"}
      /\ a = GC \/ op[a] = "destroy"
      /\ c \in Contexts /\ self_sock[a] = Nil /\ host # a /\ mutex = a
      /\ ctx_value[c] \in Given /\ zctx[c] = "live" /\ sockets[c] = {}
  BY Ground, Places DEF NogvlZctxDestroy, Parked, Safe, InHand, ContextInHand
<1>p. Moves(a, "ctx_freed", op[a], c, Nil)
  BY <1>0, Ground, ParkMoves DEF NogvlZctxDestroy
<1>v. /\ fault' = "none" /\ mutex' = Nil
      /\ zctx'[c] = "destroyed" /\ \A d \in Contexts : d # c => zctx'[d] = zctx[d]
      /\ ctx_destroyed' = ctx_destroyed \cup {c}
      /\ \A s \in Sockets : ctx_wrapper[s] # c => zsock'[s] = zsock[s]
      /\ \A s \in Sockets : zsock'[s] = "none" => zsock[s] = "none"
      /\ UNCHANGED <<process_ctx, ctx_value, lists, sockets, sock_value,
                     ctx_wrapper, thread, sock_destroyed, host, ended, exiting>>
  BY <1>0, Ground DEF NogvlZctxDestroy, UnlockContextMutex, Safe, TypeOK, ContextTypes,
     procVars
<1>o. \A b \in Actors : b # a =>
        /\ self_ctx[b] # c
        /\ self_sock[b] \in Sockets => ctx_wrapper[self_sock[b]] # c
  BY <1>0, ZctxDestroyAlone
<1>n. \A s \in Sockets :
        sock_value[s] \in Given /\ s \notin sock_destroyed => ctx_wrapper[s] # c
  BY <1>0, <1>o, Ground DEF Safe, SocketsOK
<1>l. \A d \in Contexts : \A s \in sockets[d] : s \in Sockets /\ ctx_wrapper[s] # c
  BY <1>0, Ground DEF ListInv, ListedOK
<1>1. Scheduling'
  BY <1>0, <1>p, <1>v, Ground
     DEF Safe, Moves, Scheduling, Nogvl
<1>2. ContextsOK'
  BY <1>0, <1>p, <1>v, Ground
     DEF Safe, Moves, ContextsOK, Given
<1>3. SocketsOK'
  <2>1. ASSUME NEW s \in Sockets, NEW b \in Actors, self_sock[b] = s
        PROVE  self_sock'[b] = s /\ op'[b] = op[b]
    BY <2>1, <1>0, <1>p, Ground DEF Moves
  <2>2. ASSUME NEW s \in Sockets, sock_value[s] \in Given, s \notin sock_destroyed
        PROVE  /\ ctx_wrapper[s] \in Contexts /\ zctx'[ctx_wrapper[s]] = "live"
               /\ \/ s \in sockets[ctx_wrapper[s]]
                  \/ \E b \in Actors : self_sock'[b] = s
    BY <2>1, <2>2, <1>n, <1>v, Ground DEF Safe, SocketsOK
  <2>3. ASSUME NEW s \in Sockets, sock_value[s] = "building"
        PROVE  \E b \in Actors : op'[b] = "socket" /\ self_sock'[b] = s
    BY <2>1, <2>3, Ground DEF Safe, SocketsOK
  <2>q. QED
    BY <2>2, <2>3, <1>v, Ground DEF Safe, SocketsOK
<1>4. ListsOpen'
  <2>1. ASSUME NEW d \in Contexts, NEW s \in sockets[d], NEW b \in Actors
        PROVE  zsock'[s] = "open" /\ self_sock'[b] # s
    BY <1>0, <1>p, <1>v, <1>l, Ground DEF Safe, ListsOpen, Moves
  <2>q. QED
    BY <2>1, <1>v DEF ListsOpen
<1>5. OneCallPerSocket'
  BY <1>0, <1>p, <1>v, Ground, Places
     DEF Safe, Moves, OneCallPerSocket
<1>6. InHand'
  <2>1. ASSUME NEW b \in Actors, b # a PROVE SocketInHand(b)' /\ ContextInHand(b)'
    <3>1. Kept(b)
      BY <2>1, <1>p, <1>v, <1>o DEF Moves, Kept, Forgotten
    <3>q. QED
      BY <3>1, <1>v, HandKept
  <2>2. SocketInHand(a)' /\ ContextInHand(a)'
    BY <1>0, <1>p, <1>v DEF SocketInHand, ContextInHand, Moves
  <2>q. QED
    BY <2>1, <2>2 DEF InHand
<1>7. OneBuilder'
  BY <1>0, <1>p, <1>v, Ground, Places
     DEF Safe, Alone, Moves, OneBuilder
<1>8. DestroyAlone'
  BY <1>0, <1>p, <1>v, Ground, Places
     DEF Safe, Alone, Moves, DestroyAlone
<1>9. FreeCtxAlone'
  BY <1>0, <1>p, <1>v, Ground, Places
     DEF Safe, Alone, Moves, FreeCtxAlone
<1>10. MapEntryUsable'
  <2>1. pc'[a] = "ctx_freed" /\ self_ctx'[a] = c
    BY <1>p DEF Moves
  <2>2. \A b \in Actors : pc[b] = "ctx_freed" =>
          pc'[b] = "ctx_freed" /\ self_ctx'[b] = self_ctx[b]
    BY <1>0, <1>p DEF Moves
  <2>q. QED
    BY <2>1, <2>2, <1>0, <1>v, Ground DEF Safe, MapEntryUsable
<1>q. QED
  BY <1>1, <1>2, <1>3, <1>4, <1>5, <1>6, <1>7, <1>8, <1>9, <1>10, <1>v DEF Safe, Alone

LEMMA SafeCtxFreed ==
  ASSUME SafeInv, NEW a \in Actors, CtxFreed(a)
  PROVE  Safe'
<1> DEFINE c == self_ctx[a]
<1>0. /\ pc[a] = "ctx_freed" /\ op[a] \in {"destroy", "free_ctx"}
      /\ a = GC <=> op[a] = "free_ctx"
      /\ c \in Contexts /\ self_sock[a] = Nil /\ host # a
      /\ ctx_value[c] \in Given /\ zctx[c] = "destroyed"
  BY Ground, Places DEF CtxFreed, Parked, Safe, InHand, ContextInHand, Actors
<1>p. Moves(a, "idle", "none", Nil, Nil)
  BY <1>0, Ground, ReturnMoves DEF CtxFreed
<1>v. /\ fault' = "none" /\ process_ctx' = Nil
      /\ lists' = lists \ {c}
      /\ \A d \in Contexts : d # c => ctx_value'[d] = ctx_value[d]
      /\ IF op[a] = "free_ctx" THEN ctx_value'[c] = "freed" /\ host' = Nil
                               ELSE ctx_value' = ctx_value /\ host' = host
      /\ UNCHANGED <<zctx, ctx_destroyed, sockets, sock_value, zsock, ctx_wrapper,
                     thread, sock_destroyed, mutex, ended, exiting>>
  BY <1>0, Ground DEF CtxFreed, Unregister, Safe, TypeOK, ContextTypes, sockVars, procVars
<1>o. op[a] = "free_ctx" => \A b \in Actors : b # a => self_ctx[b] # c
  BY <1>0, Ground DEF Safe, Alone, FreeCtxAlone, Actors
<1>1. Scheduling'
  BY <1>0, <1>p, <1>v, Ground
     DEF Safe, Moves, Scheduling, Nogvl
<1>2. ContextsOK'
  BY <1>0, <1>p, <1>v, Ground
     DEF Safe, Moves, ContextsOK, Given
<1>3. SocketsOK'
  BY <1>0, <1>p, <1>v, Ground, Places
     DEF Safe, Moves, SocketsOK, Given
<1>4. ListsOpen'
  BY <1>0, <1>p, <1>v, Ground
     DEF Safe, Moves, ListsOpen
<1>5. OneCallPerSocket'
  BY <1>0, <1>p, <1>v, Ground, Places
     DEF Safe, Moves, OneCallPerSocket
<1>6. InHand'
  <2>1. ASSUME NEW b \in Actors, b # a PROVE SocketInHand(b)' /\ ContextInHand(b)'
    <3>1. Kept(b)
      BY <2>1, <1>0, <1>p, <1>v, <1>o DEF Moves, Kept, Forgotten
    <3>q. QED
      BY <3>1, <1>v, HandKept
  <2>2. SocketInHand(a)' /\ ContextInHand(a)'
    BY <1>p DEF SocketInHand, ContextInHand, Moves
  <2>q. QED
    BY <2>1, <2>2 DEF InHand
<1>7. OneBuilder'
  BY <1>0, <1>p, <1>v, Ground, Places
     DEF Safe, Alone, Moves, OneBuilder
<1>8. DestroyAlone'
  BY <1>0, <1>p, <1>v, Ground, Places
     DEF Safe, Alone, Moves, DestroyAlone
<1>9. FreeCtxAlone'
  BY <1>0, <1>p, <1>v, Ground, Places
     DEF Safe, Alone, Moves, FreeCtxAlone
<1>10. MapEntryUsable'
  BY <1>0, <1>p, <1>v, Ground
     DEF Safe, Moves, MapEntryUsable
<1>q. QED
  BY <1>1, <1>2, <1>3, <1>4, <1>5, <1>6, <1>7, <1>8, <1>9, <1>10, <1>v DEF Safe, Alone

-----------------------------------------------------------------------------
(* The end of a socket's destruction                                       *)

LEMMA SafeMarkDestroyed ==
  ASSUME SafeInv, NEW a \in Actors, MarkDestroyed(a)
  PROVE  Safe'
<1> DEFINE s == self_sock[a]
<1>0. /\ pc[a] = "mark_destroyed" /\ s \in Sockets /\ host # a /\ fault = "none"
      /\ op[a] \in {"close", "free_sock", "destroy", "free_ctx"}
      /\ a = GC <=> op[a] \in {"free_sock", "free_ctx"}
      /\ sock_value[s] \in Given /\ zsock[s] = "closed"
      /\ op[a] \in {"destroy", "free_ctx"} =>
           /\ self_ctx[a] \in Contexts /\ self_ctx[a] \in lists
           /\ ctx_value[self_ctx[a]] \in Given /\ zctx[self_ctx[a]] = "live"
  BY Ground, Places DEF MarkDestroyed, Parked, Safe, InHand, SocketInHand,
     ContextInHand, ContextsOK, ListInv, ClosingOK, Actors
<1>1. /\ fault' = "none" /\ sock_destroyed' = sock_destroyed \cup {s}
      /\ IF op[a] \in {"destroy", "free_ctx"}
         THEN FreeCtx(a, op[a], self_ctx[a])
         ELSE Return(a) /\ UNCHANGED sockets
      /\ IF op[a] = "free_sock"
         THEN sock_value' = [sock_value EXCEPT ![s] = "freed"] /\ host' = Nil
         ELSE UNCHANGED <<sock_value, host>>
      /\ UNCHANGED <<process_ctx, ctx_value, zctx, ctx_destroyed, lists,
                     zsock, ctx_wrapper, thread, mutex, ended, exiting>>
  BY <1>0 DEF MarkDestroyed, procVars, Given
<1>2. CASE op[a] \in {"destroy", "free_ctx"}
  <2>p. /\ \A b \in Actors : b # a =>
             /\ pc'[b] = pc[b] /\ op'[b] = op[b]
             /\ self_ctx'[b] = self_ctx[b] /\ self_sock'[b] = self_sock[b]
        /\ pc'[a] \in {"zctx_destroy", "zsocket_destroy"}
        /\ op'[a] = op[a] /\ self_ctx'[a] = self_ctx[a]
    BY <1>0, <1>1, <1>2, Popping DEF Moves
  <2>1. /\ ContextsOK' /\ SocketsOK' /\ ListsOpen' /\ OneCallPerSocket'
        /\ InHand' /\ OneBuilder' /\ MapEntryUsable'
    BY <1>0, <1>1, <1>2, PoppingSafe
  <2>2. Scheduling'
    BY <1>0, <1>1, <1>2, <2>p, Ground DEF Safe, Scheduling, Nogvl
  <2>3. DestroyAlone'
    BY <1>0, <1>1, <1>2, <2>p, Ground, Places DEF Safe, Alone, DestroyAlone, Actors
  <2>4. FreeCtxAlone'
    BY <1>0, <1>1, <1>2, <2>p, Ground, Places DEF Safe, Alone, FreeCtxAlone
  <2>q. QED
    BY <1>1, <2>1, <2>2, <2>3, <2>4 DEF Safe, Alone
<1>3. CASE op[a] \in {"close", "free_sock"}
  <2>p. Moves(a, "idle", "none", Nil, Nil)
    BY <1>1, <1>3, Ground, ReturnMoves
  <2>v. /\ fault' = "none" /\ sock_destroyed' = sock_destroyed \cup {s}
        /\ \A r \in Sockets : r # s => sock_value'[r] = sock_value[r]
        /\ sock_value'[s] \in Given \cup {"freed"}
        /\ sock_value[s] # "held" => sock_value'[s] # "held"
        /\ host' = IF a = GC THEN Nil ELSE host
        /\ UNCHANGED <<process_ctx, ctx_value, zctx, ctx_destroyed, lists, sockets,
                       zsock, ctx_wrapper, thread, mutex, ended, exiting>>
    BY <1>0, <1>1, <1>3, Ground DEF TypeOK, SocketTypes, Given
  <2>h. \A b \in Actors : self_sock[b] = s => b = a
    BY <1>0, Ground DEF Safe, OneCallPerSocket
  <2>1. Scheduling'
    BY <1>0, <2>p, <2>v, Ground
       DEF Safe, Moves, Scheduling, Nogvl
  <2>2. ContextsOK'
    BY <1>0, <2>p, <2>v, Ground
       DEF Safe, Moves, ContextsOK, Given
  <2>3. SocketsOK'
    BY <1>0, <2>p, <2>v, Ground, <2>h, Places
       DEF Safe, Moves, SocketsOK, Given
  <2>4. ListsOpen'
    BY <1>0, <2>p, <2>v, Ground
       DEF Safe, Moves, ListsOpen
  <2>5. OneCallPerSocket'
    BY <1>0, <2>p, <2>v, Ground, Places
       DEF Safe, Moves, OneCallPerSocket
  <2>6. InHand'
    <3>1. ASSUME NEW b \in Actors, b # a PROVE SocketInHand(b)' /\ ContextInHand(b)'
      <4>1. Kept(b)
        BY <3>1, <1>0, <2>p, <2>v, <2>h DEF Moves, Kept, Forgotten
      <4>q. QED
        BY <4>1, <2>v, HandKept
    <3>2. SocketInHand(a)' /\ ContextInHand(a)'
      BY <2>p DEF SocketInHand, ContextInHand, Moves
    <3>q. QED
      BY <3>1, <3>2 DEF InHand
  <2>7. OneBuilder'
    BY <1>0, <2>p, <2>v, Ground, Places
       DEF Safe, Alone, Moves, OneBuilder
  <2>8. DestroyAlone'
    BY <1>0, <2>p, <2>v, Ground, <1>3, Places
       DEF Safe, Alone, Moves, DestroyAlone
  <2>9. FreeCtxAlone'
    BY <1>0, <2>p, <2>v, Ground, <1>3, Places
       DEF Safe, Alone, Moves, FreeCtxAlone
  <2>10. MapEntryUsable'
    BY <1>0, <2>p, <2>v, Ground, Places
       DEF Safe, Moves, MapEntryUsable
  <2>q. QED
    BY <2>1, <2>2, <2>3, <2>4, <2>5, <2>6, <2>7, <2>8, <2>9, <2>10, <2>v DEF Safe, Alone
<1>q. QED
  BY <1>0, <1>2, <1>3

-----------------------------------------------------------------------------
(* Garbage collection                                                      *)

LEMMA SafeFreeSockGc ==
  ASSUME Disciplined, SafeInv, NEW t \in Threads, NEW s \in Sockets,
         FreeSockGc(t, s)
  PROVE  Safe'
<1> DEFINE c == ctx_wrapper[s]
<1>0. /\ pc[GC] = "idle" /\ pc[t] \in {"idle", "initialize"} /\ t \notin ended
      /\ sock_value[s] \in Given /\ ~SocketReachable(s) /\ fault = "none"
  BY DEF FreeSockGc, MayHost, Disciplined, Alive, Given
<1>c. s \notin sock_destroyed => c \in Contexts /\ zctx[c] = "live" /\ c \in lists
  BY <1>0, Ground DEF Safe, SocketsOK, ContextsOK
<1>h. \A b \in Actors : self_sock[b] # s
  <2> SUFFICES ASSUME NEW b \in Actors, self_sock[b] = s PROVE FALSE
    OBVIOUS
  <2>1. pc[b] \in {"zsocket_destroy", "mark_destroyed"} /\ b # GC /\ b \in Threads
    BY <1>0, Ground, Places, InHandPlaces DEF Given, Actors
  <2>2. ~exiting
    BY <2>1, Ground DEF Safe, Scheduling
  <2>3. CASE op[b] = "close"
    BY <2>1, <2>2, <2>3, <1>0 DEF SocketReachable
  <2>4. CASE op[b] = "destroy"
    BY <2>1, <2>4, <1>0, Ground, Places DEF Safe, Alone, DestroyAlone
  <2>q. QED
    BY <2>1, <2>3, <2>4, Ground, Places
<1>g. DestroySocket(GC, s, "free_sock", Nil, sockets) /\ host' = t /\ fault' = "none"
      /\ UNCHANGED <<process_ctx, ctx_value, zctx, ctx_destroyed, lists,
                     sock_value, zsock, ctx_wrapper, thread, sock_destroyed,
                     mutex, ended, exiting>>
  BY <1>0, <1>c DEF FreeSockGc, sockVars, procVars
<1>l. s \notin sock_destroyed => s \in sockets[c] /\ zsock[s] = "open"
  BY <1>0, <1>c, <1>h, Ground DEF Safe, SocketsOK, ListsOpen
<1>p. Moves(GC, IF s \in sock_destroyed THEN "mark_destroyed" ELSE "zsocket_destroy",
            "free_sock", Nil, s)
  BY <1>g, Ground, ParkMoves DEF DestroySocket
<1>v. /\ fault' = "none" /\ host' = t
      /\ \A d \in Contexts : sockets'[d] = sockets[d] \ {s}
      /\ UNCHANGED <<process_ctx, ctx_value, zctx, ctx_destroyed, lists,
                     sock_value, zsock, ctx_wrapper, thread, sock_destroyed,
                     mutex, ended, exiting>>
  <2>1. \A d \in Contexts : s \in sockets[d] => s \notin sock_destroyed /\ d = c
    BY Ground DEF ListInv, ListedOK
  <2>q. QED
    BY <2>1, <1>g, <1>c, Ground DEF DestroySocket, TypeOK, ContextTypes
<1>1. Scheduling'
  BY <1>0, <1>p, <1>v, Ground
     DEF Safe, Moves, Scheduling, Nogvl
<1>2. ContextsOK'
  BY <1>0, <1>p, <1>v, Ground
     DEF Safe, Moves, ContextsOK, Given
<1>3. SocketsOK'
  BY <1>0, <1>p, <1>v, Ground, <1>h, Places
     DEF Safe, Moves, SocketsOK, Given
<1>4. ListsOpen'
  BY <1>0, <1>p, <1>v, Ground
     DEF Safe, Moves, ListsOpen
<1>5. OneCallPerSocket'
  BY <1>0, <1>p, <1>v, Ground, <1>h, Places
     DEF Safe, Moves, OneCallPerSocket
<1>6. InHand'
  <2>1. ASSUME NEW b \in Actors, b # GC PROVE SocketInHand(b)' /\ ContextInHand(b)'
    <3>1. Kept(b)
      BY <2>1, <1>p, <1>v, <1>h DEF Moves, Kept, Forgotten
    <3>q. QED
      BY <3>1, <1>v, HandKept
  <2>2. SocketInHand(GC)' /\ ContextInHand(GC)'
    BY <1>0, <1>p, <1>v, <1>l DEF SocketInHand, ContextInHand, Moves, Given, SocketReachable
  <2>q. QED
    BY <2>1, <2>2 DEF InHand
<1>7. OneBuilder'
  BY <1>0, <1>p, <1>v, Ground, Places
     DEF Safe, Alone, Moves, OneBuilder
<1>8. DestroyAlone'
  BY <1>0, <1>p, <1>v, Ground, Places
     DEF Safe, Alone, Moves, DestroyAlone
<1>9. FreeCtxAlone'
  BY <1>0, <1>p, <1>v, Ground, Places
     DEF Safe, Alone, Moves, FreeCtxAlone
<1>10. MapEntryUsable'
  BY <1>0, <1>p, <1>v, Ground, Places
     DEF Safe, Moves, MapEntryUsable
<1>q. QED
  BY <1>1, <1>2, <1>3, <1>4, <1>5, <1>6, <1>7, <1>8, <1>9, <1>10, <1>v DEF Safe, Alone

LEMMA SafeFreeCtxGc ==
  ASSUME Disciplined, SafeInv, NEW t \in Threads, NEW c \in Contexts,
         FreeCtxGc(t, c)
  PROVE  Safe'
<1>0. /\ pc[GC] = "idle" /\ pc[t] \in {"idle", "initialize"} /\ t \notin ended
      /\ ctx_value[c] \in Given /\ ~ContextReachable(c) /\ fault = "none"
  BY DEF FreeCtxGc, MayHost, Disciplined, Alive, Given
<1>n. /\ \A u \in Threads : op[u] # "destroy"
      /\ \A b \in Actors : self_ctx[b] # c
      /\ exiting => \A b \in Actors : pc[b] = "idle"
  <2>1. exiting => \A b \in Actors : pc[b] = "idle"
    BY <1>0, Ground DEF Safe, Scheduling, Actors
  <2>2. \A u \in Threads : op[u] # "destroy"
    BY <1>0, Ground, Places DEF Safe, Alone, DestroyAlone
  <2>3. \A b \in Actors : self_ctx[b] # c
    BY <2>1, <1>0, Ground, Places DEF ContextReachable, Actors
  <2>q. QED
    BY <2>1, <2>2, <2>3
<1>1. CASE zctx[c] = "live" /\ c \notin ctx_destroyed
  <2>1. /\ FreeCtx(GC, "free_ctx", c) /\ host' = t /\ fault' = "none"
        /\ UNCHANGED <<process_ctx, ctx_value, zctx, ctx_destroyed, lists,
                       sock_value, zsock, ctx_wrapper, thread, sock_destroyed,
                       mutex, ended, exiting>>
    BY <1>0, <1>1 DEF FreeCtxGc, sockVars, procVars
  <2>p. /\ \A b \in Actors : b # GC =>
             /\ pc'[b] = pc[b] /\ op'[b] = op[b]
             /\ self_ctx'[b] = self_ctx[b] /\ self_sock'[b] = self_sock[b]
        /\ pc'[GC] \in {"zctx_destroy", "zsocket_destroy"}
        /\ op'[GC] = "free_ctx" /\ self_ctx'[GC] = c
    BY <2>1, Popping, Ground DEF Moves
  <2>2. /\ ContextsOK' /\ SocketsOK' /\ ListsOpen' /\ OneCallPerSocket'
        /\ InHand' /\ OneBuilder' /\ MapEntryUsable'
    BY <1>0, <1>1, <2>1, PoppingSafe, Ground
  <2>3. Scheduling'
    BY <1>0, <2>1, <2>p, Ground DEF Safe, Scheduling, Nogvl
  <2>4. DestroyAlone'
    BY <1>n, <2>p, Ground DEF DestroyAlone
  <2>5. FreeCtxAlone'
    <3>1. ~exiting => ctx_value[c] = "dropped"
      BY <1>0 DEF ContextReachable, Given
    <3>2. ASSUME NEW u \in Threads, op[u] = "close"
          PROVE  ctx_wrapper[self_sock[u]] # c
      <4>1. /\ self_sock[u] \in Sockets /\ self_sock[u] \notin sock_destroyed
            /\ ~exiting
        BY <3>2, <1>n, Ground, Places DEF Safe, InHand, SocketInHand
      <4>q. QED
        BY <4>1, <3>2, <1>0 DEF ContextReachable, SocketReachable
    <3>3. ASSUME NEW s \in Sockets, ~exiting, ctx_wrapper[s] = c, s \notin sock_destroyed
          PROVE  sock_value[s] # "held"
      BY <3>3, <1>0 DEF ContextReachable, SocketReachable
    <3>q. QED
      BY <3>1, <3>2, <3>3, <1>n, <2>1, <2>p, Ground DEF FreeCtxAlone
  <2>q. QED
    BY <2>1, <2>2, <2>3, <2>4, <2>5 DEF Safe, Alone
<1>2. CASE ~(zctx[c] = "live" /\ c \notin ctx_destroyed)
  <2>d. zctx[c] = "destroyed" /\ c \in ctx_destroyed
    BY <1>0, <1>2, Ground DEF Safe, ContextsOK, TypeOK, ContextTypes
  <2>v. /\ fault' = "none" /\ ctx_value'[c] = "freed"
        /\ \A d \in Contexts : d # c => ctx_value'[d] = ctx_value[d]
        /\ UNCHANGED <<process_ctx, zctx, ctx_destroyed, lists, sockets,
                       sock_value, zsock, ctx_wrapper, thread, sock_destroyed,
                       pc, op, self_ctx, self_sock, mutex, host, ended, exiting>>
    BY <1>0, <1>2, Ground DEF FreeCtxGc, TypeOK, ContextTypes, sockVars, procVars, callVars
  <2>m. process_ctx # c
    BY <2>d, <1>0, <1>n, Ground DEF ContextReachable, Safe, MapEntryUsable
  <2>1. Scheduling'
    BY <2>d, <2>v, Ground
       DEF Safe, Alone, Scheduling, Nogvl
  <2>2. ContextsOK'
    BY <2>d, <2>v, Ground
       DEF Safe, Alone, ContextsOK, Given
  <2>3. SocketsOK'
    BY <2>d, <2>v, Ground
       DEF Safe, Alone, SocketsOK, Given
  <2>4. ListsOpen'
    BY <2>d, <2>v, Ground
       DEF Safe, Alone, ListsOpen
  <2>5. OneCallPerSocket'
    BY <2>d, <2>v, Ground
       DEF Safe, Alone, OneCallPerSocket
  <2>6. InHand'
    <3>1. ASSUME NEW b \in Actors PROVE Kept(b)
      BY <3>1, <1>n, <2>v DEF Kept, Forgotten
    <3>q. QED
      BY <3>1, <2>v, HandKept DEF InHand
  <2>7. OneBuilder'
    BY <2>d, <2>v, Ground
       DEF Safe, Alone, OneBuilder
  <2>8. DestroyAlone'
    BY <2>d, <2>v, Ground
       DEF Safe, Alone, DestroyAlone
  <2>9. FreeCtxAlone'
    BY <2>d, <2>v, Ground, <1>n, Places
       DEF Safe, Alone, FreeCtxAlone
  <2>10. MapEntryUsable'
    BY <2>d, <2>v, Ground, <2>m
       DEF Safe, Alone, MapEntryUsable
  <2>q. QED
    BY <2>1, <2>2, <2>3, <2>4, <2>5, <2>6, <2>7, <2>8, <2>9, <2>10, <2>v DEF Safe, Alone
<1>q. QED
  BY <1>1, <1>2

-----------------------------------------------------------------------------
(* The program, the VM and context_mutex                                   *)

LEMMA SafeDropSocket ==
  ASSUME SafeInv, NEW s \in Sockets, DropSocket(s)
  PROVE  Safe'
<1>v. /\ fault' = "none" /\ sock_value[s] = "held" /\ sock_value'[s] = "dropped"
      /\ \A r \in Sockets : r # s => sock_value'[r] = sock_value[r]
      /\ UNCHANGED <<process_ctx, ctx_value, zctx, ctx_destroyed, lists, sockets,
                     zsock, ctx_wrapper, thread, sock_destroyed,
                     pc, op, self_ctx, self_sock, mutex, host, ended, exiting>>
  BY Ground DEF DropSocket, Alive, TypeOK, SocketTypes, ctxVars, procVars, callVars
<1>1. Scheduling'
  BY <1>v, Ground
     DEF Safe, Alone, Scheduling, Nogvl
<1>2. ContextsOK'
  BY <1>v, Ground
     DEF Safe, Alone, ContextsOK, Given
<1>3. SocketsOK'
  BY <1>v, Ground
     DEF Safe, Alone, SocketsOK, Given
<1>4. ListsOpen'
  BY <1>v, Ground
     DEF Safe, Alone, ListsOpen
<1>5. OneCallPerSocket'
  BY <1>v, Ground
     DEF Safe, Alone, OneCallPerSocket
<1>6. InHand'
  <2>1. ASSUME NEW b \in Actors PROVE Kept(b)
    BY <2>1, <1>v DEF Kept, Forgotten
  <2>q. QED
    BY <2>1, <1>v, HandKept DEF InHand
<1>7. OneBuilder'
  BY <1>v, Ground
     DEF Safe, Alone, OneBuilder
<1>8. DestroyAlone'
  BY <1>v, Ground
     DEF Safe, Alone, DestroyAlone
<1>9. FreeCtxAlone'
  BY <1>v, Ground, Places
     DEF Safe, Alone, FreeCtxAlone
<1>10. MapEntryUsable'
  BY <1>v, Ground
     DEF Safe, Alone, MapEntryUsable
<1>q. QED
  BY <1>1, <1>2, <1>3, <1>4, <1>5, <1>6, <1>7, <1>8, <1>9, <1>10, <1>v DEF Safe, Alone

LEMMA SafeDropContext ==
  ASSUME SafeInv, NEW c \in Contexts, DropContext(c)
  PROVE  Safe'
<1>v. /\ fault' = "none" /\ ctx_value[c] = "held" /\ ctx_value'[c] = "dropped"
      /\ \A d \in Contexts : d # c => ctx_value'[d] = ctx_value[d]
      /\ UNCHANGED <<process_ctx, zctx, ctx_destroyed, lists, sockets,
                     sock_value, zsock, ctx_wrapper, thread, sock_destroyed,
                     pc, op, self_ctx, self_sock, mutex, host, ended, exiting>>
  BY Ground DEF DropContext, Alive, TypeOK, ContextTypes, sockVars, procVars, callVars
<1>1. Scheduling'
  BY <1>v, Ground
     DEF Safe, Alone, Scheduling, Nogvl
<1>2. ContextsOK'
  BY <1>v, Ground
     DEF Safe, Alone, ContextsOK, Given
<1>3. SocketsOK'
  BY <1>v, Ground
     DEF Safe, Alone, SocketsOK, Given
<1>4. ListsOpen'
  BY <1>v, Ground
     DEF Safe, Alone, ListsOpen
<1>5. OneCallPerSocket'
  BY <1>v, Ground
     DEF Safe, Alone, OneCallPerSocket
<1>6. InHand'
  <2>1. ASSUME NEW b \in Actors PROVE Kept(b)
    BY <2>1, <1>v DEF Kept, Forgotten
  <2>q. QED
    BY <2>1, <1>v, HandKept DEF InHand
<1>7. OneBuilder'
  BY <1>v, Ground
     DEF Safe, Alone, OneBuilder
<1>8. DestroyAlone'
  BY <1>v, Ground
     DEF Safe, Alone, DestroyAlone
<1>9. FreeCtxAlone'
  BY <1>v, Ground, Places
     DEF Safe, Alone, FreeCtxAlone
<1>10. MapEntryUsable'
  BY <1>v, Ground
     DEF Safe, Alone, MapEntryUsable
<1>q. QED
  BY <1>1, <1>2, <1>3, <1>4, <1>5, <1>6, <1>7, <1>8, <1>9, <1>10, <1>v DEF Safe, Alone

LEMMA SafeScheduling ==
  ASSUME SafeInv,
         \/ \E a \in Actors : LockContextMutex(a)
         \/ \E t \in Threads : EndThread(t)
         \/ Exit \/ UNCHANGED vars
  PROVE  Safe'
<1>v. /\ fault' = "none" /\ (exiting => exiting')
      /\ UNCHANGED <<process_ctx, ctx_value, zctx, ctx_destroyed, lists, sockets,
                     sock_value, zsock, ctx_wrapper, thread, sock_destroyed,
                     pc, op, self_ctx, self_sock, host>>
  BY Ground DEF Safe, LockContextMutex, EndThread, Exit, vars, ctxVars, sockVars,
     procVars, callVars, Alive, Ready
<1>e. ended \subseteq ended'
  BY DEF LockContextMutex, EndThread, Exit, vars, procVars
<1>m. mutex' = mutex \/ (mutex' \in Actors /\ pc[mutex'] \in Nogvl)
  BY DEF LockContextMutex, EndThread, Exit, vars, Parked
<1>t. /\ exiting' => \A t \in Threads : pc[t] = "idle"
      /\ \A t \in ended' : pc[t] = "idle"
      /\ host \notin ended'
  BY Ground DEF Safe, Scheduling, LockContextMutex, EndThread, Exit, vars, procVars,
     Ready, Actors
<1>1. Scheduling'
  BY <1>v, <1>m, <1>t, Ground DEF Safe, Scheduling
<1>2. ContextsOK'
  BY <1>v, Ground
     DEF Safe, Alone, ContextsOK, Given
<1>3. SocketsOK'
  BY <1>v, Ground
     DEF Safe, Alone, SocketsOK, Given
<1>4. ListsOpen'
  BY <1>v, Ground
     DEF Safe, Alone, ListsOpen
<1>5. OneCallPerSocket'
  BY <1>v, Ground
     DEF Safe, Alone, OneCallPerSocket
<1>6. InHand'
  <2>1. ASSUME NEW b \in Actors PROVE Kept(b)
    BY <2>1, <1>v DEF Kept, Forgotten
  <2>q. QED
    BY <2>1, <1>v, HandKept DEF InHand
<1>7. OneBuilder'
  BY <1>v, Ground
     DEF Safe, Alone, OneBuilder
<1>8. DestroyAlone'
  BY <1>v, Ground, <1>e
     DEF Safe, Alone, DestroyAlone
<1>9. FreeCtxAlone'
  BY <1>v, Ground, Places
     DEF Safe, Alone, FreeCtxAlone
<1>10. MapEntryUsable'
  BY <1>v, Ground
     DEF Safe, Alone, MapEntryUsable
<1>q. QED
  BY <1>1, <1>2, <1>3, <1>4, <1>5, <1>6, <1>7, <1>8, <1>9, <1>10, <1>v DEF Safe, Alone

-----------------------------------------------------------------------------
(* The theorems                                                            *)

LEMMA SafeStep ==
  ASSUME Disciplined, SafeInv, [Next]_vars
  PROVE  SafeInv'
<1>1. TypeOK' /\ Frames' /\ ListInv'
  BY Ground, TypeStep, ListStep
<1>2. ASSUME NEW t \in Threads, Interrupt(t) PROVE FALSE
  BY <1>2 DEF Interrupt, Disciplined
<1>3. Safe'
  BY <1>2, SafeContextNew, SafeContextNewFill, SafeContextNewRegister,
     SafeContextSocket, SafeNogvlSocketNew, SafeSocketAlloc, SafeSocketClose,
     SafeNogvlZsocketDestroy, SafeMarkDestroyed, SafeContextDestroy,
     SafeNogvlZctxDestroy, SafeCtxFreed, SafeFreeSockGc, SafeFreeCtxGc,
     SafeDropSocket, SafeDropContext, SafeScheduling
     DEF Next, Step, Call, CollectSocket, CollectContext, Terminated
<1>q. QED
  BY <1>1, <1>3 DEF SafeInv

LEMMA SafeAlways ==
  ASSUME Disciplined
  PROVE  Spec => []SafeInv
<1>1. Init => SafeInv
  <2> SUFFICES ASSUME Init PROVE SafeInv
    OBVIOUS
  <2>1. TypeOK /\ Frames
    BY InitTypes
  <2>2. ListInv
    BY DEF Init, ListInv, FlagsOK, ListedOK, OpeningOK, ClosingOK
  <2>3. Scheduling /\ ContextsOK /\ SocketsOK /\ ListsOpen
    BY ActorFacts DEF Init, Scheduling, ContextsOK, SocketsOK, ListsOpen, Given, Nogvl
  <2>4. OneCallPerSocket /\ InHand /\ Alone /\ MapEntryUsable
    BY ActorFacts DEF Init, OneCallPerSocket, InHand, SocketInHand, ContextInHand, Alone,
       OneBuilder, DestroyAlone, FreeCtxAlone, MapEntryUsable
  <2>q. QED
    BY <2>1, <2>2, <2>3, <2>4 DEF SafeInv, Safe, Init
<1>2. SafeInv /\ [Next]_vars => SafeInv'
  BY SafeStep
<1>q. QED
  BY <1>1, <1>2, PTL DEF Spec

\* Whatever the order of close, ctx.destroy and the two free callbacks, czmq is
\* handed a raw socket at most once and while its zctx is alive (context.c:88),
\* in a program that joins its threads before it destroys a context.
THEOREM ClosedOnce ==
  ASSUME Disciplined
  PROVE  Spec => []CloseOnce
<1>1. SafeInv => CloseOnce
  BY DEF SafeInv, Safe, CloseOnce
<1>q. QED
  BY <1>1, SafeAlways, PTL

\* Nor does a call use a wrapper, a socket list or a zctx that was freed
\* (context.c:52, context.c:111).
THEOREM NothingDangles ==
  ASSUME Disciplined
  PROVE  Spec => []NoDangling
<1>1. SafeInv => NoDangling
  BY DEF SafeInv, Safe, NoDangling
<1>q. QED
  BY <1>1, SafeAlways, PTL

\* And no open raw socket escapes: its context's list or a running call has it,
\* so ctx.destroy or that call will close it (context.c:107).
THEOREM NoSocketLost ==
  ASSUME Disciplined
  PROVE  Spec => []NoOrphan
<1>1. SafeInv => NoOrphan
  <2> SUFFICES ASSUME SafeInv, NEW s \in Sockets, zsock[s] = "open"
               PROVE  \/ s \in sockets[ctx_wrapper[s]]
                      \/ \E a \in Actors : self_sock[a] = s
    BY DEF NoOrphan
  <2>1. s \notin sock_destroyed /\ sock_value[s] \in {"building"} \cup Given
    BY Ground DEF ListInv, FlagsOK, Safe, SocketsOK, TypeOK, SocketTypes, ValueStates, Given
  <2>q. QED
    BY <2>1, Ground DEF Safe, SocketsOK
<1>q. QED
  BY <1>1, SafeAlways, PTL

\* Once zctx_destroy has returned, every socket of the context is closed and its
\* wrapper knows it, whoever was closing it before (context.c:48).
THEOREM DestroyComplete ==
  ASSUME Disciplined
  PROVE  Spec => []DestroyReachesEverySocket
<1>1. SafeInv => DestroyReachesEverySocket
  <2> SUFFICES ASSUME SafeInv, NEW s \in Sockets, ctx_wrapper[s] \in ctx_destroyed
               PROVE  /\ zsock[s] = "closed"
                      /\ sock_value[s] \in Given => s \in sock_destroyed
    BY DEF DestroyReachesEverySocket, Given
  <2>1. ctx_wrapper[s] \in Contexts /\ zctx[ctx_wrapper[s]] = "destroyed"
    BY Ground DEF TypeOK, ContextTypes, Safe, ContextsOK
  <2>2. zsock[s] # "none"
    BY <2>1, Ground DEF Safe, SocketsOK
  <2>3. sock_value[s] \in Given => s \in sock_destroyed
    BY <2>1, Ground DEF Safe, SocketsOK
  <2>4. sock_value[s] # "unused"
    BY <2>2, Ground DEF ListInv, FlagsOK
  <2>5. sock_value[s] # "building"
    <3> SUFFICES ASSUME sock_value[s] = "building" PROVE FALSE
      OBVIOUS
    <3>1. PICK a \in Actors : op[a] = "socket" /\ self_sock[a] = s
      BY Ground DEF Safe, SocketsOK
    <3>2. pc[a] = "socket_alloc" /\ ctx_wrapper[s] = self_ctx[a]
      BY <2>2, <3>1, Ground, Places DEF ListInv, OpeningOK
    <3>q. QED
      BY <2>1, <3>1, <3>2, Ground DEF Safe, InHand, ContextInHand
  <2>6. s \in sock_destroyed
    BY <2>3, <2>4, <2>5, Ground DEF Safe, SocketsOK, TypeOK, SocketTypes, ValueStates, Given
  <2>q. QED
    BY <2>3, <2>6, Ground DEF ListInv, FlagsOK
<1>q. QED
  BY <1>1, SafeAlways, PTL

\* The process map never refers the program to a context it can neither use nor
\* replace (context.c:60).
THEOREM MapNeverStale ==
  ASSUME Disciplined
  PROVE  Spec => []MapEntryUsable
<1>1. SafeInv => MapEntryUsable
  BY DEF SafeInv, Safe
<1>q. QED
  BY <1>1, SafeAlways, PTL

-----------------------------------------------------------------------------
(***************************************************************************)
(* The registry                                                            *)
(*                                                                         *)
(* A disciplined program that creates its contexts in one thread implements*)
(* SocketRegistry, and has one live context at a time.                     *)
(*                                                                         *)
(* The process map does it: a live context is in the map or still under    *)
(* construction, nobody constructs one while the map has an entry, and an  *)
(* entry goes only with its own context.                                   *)
(***************************************************************************)

SingleCreator == \A t, u \in Creators : t = u

\* A live context is in the process map, or being built.
Registered ==
  \A c \in Contexts : zctx[c] = "live" =>
    process_ctx = c \/ \E t \in Actors : op[t] = "new" /\ self_ctx[t] = c

\* Contexts are built while the map has no entry, and taken down while it has
\* theirs.
MapFollows ==
  \A a \in Actors :
    /\ op[a] = "new" => process_ctx = Nil /\ a \in Creators
    /\ op[a] \in {"destroy", "free_ctx"} => process_ctx = self_ctx[a]

RegInv == Registered /\ MapFollows

-----------------------------------------------------------------------------
(* The invariant                                                           *)

\* The map refers to every context a call may take down.
LEMMA GivenIsRegistered ==
  ASSUME SafeInv, RegInv, NEW c \in Contexts,
         zctx[c] = "live", ctx_value[c] \in Given
  PROVE  process_ctx = c
BY Ground DEF RegInv, Registered, Safe, InHand, ContextInHand, Given

\* Steps that neither create a context nor start or end a call.
LEMMA RegInvKept ==
  ASSUME SafeInv, RegInv, UNCHANGED process_ctx, NEW a \in Actors,
         op[a] # "new",
         \A c \in Contexts : zctx'[c] = "live" => zctx[c] = "live",
         \A b \in Actors : b # a => op'[b] = op[b] /\ self_ctx'[b] = self_ctx[b],
         \/ op'[a] = op[a] /\ self_ctx'[a] = self_ctx[a]
         \/ op'[a] \notin {"new", "destroy", "free_ctx"}
         \/ op'[a] \in {"destroy", "free_ctx"} /\ self_ctx'[a] = process_ctx
  PROVE  RegInv'
<1>1. Registered'
  BY DEF RegInv, Registered
<1>2. MapFollows'
  BY DEF RegInv, MapFollows
<1>q. QED
  BY <1>1, <1>2 DEF RegInv

LEMMA RegInvCreate ==
  ASSUME SingleCreator, SafeInv, RegInv,
         \/ \E t \in Threads, c \in Contexts : ContextNew(t, c)
         \/ \E t \in Actors : ContextNewFill(t) \/ ContextNewRegister(t)
  PROVE  RegInv'
<1>1. ASSUME NEW t \in Threads, NEW c \in Contexts, ContextNew(t, c)
      PROVE  RegInv'
  <2>p. /\ Moves(t, "zctx_new", "new", c, Nil)
        /\ t \in Creators /\ process_ctx = Nil /\ UNCHANGED <<process_ctx, zctx>>
        /\ pc[t] = "idle"
    BY <1>1, Ground, ParkMoves DEF ContextNew, Ready
  <2>1. Registered'
    <3>1. op[t] = "none"
      BY <2>p, Ground, Places
    <3>q. QED
      BY <2>p, <3>1, Ground DEF RegInv, Registered, Moves
  <2>2. MapFollows'
    BY <2>p DEF RegInv, MapFollows, Moves
  <2>q. QED
    BY <2>1, <2>2 DEF RegInv
<1>2. ASSUME NEW t \in Actors, ContextNewFill(t)
      PROVE  RegInv'
  <2>p. /\ Moves(t, "initialize", "new", self_ctx[t], Nil) /\ op[t] = "new"
        /\ self_ctx[t] \in Contexts
        /\ zctx' = [zctx EXCEPT ![self_ctx[t]] = "live"] /\ UNCHANGED process_ctx
    BY <1>2, Ground, Places, ParkMoves DEF ContextNewFill, Parked
  <2>1. Registered'
    <3>1. \A c \in Contexts : c # self_ctx[t] => zctx'[c] = zctx[c]
      BY <2>p, Ground DEF TypeOK, ContextTypes
    <3>q. QED
      BY <2>p, <3>1 DEF RegInv, Registered, Moves
  <2>2. MapFollows'
    BY <2>p DEF RegInv, MapFollows, Moves
  <2>q. QED
    BY <2>1, <2>2 DEF RegInv
<1>3. ASSUME NEW t \in Actors, ContextNewRegister(t)
      PROVE  RegInv'
  <2>p. /\ Moves(t, "idle", "none", Nil, Nil) /\ op[t] = "new"
        /\ self_ctx[t] \in Contexts
        /\ process_ctx' = self_ctx[t] /\ UNCHANGED zctx
    BY <1>3, Ground, Places, ReturnMoves DEF ContextNewRegister, Parked
  <2>1. process_ctx = Nil /\ t \in Creators
    BY <2>p DEF RegInv, MapFollows
  <2>2. \A b \in Actors : b # t => op[b] \notin {"new", "destroy", "free_ctx"}
    BY <2>1, Ground, Places DEF RegInv, MapFollows, SingleCreator
  <2>3. Registered'
    BY <2>p, <2>1, <2>2, Ground DEF RegInv, Registered, Moves
  <2>4. MapFollows'
    BY <2>p, <2>2 DEF MapFollows, Moves
  <2>q. QED
    BY <2>3, <2>4 DEF RegInv
<1>q. QED
  BY <1>1, <1>2, <1>3

LEMMA RegInvDestroy ==
  ASSUME Disciplined, SafeInv, RegInv, NEW c \in Contexts,
         \E t \in Threads : ContextDestroy(t, c) \/ FreeCtxGc(t, c)
  PROVE  RegInv'
<1>1. ASSUME NEW t \in Threads, ContextDestroy(t, c)
      PROVE  RegInv'
  <2>1. /\ FreeCtx(t, "destroy", c) /\ UNCHANGED <<process_ctx, zctx>>
        /\ pc[t] = "idle" /\ ctx_value[c] \in Given /\ c \notin ctx_destroyed
    BY <1>1 DEF ContextDestroy, Ready, Given
  <2>2. process_ctx = c
    BY <2>1, Ground, GivenIsRegistered DEF Safe, ContextsOK, Given, TypeOK, ContextTypes
  <2>3. /\ \A b \in Actors : b # t => op'[b] = op[b] /\ self_ctx'[b] = self_ctx[b]
        /\ op'[t] = "destroy" /\ self_ctx'[t] = c
    BY <2>1, Popping, Ground DEF Moves
  <2>q. QED
    BY <2>1, <2>2, <2>3, RegInvKept, Ground, Places
<1>2. ASSUME NEW t \in Threads, FreeCtxGc(t, c)
      PROVE  RegInv'
  <2>1. CASE zctx[c] = "live" /\ c \notin ctx_destroyed
    <3>1. /\ FreeCtx(GC, "free_ctx", c) /\ UNCHANGED <<process_ctx, zctx>>
          /\ pc[GC] = "idle" /\ ctx_value[c] \in Given
      BY <1>2, <2>1 DEF FreeCtxGc, MayHost, Given
    <3>2. process_ctx = c
      BY <2>1, <3>1, GivenIsRegistered
    <3>3. /\ \A b \in Actors : b # GC => op'[b] = op[b] /\ self_ctx'[b] = self_ctx[b]
          /\ op'[GC] = "free_ctx" /\ self_ctx'[GC] = c
      BY <3>1, Popping, Ground DEF Moves
    <3>q. QED
      BY <3>1, <3>2, <3>3, RegInvKept, Ground, Places
  <2>2. CASE ~(zctx[c] = "live" /\ c \notin ctx_destroyed)
    BY <1>2, <2>2 DEF FreeCtxGc, callVars, RegInv, Registered, MapFollows
  <2>q. QED
    BY <2>1, <2>2
<1>q. QED
  BY <1>1, <1>2

LEMMA RegInvCall ==
  ASSUME SafeInv, RegInv, NEW a \in Actors
  PROVE  \/ NogvlSocketNew(a) \/ SocketAlloc(a) \/ NogvlZsocketDestroy(a)
         \/ NogvlZctxDestroy(a) \/ MarkDestroyed(a)
         => RegInv'
<1>1. ASSUME op[a] # "new", UNCHANGED <<process_ctx, zctx, callVars>>
      PROVE  RegInv'
  BY <1>1 DEF callVars, RegInv, Registered, MapFollows
<1>2. ASSUME op[a] # "new", UNCHANGED process_ctx,
             \A c \in Contexts : zctx'[c] = "live" => zctx[c] = "live",
             NEW where, NEW s, Moves(a, where, op[a], self_ctx[a], s)
      PROVE  RegInv'
  BY <1>2, RegInvKept DEF Moves
<1>3. ASSUME op[a] # "new", UNCHANGED <<process_ctx, zctx>>, Return(a)
      PROVE  RegInv'
  <2>1. Moves(a, "idle", "none", Nil, Nil)
    BY <1>3, Ground, ReturnMoves
  <2>q. QED
    BY <1>3, <2>1, RegInvKept DEF Moves
<1>4. ASSUME NogvlSocketNew(a) PROVE RegInv'
  <2>1. pc[a] = "socket_new"
    BY <1>4 DEF NogvlSocketNew, Parked
  <2>2. op[a] = "socket"
    BY <2>1, Ground, Places
  <2>3. /\ UNCHANGED <<process_ctx, zctx>>
        /\ \/ UNCHANGED callVars
           \/ Park(a, "socket_alloc", op[a], self_ctx[a], self_sock[a])
    BY <1>4, <2>2 DEF NogvlSocketNew, Abort, ctxVars, sockVars, procVars
  <2>q. QED
    BY <2>2, <2>3, <1>1, <1>2, Ground, ParkMoves
<1>5. ASSUME SocketAlloc(a) PROVE RegInv'
  <2>1. pc[a] = "socket_alloc" /\ UNCHANGED <<process_ctx, zctx>> /\ Return(a)
    BY <1>5 DEF SocketAlloc, Parked
  <2>q. QED
    BY <2>1, <1>3, Ground, Places
<1>6. ASSUME NogvlZsocketDestroy(a) PROVE RegInv'
  <2>1. pc[a] = "zsocket_destroy"
    BY <1>6 DEF NogvlZsocketDestroy, Parked
  <2>2. /\ UNCHANGED <<process_ctx, zctx>>
        /\ \/ UNCHANGED callVars
           \/ Park(a, "mark_destroyed", op[a], self_ctx[a], self_sock[a])
    BY <1>6 DEF NogvlZsocketDestroy, Abort, ctxVars, sockVars, procVars
  <2>q. QED
    BY <2>1, <2>2, <1>1, <1>2, Ground, Places, ParkMoves
<1>7. ASSUME NogvlZctxDestroy(a) PROVE RegInv'
  <2>1. /\ pc[a] = "zctx_destroy" /\ UNCHANGED process_ctx
        /\ Park(a, "ctx_freed", op[a], self_ctx[a], Nil)
    BY <1>7 DEF NogvlZctxDestroy, Parked
  <2>2. \A c \in Contexts : zctx'[c] = "live" => zctx[c] = "live"
    BY <1>7, Ground DEF NogvlZctxDestroy, TypeOK, ContextTypes
  <2>q. QED
    BY <2>1, <2>2, <1>2, Ground, Places, ParkMoves
<1>8. ASSUME MarkDestroyed(a) PROVE RegInv'
  <2>1. pc[a] = "mark_destroyed" /\ op[a] # "new"
    BY <1>8, Ground, Places DEF MarkDestroyed, Parked
  <2>2. /\ UNCHANGED <<process_ctx, zctx>>
        /\ \/ UNCHANGED callVars
           \/ Return(a)
           \/ op[a] \in {"destroy", "free_ctx"} /\ FreeCtx(a, op[a], self_ctx[a])
    BY <1>8 DEF MarkDestroyed, Abort, ctxVars, sockVars, procVars
  <2>3. CASE op[a] \in {"destroy", "free_ctx"} /\ FreeCtx(a, op[a], self_ctx[a])
    <3>1. self_ctx[a] \in Contexts
      BY <2>3, Ground, Places
    <3>2. CASE Moves(a, "zctx_destroy", op[a], self_ctx[a], Nil)
      BY <2>1, <2>2, <3>2, <1>2
    <3>3. CASE \E s \in Sockets : Moves(a, "zsocket_destroy", op[a], self_ctx[a], s)
      BY <2>1, <2>2, <3>3, <1>2
    <3>q. QED
      BY <2>3, <3>1, <3>2, <3>3, Popping
  <2>q. QED
    BY <2>1, <2>2, <2>3, <1>1, <1>3
<1>q. QED
  BY <1>4, <1>5, <1>6, <1>7, <1>8

LEMMA RegInvCtxFreed ==
  ASSUME SafeInv, RegInv, NEW a \in Actors, CtxFreed(a)
  PROVE  RegInv'
<1>1. /\ pc[a] = "ctx_freed" /\ op[a] \in {"destroy", "free_ctx"}
      /\ self_ctx[a] \in Contexts /\ zctx[self_ctx[a]] = "destroyed"
  BY Ground, Places DEF CtxFreed, Parked, Safe, InHand, ContextInHand
<1>2. process_ctx = self_ctx[a]
  BY <1>1 DEF RegInv, MapFollows
<1>3. Moves(a, "idle", "none", Nil, Nil) /\ process_ctx' = Nil /\ UNCHANGED zctx
  BY Ground, ReturnMoves DEF CtxFreed, Unregister
<1>4. \A b \in Actors : op[b] # "new"
  BY <1>1, <1>2, Ground DEF RegInv, MapFollows
<1>5. \A c \in Contexts : zctx[c] # "live"
  BY <1>1, <1>2, <1>4 DEF RegInv, Registered
<1>6. \A b \in Actors : b # a => op[b] \notin {"destroy", "free_ctx"}
  <2> SUFFICES ASSUME NEW b \in Actors, b # a, op[b] \in {"destroy", "free_ctx"} PROVE FALSE
    OBVIOUS
  <2>1. self_ctx[b] = self_ctx[a]
    BY <1>2 DEF RegInv, MapFollows
  <2>2. pc[b] = "ctx_freed"
    BY <1>1, <2>1, Ground DEF Safe, InHand, ContextInHand
  <2>3. pc[a] # "idle" /\ pc[b] # "idle"
    BY <1>1, <2>2
  <2>4. (a = GC \/ op[a] = "destroy") /\ (b = GC \/ op[b] = "destroy")
    BY <1>1, Ground, Places
  <2>q. QED
    BY <2>3, <2>4, Ground DEF Safe, Scheduling, Alone, DestroyAlone, Actors
<1>7. Registered'
  BY <1>3, <1>5 DEF Registered
<1>8. MapFollows'
  BY <1>3, <1>4, <1>6 DEF MapFollows, Moves
<1>q. QED
  BY <1>7, <1>8 DEF RegInv

LEMMA RegInvStep ==
  ASSUME Disciplined, SingleCreator, SafeInv, RegInv, [Next]_vars
  PROVE  RegInv'
<1>1. ASSUME NEW t \in Threads, NEW c \in Contexts, NEW s \in Sockets,
             ContextSocket(t, c, s)
      PROVE  RegInv'
  <2>1. Moves(t, "socket_new", "socket", c, s) /\ pc[t] = "idle"
        /\ UNCHANGED <<process_ctx, zctx>>
    BY <1>1, Ground, ParkMoves DEF ContextSocket, Ready, ctxVars
  <2>q. QED
    BY <2>1, RegInvKept, Ground, Places DEF Moves
<1>2. ASSUME NEW a \in Actors, NEW s \in Sockets, NEW o \in {"close", "free_sock"},
             DestroySocket(a, s, o, Nil, sockets), op[a] # "new",
             UNCHANGED <<process_ctx, zctx>>
      PROVE  RegInv'
  <2>1. \E where : Moves(a, where, o, Nil, s)
    BY <1>2, Ground, ParkMoves DEF DestroySocket
  <2>q. QED
    BY <1>2, <2>1, RegInvKept DEF Moves
<1>3. ASSUME UNCHANGED <<process_ctx, zctx, op, self_ctx>>
      PROVE  RegInv'
  BY <1>3 DEF RegInv, Registered, MapFollows
<1>4. ASSUME NEW t \in Threads, NEW s \in Sockets, SocketClose(t, s)
      PROVE  RegInv'
  <2>1. pc[t] = "idle"
    BY <1>4 DEF SocketClose, Ready
  <2>q. QED
    BY <1>4, <2>1, <1>2, <1>3, Ground, Places
       DEF SocketClose, Abort, ctxVars, sockVars, callVars, procVars
<1>7. ASSUME NEW t \in Threads, NEW s \in Sockets, FreeSockGc(t, s)
      PROVE  RegInv'
  <2>1. op[GC] # "new"
    BY Ground, Places
  <2>q. QED
    BY <1>7, <2>1, <1>2, <1>3, Ground
       DEF FreeSockGc, Abort, ctxVars, sockVars, callVars, procVars
<1>5. ASSUME \/ \E a \in Actors : LockContextMutex(a)
             \/ \E s \in Sockets : DropSocket(s)
             \/ \E c \in Contexts : DropContext(c)
             \/ \E t \in Threads : EndThread(t)
             \/ Exit \/ Terminated \/ UNCHANGED vars
      PROVE  RegInv'
  BY <1>3, <1>5 DEF LockContextMutex, DropSocket, DropContext, EndThread, Exit,
     Terminated, vars, ctxVars, callVars
<1>6. ASSUME NEW t \in Threads, Interrupt(t) PROVE FALSE
  BY <1>6 DEF Interrupt, Disciplined
<1>q. QED
  BY <1>1, <1>4, <1>5, <1>6, <1>7, RegInvCreate, RegInvDestroy, RegInvCall, RegInvCtxFreed
     DEF Next, Step, Call, CollectSocket, CollectContext

LEMMA RegistryAlways ==
  ASSUME Disciplined, SingleCreator
  PROVE  Spec => [](SafeInv /\ RegInv)
<1>1. Init => RegInv
  BY DEF Init, RegInv, Registered, MapFollows
<1>2. SafeInv /\ RegInv /\ [Next]_vars => RegInv'
  BY RegInvStep
<1>q. QED
  BY <1>1, <1>2, SafeAlways, PTL DEF Spec

\* There is never a second live context in the process, whatever is forgotten,
\* collected and created again (context.c:169).
THEOREM SingleContext ==
  ASSUME Disciplined, SingleCreator
  PROVE  Spec => []OneContext
<1>1. SafeInv /\ RegInv => OneContext
  <2> SUFFICES ASSUME SafeInv, RegInv, NEW c \in Contexts, NEW d \in Contexts,
                      zctx[c] = "live", zctx[d] = "live"
               PROVE  c = d
    BY DEF OneContext
  <2>q. QED
    BY Ground DEF RegInv, Registered, MapFollows, SingleCreator
<1>q. QED
  BY <1>1, RegistryAlways, PTL

-----------------------------------------------------------------------------
(* The refinement                                                          *)

\* The variables the promise is about.
LEMMA RegistryStutters ==
  ASSUME UNCHANGED <<zctx, zsock, ctx_wrapper, sock_destroyed>>
  PROVE  UNCHANGED Registry!vars
BY DEF Registry!vars

LEMMA CreateImplemented ==
  ASSUME SingleCreator, SafeInv, RegInv, NEW t \in Actors, ContextNewFill(t)
  PROVE  \E c \in Contexts : Registry!CreateContext(c)
<1>1. /\ op[t] = "new" /\ self_ctx[t] \in Contexts /\ zctx[self_ctx[t]] = "none"
  BY Ground, Places DEF ContextNewFill, Parked, Safe, InHand, ContextInHand
<1>2. \A d \in Contexts : zctx[d] # "live"
  BY <1>1, Ground DEF RegInv, Registered, MapFollows, SingleCreator
<1>3. /\ zctx' = [zctx EXCEPT ![self_ctx[t]] = "live"]
      /\ UNCHANGED <<zsock, ctx_wrapper, sock_destroyed>>
  BY DEF ContextNewFill, sockVars
<1>q. QED
  BY <1>1, <1>2, <1>3 DEF Registry!CreateContext

LEMMA OpenImplemented ==
  ASSUME SafeInv, NEW t \in Actors, NogvlSocketNew(t)
  PROVE  \E c \in Contexts, s \in Sockets : Registry!OpenSocket(c, s)
<1>1. /\ pc[t] = "socket_new" /\ op[t] = "socket"
      /\ self_ctx[t] \in Contexts /\ self_sock[t] \in Sockets
  BY Ground, Places DEF NogvlSocketNew, Parked
<1>2. zctx[self_ctx[t]] = "live" /\ zsock[self_sock[t]] = "none"
  BY <1>1, Ground DEF Safe, InHand, ContextInHand, ListInv, OpeningOK
<1>3. /\ zsock' = [zsock EXCEPT ![self_sock[t]] = "open"]
      /\ ctx_wrapper' = [ctx_wrapper EXCEPT ![self_sock[t]] = self_ctx[t]]
      /\ UNCHANGED <<zctx, sock_destroyed>>
  BY <1>2 DEF NogvlSocketNew, ctxVars
<1>q. QED
  BY <1>1, <1>2, <1>3 DEF Registry!OpenSocket

LEMMA CloseImplemented ==
  ASSUME SafeInv, NEW a \in Actors, NogvlZsocketDestroy(a)
  PROVE  \E s \in Sockets : Registry!CloseSocket(s)
<1> DEFINE s == self_sock[a]
<1>1. /\ pc[a] = "zsocket_destroy" /\ s \in Sockets /\ zsock[s] = "open"
      /\ sock_value[s] \in Given /\ s \notin sock_destroyed
  BY Ground, Places DEF NogvlZsocketDestroy, Parked, Safe, InHand, SocketInHand
<1>2. ctx_wrapper[s] \in Contexts /\ zctx[ctx_wrapper[s]] = "live"
  BY <1>1, Ground DEF Safe, SocketsOK
<1>3. /\ zsock' = [zsock EXCEPT ![s] = "closed"]
      /\ UNCHANGED <<zctx, ctx_wrapper, sock_destroyed>>
  BY <1>1, <1>2 DEF NogvlZsocketDestroy, Given, ctxVars
<1>q. QED
  BY <1>1, <1>2, <1>3 DEF Registry!CloseSocket

LEMMA ReportImplemented ==
  ASSUME SafeInv, NEW a \in Actors, MarkDestroyed(a)
  PROVE  (\E s \in Sockets : Registry!ReportClosed(s)) \/ UNCHANGED Registry!vars
<1> DEFINE s == self_sock[a]
<1>1. /\ pc[a] = "mark_destroyed" /\ s \in Sockets /\ zsock[s] = "closed"
  BY Ground, Places DEF MarkDestroyed, Parked, ListInv, ClosingOK
<1>2. \/ UNCHANGED <<zctx, zsock, ctx_wrapper, sock_destroyed>>
      \/ /\ sock_destroyed' = sock_destroyed \cup {s}
         /\ UNCHANGED <<zctx, zsock, ctx_wrapper>>
  BY DEF MarkDestroyed, Abort, ctxVars, sockVars
<1>3. CASE s \in sock_destroyed
  BY <1>2, <1>3, RegistryStutters
<1>4. CASE s \notin sock_destroyed
  BY <1>1, <1>2, <1>4, RegistryStutters DEF Registry!ReportClosed
<1>q. QED
  BY <1>3, <1>4

LEMMA DestroyImplemented ==
  ASSUME SafeInv, NEW a \in Actors, NogvlZctxDestroy(a)
  PROVE  \E c \in Contexts : Registry!DestroyContext(c)
<1> DEFINE c == self_ctx[a]
<1>1. /\ pc[a] = "zctx_destroy" /\ op[a] \in {"destroy", "free_ctx"} /\ c \in Contexts
      /\ zctx[c] = "live" /\ sockets[c] = {} /\ self_sock[a] = Nil
  BY Ground, Places DEF NogvlZctxDestroy, Parked, Safe, InHand, ContextInHand
<1>2. ASSUME NEW s \in Sockets, ctx_wrapper[s] = c
      PROVE  s \in sock_destroyed /\ zsock[s] = "closed"
  <2>1. \A b \in Actors : self_sock[b] # s
    BY <1>1, <1>2, Ground, ZctxDestroyAlone
  <2>2. zsock[s] # "none"
    BY <1>1, <1>2, Ground DEF Safe, SocketsOK
  <2>3. sock_value[s] \notin {"unused", "building"}
    BY <2>1, <2>2, Ground DEF ListInv, FlagsOK, Safe, SocketsOK
  <2>4. s \in sock_destroyed
    BY <1>1, <1>2, <2>1, <2>3, Ground
       DEF Safe, SocketsOK, TypeOK, SocketTypes, ValueStates, Given
  <2>q. QED
    BY <2>4, Ground DEF ListInv, FlagsOK
<1>3. zsock' = zsock
  BY <1>2, Ground DEF NogvlZctxDestroy, TypeOK, SocketTypes
<1>4. /\ zctx' = [zctx EXCEPT ![c] = "destroyed"]
      /\ UNCHANGED <<ctx_wrapper, sock_destroyed>>
  BY DEF NogvlZctxDestroy
<1>q. QED
  BY <1>1, <1>2, <1>3, <1>4 DEF Registry!DestroyContext

LEMMA NextImplemented ==
  ASSUME Disciplined, SingleCreator, SafeInv, RegInv, [Next]_vars
  PROVE  [Registry!Next]_Registry!vars
<1>1. ASSUME NEW a \in Actors, Step(a)
      PROVE  Registry!Next \/ UNCHANGED Registry!vars
  <2>1. CASE ContextNewRegister(a) \/ LockContextMutex(a) \/ SocketAlloc(a) \/ CtxFreed(a)
    <3>1. UNCHANGED <<zctx, zsock, ctx_wrapper, sock_destroyed>>
      BY <2>1 DEF ContextNewRegister, LockContextMutex, SocketAlloc, CtxFreed, ctxVars,
         sockVars
    <3>q. QED
      BY <3>1, RegistryStutters
  <2>q. QED
    BY <1>1, <2>1, CreateImplemented, OpenImplemented, CloseImplemented,
       ReportImplemented, DestroyImplemented DEF Step, Registry!Next
<1>2. ASSUME NEW t \in Threads, Call(t) \/ EndThread(t)
      PROVE  UNCHANGED <<zctx, zsock, ctx_wrapper, sock_destroyed>>
  BY <1>2 DEF Call, ContextNew, ContextDestroy, ContextSocket, SocketClose, EndThread,
     Abort, ctxVars, sockVars
<1>3. ASSUME NEW s \in Sockets, CollectSocket(s) \/ DropSocket(s)
      PROVE  UNCHANGED <<zctx, zsock, ctx_wrapper, sock_destroyed>>
  BY <1>3 DEF CollectSocket, FreeSockGc, DropSocket, Abort, ctxVars, sockVars
<1>4. ASSUME NEW c \in Contexts, CollectContext(c) \/ DropContext(c)
      PROVE  UNCHANGED <<zctx, zsock, ctx_wrapper, sock_destroyed>>
  BY <1>4 DEF CollectContext, FreeCtxGc, DropContext, sockVars
<1>5. ASSUME Exit \/ Terminated \/ UNCHANGED vars
      PROVE  UNCHANGED <<zctx, zsock, ctx_wrapper, sock_destroyed>>
  BY <1>5 DEF Exit, Terminated, vars, ctxVars, sockVars
<1>6. ASSUME NEW t \in Threads, Interrupt(t) PROVE FALSE
  BY <1>6 DEF Interrupt, Disciplined
<1>q. QED
  BY <1>1, <1>2, <1>3, <1>4, <1>5, <1>6, RegistryStutters DEF Next

\* The library keeps the promise of SocketRegistry: sockets open in a live
\* context and close once, a handle says closed only after its socket is, and
\* zctx_destroy comes after every handle said so (context.c:48, context.c:88).
THEOREM RegistryKept ==
  ASSUME Disciplined, SingleCreator
  PROVE  Spec => KeepsRegistry
<1>1. Init => Registry!Init
  BY DEF Init, Registry!Init
<1>2. SafeInv /\ RegInv /\ [Next]_vars => [Registry!Next]_Registry!vars
  BY NextImplemented
<1>q. QED
  BY <1>1, <1>2, RegistryAlways, PTL DEF Spec, KeepsRegistry, Registry!Spec

=============================================================================
