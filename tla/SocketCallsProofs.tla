-------------------------- MODULE SocketCallsProofs --------------------------
(***************************************************************************)
(* Sockets in the hands of any number of threads, with any endpoints:      *)
(*                                                                         *)
(* - the cross-thread guard keeps two threads out of one socket, if the    *)
(*   program takes the sockets of other threads neither to ZMQ.proxy nor   *)
(*   to the methods that have no guard;                                    *)
(* - every variable has its type, whatever the program does;               *)
(* - the endpoints a socket lists, and the state it says it is in, are     *)
(*   what libzmq has it attached to, for a socket that was never connected *)
(*   under a name libzmq spells otherwise, and never leave out what it is  *)
(*   bound to, if the program leaves the strings alone meanwhile.          *)
(***************************************************************************)
EXTENDS SocketCalls, FiniteSetTheorems, SequenceTheorems, TLAPS

KeepsToItsSockets == {"read_elsewhere", "proxy_elsewhere"} \cap Risky = {}

-----------------------------------------------------------------------------
(* A thread is only ever inside sockets of its own                         *)

CallTypes == inside \in [Threads -> Calls \cup {NoCall}]

OwnSockets ==
  \A t \in Threads :
    /\ inside[t] # NoCall => inside[t].socks # {}
    /\ \A s \in inside[t].socks : Owner[s] = t

Apart == CallTypes /\ OwnSockets /\ ~clash

\* Whoever takes only sockets of its own finds nobody in them.
LEMMA OwnIsFree ==
  ASSUME Apart, NEW t \in Threads, NEW socks \in SUBSET Sockets,
         \A s \in socks : Owner[s] = t, Touch(t, socks)
  PROVE  ~clash'
<1>1. ~Occupied(t, socks)
  BY DEF Apart, OwnSockets, Occupied
<1>q. QED
  BY <1>1 DEF Apart, Touch

LEMMA Entering ==
  ASSUME Apart, NEW t \in Threads, NEW socks \in SUBSET Sockets, socks # {},
         NEW call \in Transfers \cup Attaching \cup Detaching \cup {"poll", "close", "proxy"},
         NEW arg \in Written \cup {"-"},
         \A s \in socks : Owner[s] = t,
         Enter(t, socks, call, arg)
  PROVE  Apart'
<1>1. ~clash'
  BY OwnIsFree DEF Enter
<1>. DEFINE c == [socks |-> socks, call |-> call, arg |-> arg, err |-> "none"]
<1>2. c \in Calls /\ c.socks = socks
  BY DEF Calls
<1>. HIDE DEF c
<1>3. inside' = [inside EXCEPT ![t] = c]
  BY DEF Enter, c
<1>4. CallTypes'
  BY <1>2, <1>3 DEF Apart, CallTypes
<1>5. OwnSockets'
  BY <1>2, <1>3 DEF Apart, CallTypes, OwnSockets
<1>q. QED
  BY <1>1, <1>4, <1>5 DEF Apart

LEMMA LibzmqReturning ==
  ASSUME Apart, NEW t \in Threads, inside[t].err = "none",
         NEW err \in {"ok", "failed", "EAGAIN", "EFSM"},
         LibzmqReturns(t, err), UNCHANGED clash
  PROVE  Apart'
<1>1. inside[t] \in Calls
  BY DEF Apart, CallTypes, NoCall
<1>. DEFINE c == [inside[t] EXCEPT !.err = err]
<1>2. c \in Calls /\ c.socks = inside[t].socks
  BY <1>1 DEF Calls
<1>3. inside[t] # NoCall
  BY DEF NoCall
<1>. HIDE DEF c
<1>4. inside' = [inside EXCEPT ![t] = c]
  BY DEF LibzmqReturns, c
<1>5. CallTypes'
  BY <1>2, <1>4 DEF Apart, CallTypes
<1>6. OwnSockets'
  BY <1>2, <1>3, <1>4 DEF Apart, CallTypes, OwnSockets
<1>q. QED
  BY <1>5, <1>6 DEF Apart

LEMMA Leaving ==
  ASSUME Apart, NEW t \in Threads, Leave(t), ~clash'
  PROVE  Apart'
<1>1. NoCall.socks = {}
  BY DEF NoCall
<1>2. CallTypes'
  BY DEF Apart, CallTypes, Leave
<1>3. OwnSockets'
  BY <1>1 DEF Apart, CallTypes, OwnSockets, Leave
<1>q. QED
  BY <1>2, <1>3 DEF Apart

LEMMA InitApart == Init => Apart
<1>1. NoCall.socks = {}
  BY DEF NoCall
<1>q. QED
  BY <1>1 DEF Init, Apart, CallTypes, OwnSockets

-----------------------------------------------------------------------------
(* Every step keeps it so                                                  *)

\* What a thread takes up.
LEMMA CallApart ==
  ASSUME KeepsToItsSockets, Apart, NEW t \in Threads, NEW s \in Sockets, Call(t, s)
  PROVE  Apart'
<1>1. {s} \in SUBSET Sockets /\ {s} # {} /\ "-" \in Written \cup {"-"}
  OBVIOUS
<1>2. ASSUME NEW e \in Written,
             SocketBind(t, s, e) \/ SocketConnect(t, s, e)
      PROVE  Apart'
  <2>1. PICK call \in Attaching : Attach(t, s, call, e)
    BY <1>2 DEF SocketBind, SocketConnect, Attaching
  <2>q. QED
    BY <1>1, <2>1, Entering DEF Attach, GuardCrossThread
<1>3. ASSUME NEW e \in Written,
             SocketDisconnect(t, s, e) \/ SocketUnbind(t, s, e)
      PROVE  Apart'
  <2>1. PICK call \in Detaching : Detach(t, s, call, e)
    BY <1>3 DEF SocketDisconnect, SocketUnbind, Detaching
  <2>q. QED
    BY <1>1, <2>1, Entering DEF Detach, GuardCrossThread
<1>4. ASSUME NEW call \in Transfers, Transfer(t, s, call)
      PROVE  Apart'
  BY <1>1, <1>4, Entering DEF Transfer, GuardCrossThread
<1>5. CASE SocketPoll(t, s) \/ SocketClose(t, s)
  BY <1>1, <1>5, Entering DEF SocketPoll, SocketClose, GuardCrossThread
<1>6. CASE SetSockOpt(t, s) \/ ReadSockOpt(t, s)
  <2>1. Owner[s] = t /\ Touch(t, {s}) /\ UNCHANGED inside
    BY <1>6 DEF SetSockOpt, ReadSockOpt, GuardCrossThread, KeepsToItsSockets
  <2>2. ~clash'
    BY <1>1, <2>1, OwnIsFree
  <2>q. QED
    BY <2>1, <2>2 DEF Apart, CallTypes, OwnSockets
<1>q. QED
  BY <1>2, <1>3, <1>4, <1>5, <1>6
     DEF Call, SocketSend, SocketSendm, SocketSendFrame, SocketSendMessage, SocketRecv,
         SocketRecvNonblock, SocketRecvFrame, SocketRecvFrameNonblock, SocketRecvMessage,
         Transfers, Sends, Receives

\* bind and connect ask for the last endpoint when they come back.
LEMMA AttachReturnApart ==
  ASSUME Apart, NEW t \in Threads, inside[t].call # "-",
         NEW how, NEW endpoint, AttachReturn(t, Sock(t), how, endpoint)
  PROVE  Apart'
<1>1. inside[t] # NoCall
  BY DEF NoCall
<1>2. Sock(t) \in inside[t].socks /\ inside[t].socks \subseteq Sockets
  BY <1>1 DEF Apart, CallTypes, OwnSockets, Sock, Calls
<1>3. ~clash'
  <2>1. CASE inside[t].err = "failed"
    BY <2>1 DEF AttachReturn, Apart
  <2>2. CASE inside[t].err # "failed"
    BY <1>2, <2>2, OwnIsFree DEF AttachReturn, Apart, OwnSockets
  <2>q. QED
    BY <2>1, <2>2
<1>q. QED
  BY <1>3, Leaving DEF AttachReturn

\* What becomes of a call.
LEMMA ProgressApart ==
  ASSUME Apart, NEW t \in Threads, Progress(t)
  PROVE  Apart'
<1>. USE DEF Working, Done
<1>1. CASE NogvlSocketBind(t)
  BY <1>1, LibzmqReturning DEF NogvlSocketBind, LibzmqFails, LibzmqAttaches
<1>2. CASE BindReturn(t)
  BY <1>2, AttachReturnApart DEF BindReturn
<1>3. CASE NogvlSocketConnect(t)
  BY <1>3, LibzmqReturning DEF NogvlSocketConnect, LibzmqFails, LibzmqAttaches
<1>4. CASE ConnectReturn(t)
  BY <1>4, AttachReturnApart DEF ConnectReturn
<1>5. CASE NogvlSocketDisconnect(t) \/ NogvlSocketUnbind(t)
  BY <1>5, LibzmqReturning DEF NogvlSocketDisconnect, NogvlSocketUnbind, Terminate, LibzmqFails
<1>6. CASE DisconnectReturn(t) \/ UnbindReturn(t)
  <2>1. DetachReturn(t, Sock(t))
    BY <1>6 DEF DisconnectReturn, UnbindReturn
  <2>2. Leave(t) /\ UNCHANGED clash
    BY <2>1 DEF DetachReturn
  <2>q. QED
    BY <2>2, Leaving DEF Apart
<1>7. CASE NogvlTransfer(t)
  BY <1>7, LibzmqReturning DEF NogvlTransfer
<1>8. CASE TransferReturn(t)
  BY <1>8, Leaving DEF TransferReturn, Apart
<1>9. CASE PollReturn(t) \/ CloseReturn(t)
  BY <1>9, Leaving DEF PollReturn, CloseReturn, Apart
<1>q. QED
  BY <1>1, <1>2, <1>3, <1>4, <1>5, <1>6, <1>7, <1>8, <1>9 DEF Progress

LEMMA NextApart ==
  ASSUME KeepsToItsSockets, Apart, [Next]_vars
  PROVE  Apart'
<1>1. ASSUME NEW t \in Threads, NEW socks \in SUBSET Sockets, socks # {}, Proxy(t, socks)
      PROVE  Apart'
  <2>1. \A s \in socks : Owner[s] = t
    BY <1>1 DEF Proxy, KeepsToItsSockets
  <2>q. QED
    BY <1>1, <2>1, Entering DEF Proxy
<1>2. ASSUME NEW s \in Sockets, EditEndpoints(s)
      PROVE  Apart'
  BY <1>2 DEF EditEndpoints, Apart, CallTypes, OwnSockets
<1>3. CASE UNCHANGED vars
  BY <1>3 DEF vars, Apart, CallTypes, OwnSockets
<1>q. QED
  BY <1>1, <1>2, <1>3, CallApart, ProgressApart DEF Next

\* No two threads are ever in libzmq with one socket.
THEOREM GuardSuffices ==
  ASSUME KeepsToItsSockets
  PROVE  Spec => []OneThreadInside
<1>1. Apart /\ [Next]_vars => Apart'
  BY NextApart
<1>2. Apart => OneThreadInside
  BY DEF Apart, OneThreadInside
<1>q. QED
  BY <1>1, <1>2, InitApart, PTL DEF Spec

-----------------------------------------------------------------------------
(* Selecting positions of a sequence                                       *)

\* The least-number principle for a set, from the well-foundedness of < on Nat.
LEMMA LeastOf ==
  ASSUME NEW T \in SUBSET Nat, T # {}
  PROVE  \E x \in T : \A y \in T : x <= y
<1>. DEFINE below == OpToRel(<, Nat)
<1>1. IsWellFoundedOn(below, Nat)
  BY NatLessThanWellFounded
<1>2. PICK x \in T : \A y \in T : ~(<<y, x>> \in below)
  BY <1>1, WFMin
<1>3. ASSUME NEW y \in T PROVE x <= y
  <2>1. \A i, j \in Nat : <<i, j>> \in below <=> i < j
    BY DEF OpToRel
  <2>2. x \in Nat /\ y \in Nat /\ ~(<<y, x>> \in below)
    BY <1>2
  <2>3. ~(y < x)
    BY <2>1, <2>2
  <2>4. x \in Nat /\ y \in Nat
    OBVIOUS
  <2>. HIDE DEF below
  <2>q. QED
    BY <2>3, <2>4
<1>q. QED
  BY <1>3

LEMMA Positions ==
  ASSUME NEW n \in Nat
  PROVE  IsFiniteSet(1..n) /\ Cardinality(1..n) = n
<1>1. 1 \in Int /\ n \in Int
  OBVIOUS
<1>2. IsFiniteSet(1..n) /\ Cardinality(1..n) = IF 1 > n THEN 0 ELSE n - 1 + 1
  BY <1>1, FS_Interval, Zenon
<1>q. QED
  BY <1>2

Increasing(f, n) == \A i, j \in 1..n : i < j => f[i] < f[j]
CanBeOrdered(L) == \E f \in [1..Cardinality(L) -> L] : Increasing(f, Cardinality(L))

\* What can be ordered without its greatest element can be ordered with it.
LEMMA OrderedWithLast ==
  ASSUME NEW n \in Nat \ {0}, NEW L \in SUBSET (1..n), n \in L, CanBeOrdered(L \ {n})
  PROVE  CanBeOrdered(L)
<1>. DEFINE k == Cardinality(L)
<1>1. IsFiniteSet(1..n)
  BY Positions
<1>2. IsFiniteSet(L)
  BY <1>1, FS_Subset
<1>3. k \in Nat /\ k # 0
  BY <1>2, FS_CardinalityType, FS_EmptySet
<1>4. Cardinality(L \ {n}) = k - 1
  BY <1>2, FS_RemoveElement
<1>5. PICK g \in [1..k - 1 -> L \ {n}] : Increasing(g, k - 1)
  BY <1>4 DEF CanBeOrdered
<1>. HIDE DEF k
<1>. DEFINE f == [i \in 1..k |-> IF i = k THEN n ELSE g[i]]
<1>6. \A i \in 1..k : i # k => i \in 1..k - 1
  BY <1>3
<1>7. \A i \in 1..k - 1 : g[i] \in 1..n - 1
  <2>1. \A i \in 1..k - 1 : g[i] \in L \ {n}
    BY <1>5
  <2>2. L \ {n} \subseteq 1..n - 1
    OBVIOUS
  <2>q. QED
    BY <2>1, <2>2
<1>8. f \in [1..k -> L]
  BY <1>3, <1>5, <1>6
<1>9. ASSUME NEW i \in 1..k, NEW j \in 1..k, i < j PROVE f[i] < f[j]
  <2>1. i \in 1..k - 1
    BY <1>3, <1>9
  <2>2. CASE j = k
    BY <1>7, <2>1, <2>2, <1>9
  <2>3. CASE j # k
    BY <1>5, <1>6, <1>7, <1>9, <2>1, <2>3 DEF Increasing
  <2>q. QED
    BY <2>2, <2>3
<1>10. Increasing(f, k)
  BY <1>9 DEF Increasing
<1>q. QED
  BY <1>8, <1>10 DEF CanBeOrdered, k

\* Every set of positions can be gone through in order: otherwise there is a least
\* length that has a set which cannot, and without its last position it could.
LEMMA Enumerable ==
  ASSUME NEW N \in Nat, NEW K \in SUBSET (1..N)
  PROVE  CanBeOrdered(K)
<1>. DEFINE Bad(n) == \E L \in SUBSET (1..n) : ~CanBeOrdered(L)
            T == {n \in Nat : Bad(n)}
<1>. SUFFICES ASSUME T # {} PROVE FALSE
  OBVIOUS
<1>1. PICK n \in T : \A m \in T : n <= m
  BY LeastOf
<1>2. n \in Nat /\ Bad(n)
  OBVIOUS
<1>3. \A m \in Nat : Bad(m) => n <= m
  BY <1>1
<1>4. n # 0
  <2>1. CanBeOrdered({})
    <3>1. Cardinality({}) = 0
      BY FS_EmptySet
    <3>2. <<>> \in [1..0 -> {}] /\ Increasing(<<>>, 0)
      BY DEF Increasing
    <3>q. QED
      BY <3>1, <3>2 DEF CanBeOrdered
  <2>2. 1..0 = {}
    OBVIOUS
  <2>3. ~Bad(0)
    BY <2>1, <2>2
  <2>q. QED
    BY <1>2, <2>3
<1>5. n - 1 \in Nat /\ ~Bad(n - 1)
  BY <1>2, <1>3, <1>4
<1>6. PICK L \in SUBSET (1..n) : ~CanBeOrdered(L)
  BY <1>2
<1>7. n \in L
  <2>1. n \notin L => L \in SUBSET (1..n - 1)
    BY <1>2
  <2>q. QED
    BY <1>5, <1>6, <2>1
<1>8. L \ {n} \in SUBSET (1..n - 1)
  BY <1>2
<1>9. CanBeOrdered(L \ {n})
  BY <1>5, <1>8
<1>q. QED
  BY <1>2, <1>4, <1>6, <1>7, <1>9, OrderedWithLast

\* What selecting positions of a sequence returns.
LEMMA EntriesAtProperties ==
  ASSUME NEW S, NEW s \in Seq(S), NEW K \in SUBSET DOMAIN s
  PROVE  /\ EntriesAt(s, K) \in Seq(S)
         /\ Len(EntriesAt(s, K)) = Cardinality(K)
         /\ Len(EntriesAt(s, K)) <= Len(s)
         /\ K # DOMAIN s => Len(EntriesAt(s, K)) < Len(s)
         /\ ToSet(EntriesAt(s, K)) = {s[k] : k \in K}
<1>. DEFINE N == Len(s)
            c == Cardinality(K)
            place == Ascending(K)
            r == EntriesAt(s, K)
<1>1. N \in Nat /\ DOMAIN s = 1..N /\ K \in SUBSET (1..N)
  BY LenProperties
<1>2. /\ IsFiniteSet(1..N) /\ Cardinality(1..N) = N /\ IsFiniteSet(K)
      /\ c \in Nat /\ c <= N /\ (K # 1..N => c < N)
  <2>1. IsFiniteSet(1..N) /\ Cardinality(1..N) = N
    BY <1>1, Positions
  <2>2. IsFiniteSet(K) /\ c <= N /\ (c = N => K = 1..N)
    BY <1>1, <2>1, FS_Subset
  <2>3. c \in Nat
    BY <2>2, FS_CardinalityType
  <2>q. QED
    BY <1>1, <2>1, <2>2, <2>3
<1>3. place \in [1..c -> K] /\ Increasing(place, c)
  <2>1. CanBeOrdered(K)
    BY <1>1, Enumerable
  <2>q. QED
    BY <2>1 DEF CanBeOrdered, Ascending, Increasing
<1>4. place \in Injection(1..c, K)
  <2>1. \A i, j \in 1..c : i # j => place[i] # place[j]
    <3>. SUFFICES ASSUME NEW i \in 1..c, NEW j \in 1..c, i < j PROVE place[i] # place[j]
      BY <1>2
    <3>1. place[i] < place[j] /\ place[i] \in 1..N
      BY <1>1, <1>3 DEF Increasing
    <3>q. QED
      BY <3>1
  <2>q. QED
    BY <1>3, <2>1 DEF Injection, IsInjective
<1>5. \A k \in K : \E i \in 1..c : place[i] = k
  <2>1. IsFiniteSet(1..c) /\ Cardinality(1..c) = c
    BY <1>2, Positions
  <2>2. place \in Surjection(1..c, K)
    BY <1>2, <1>4, <2>1, FS_Injection
  <2>q. QED
    BY <2>2 DEF Surjection
<1>. HIDE DEF place
<1>6. r = [n \in 1..c |-> s[place[n]]]
  BY DEF EntriesAt, place
<1>7. r \in Seq(S) /\ Len(r) = c
  BY <1>1, <1>2, <1>3, <1>6
<1>8. ToSet(r) = {s[k] : k \in K}
  BY <1>3, <1>5, <1>6 DEF ToSet
<1>q. QED
  BY <1>1, <1>2, <1>7, <1>8

-----------------------------------------------------------------------------
(* Types and the stage of each call, whatever the program does             *)

Single == Transfers \cup Attaching \cup Detaching \cup {"poll", "close"}

\* A call other than ZMQ.proxy is on one open socket, by the thread that owns it.
CallsOwn ==
  \A t \in Threads : inside[t].call \in Single =>
    \E s \in Sockets : inside[t].socks = {s} /\ Owner[s] = t /\ open[s]

Stage(c) ==
  /\ c.call \in Transfers => c.err \in {"none", "ok", "EAGAIN", "EFSM"}
  /\ c.call \in Attaching \cup Detaching =>
       c.arg \in Written /\ c.err \in {"none", "ok", "failed"}
  /\ c.call \in Attaching =>
       \A s \in c.socks : /\ Len(endpoints[s]) < MaxEndpoints
                          /\ c.err = "ok" => attached[s] # <<>>

Staged == CallTypes /\ CallsOwn /\ \A t \in Threads : Stage(inside[t])

\* The socket of a call.
LEMMA SockOfCall ==
  ASSUME Staged, NEW t \in Threads, inside[t].call \in Single
  PROVE  /\ Sock(t) \in Sockets /\ inside[t].socks = {Sock(t)}
         /\ Owner[Sock(t)] = t /\ open[Sock(t)]
         /\ inside[t] \in Calls
<1>1. PICK s \in Sockets : inside[t].socks = {s} /\ Owner[s] = t /\ open[s]
  BY DEF Staged, CallsOwn
<1>2. Sock(t) = s
  BY <1>1 DEF Sock
<1>3. inside[t] # NoCall
  BY DEF NoCall, Single, Transfers, Sends, Receives, Attaching, Detaching
<1>q. QED
  BY <1>1, <1>2, <1>3 DEF Staged, CallTypes

\* Nothing of another thread's sockets is touched: what is said of its call stays.
LEMMA OtherCallsStay ==
  ASSUME Staged, NEW t \in Threads, NEW u \in Threads, u # t, inside'[u] = inside[u],
         \A r \in Sockets : Owner[r] # t =>
           open'[r] = open[r] /\ endpoints'[r] = endpoints[r] /\ attached'[r] = attached[r]
  PROVE  /\ inside'[u].call \in Single =>
              \E s \in Sockets : inside'[u].socks = {s} /\ Owner[s] = u /\ open'[s]
         /\ Stage(inside[u])'
<1>1. CASE inside[u].call \in Single
  <2>1. PICK s \in Sockets : inside[u].socks = {s} /\ Owner[s] = u /\ open[s]
    BY <1>1 DEF Staged, CallsOwn
  <2>2. open'[s] = open[s] /\ endpoints'[s] = endpoints[s] /\ attached'[s] = attached[s]
    BY <2>1
  <2>q. QED
    BY <2>1, <2>2 DEF Staged, Stage
<1>2. CASE inside[u].call \notin Single
  BY <1>2 DEF Staged, Stage, Single
<1>q. QED
  BY <1>1, <1>2

LEMMA EnterStaged ==
  ASSUME Staged, NEW t \in Threads, NEW s \in Sockets, NEW call \in Single,
         NEW arg \in Written \cup {"-"}, Owner[s] = t, Enter(t, {s}, call, arg),
         UNCHANGED <<open, endpoints, attached>>,
         call \in Attaching \cup Detaching => arg \in Written,
         call \in Attaching => Len(endpoints[s]) < MaxEndpoints
  PROVE  Staged'
<1>. DEFINE c == [socks |-> {s}, call |-> call, arg |-> arg, err |-> "none"]
<1>1. inside' = [inside EXCEPT ![t] = c] /\ open[s]
  BY DEF Enter
<1>2. c \in Calls
  BY DEF Calls, Single
<1>3. CallTypes'
  BY <1>1, <1>2 DEF Staged, CallTypes
<1>4. inside'[t] = c /\ \A u \in Threads : u # t => inside'[u] = inside[u]
  BY <1>1 DEF Staged, CallTypes
<1>5. ASSUME NEW u \in Threads, u # t
      PROVE  /\ inside'[u].call \in Single =>
                  \E r \in Sockets : inside'[u].socks = {r} /\ Owner[r] = u /\ open'[r]
             /\ Stage(inside[u])'
  BY <1>4, <1>5, OtherCallsStay
<1>6. inside'[t].socks = {s} /\ open'[s]
  BY <1>1, <1>4
<1>7. Stage(inside[t])'
  BY <1>4 DEF Stage
<1>q. QED
  BY <1>3, <1>5, <1>6, <1>7 DEF Staged, CallsOwn

LEMMA ReturnsStaged ==
  ASSUME Staged, NEW t \in Threads, inside[t].call \in Single,
         NEW err \in {"ok", "failed", "EAGAIN", "EFSM"}, LibzmqReturns(t, err),
         inside[t].call \in Transfers => err # "failed",
         inside[t].call \in Attaching \cup Detaching => err \in {"ok", "failed"},
         UNCHANGED <<open, endpoints>>,
         \A r \in Sockets : r # Sock(t) => attached'[r] = attached[r],
         inside[t].call \in Attaching /\ err = "ok" => attached'[Sock(t)] # <<>>
  PROVE  Staged'
<1>. DEFINE c == [inside[t] EXCEPT !.err = err]
<1>1. /\ Sock(t) \in Sockets /\ inside[t].socks = {Sock(t)}
      /\ Owner[Sock(t)] = t /\ open[Sock(t)] /\ inside[t] \in Calls
  BY SockOfCall
<1>2. /\ c \in Calls /\ c.socks = inside[t].socks /\ c.call = inside[t].call
      /\ c.arg = inside[t].arg /\ c.err = err
  BY <1>1 DEF Calls
<1>3. inside' = [inside EXCEPT ![t] = c]
  BY DEF LibzmqReturns
<1>. HIDE DEF c
<1>4. CallTypes'
  BY <1>2, <1>3 DEF Staged, CallTypes
<1>5. inside'[t] = c /\ \A u \in Threads : u # t => inside'[u] = inside[u]
  BY <1>3 DEF Staged, CallTypes
<1>6. \A r \in Sockets : Owner[r] # t => attached'[r] = attached[r]
  BY <1>1
<1>7. ASSUME NEW u \in Threads, u # t
      PROVE  /\ inside'[u].call \in Single =>
                  \E r \in Sockets : inside'[u].socks = {r} /\ Owner[r] = u /\ open'[r]
             /\ Stage(inside[u])'
  BY <1>5, <1>6, <1>7, OtherCallsStay
<1>8. inside'[t].socks = {Sock(t)} /\ open'[Sock(t)]
  BY <1>1, <1>2, <1>5
<1>9. Stage(inside[t])'
  BY <1>1, <1>2, <1>5 DEF Staged, Stage
<1>q. QED
  BY <1>1, <1>4, <1>7, <1>8, <1>9 DEF Staged, CallsOwn

LEMMA LeaveStaged ==
  ASSUME Staged, NEW t \in Threads, Leave(t),
         \A r \in Sockets : Owner[r] # t =>
           open'[r] = open[r] /\ endpoints'[r] = endpoints[r] /\ attached'[r] = attached[r]
  PROVE  Staged'
<1>1. CallTypes'
  BY DEF Staged, CallTypes, Leave
<1>2. inside'[t] = NoCall /\ \A u \in Threads : u # t => inside'[u] = inside[u]
  BY DEF Staged, CallTypes, Leave
<1>3. ASSUME NEW u \in Threads, u # t
      PROVE  /\ inside'[u].call \in Single =>
                  \E r \in Sockets : inside'[u].socks = {r} /\ Owner[r] = u /\ open'[r]
             /\ Stage(inside[u])'
  BY <1>2, <1>3, OtherCallsStay
<1>4. inside'[t].call \notin Single
  BY <1>2 DEF NoCall, Single, Transfers, Sends, Receives, Attaching, Detaching
<1>5. Stage(inside[t])'
  BY <1>4 DEF Stage, Single
<1>q. QED
  BY <1>1, <1>3, <1>4, <1>5 DEF Staged, CallsOwn

\* What is not about calls.
Shapes ==
  /\ open \in [Sockets -> BOOLEAN] /\ state \in [Sockets -> States]
  /\ endpoints \in [Sockets -> Seq(Written)]
  /\ attached \in [Sockets -> Seq(Attachments)]
  /\ \A s \in Sockets : Len(endpoints[s]) <= MaxEndpoints
  /\ turn \in [Sockets -> {"send", "recv", "any"}] /\ aliased \subseteq Sockets
  /\ clash \in BOOLEAN
  /\ misordered \in {"none", "ZMQ::Error", "SystemCallError", "nil"}

LEMMA TypeOKIs == TypeOK <=> Shapes /\ CallTypes
BY DEF TypeOK, Shapes, CallTypes

LEMMA TouchTyped ==
  ASSUME Shapes, NEW t \in Threads, NEW socks, Touch(t, socks)
  PROVE  clash' \in BOOLEAN
BY DEF Shapes, Touch

LEMMA InitTyped ==
  ASSUME Init
  PROVE  Shapes /\ Staged
<1>1. Shapes
  <2>1. \A s \in Sockets : FirstTurn(Type[s]) \in {"send", "recv", "any"}
    BY DEF FirstTurn
  <2>2. <<>> \in Seq(Written) /\ <<>> \in Seq(Attachments) /\ Len(<<>>) = 0
    OBVIOUS
  <2>3. /\ turn \in [Sockets -> {"send", "recv", "any"}] /\ open \in [Sockets -> BOOLEAN]
        /\ state \in [Sockets -> States]
    BY <2>1 DEF Init, States
  <2>4. /\ endpoints \in [Sockets -> Seq(Written)] /\ attached \in [Sockets -> Seq(Attachments)]
        /\ \A s \in Sockets : Len(endpoints[s]) = 0
    BY <2>2 DEF Init
  <2>5. \A s \in Sockets : Len(endpoints[s]) <= MaxEndpoints
    BY <2>4, ConstantsAssumption
  <2>q. QED
    BY <2>3, <2>4, <2>5 DEF Init, Shapes
<1>2. CallTypes
  BY DEF Init, CallTypes
<1>3. \A t \in Threads : inside[t].call \notin Single
  BY DEF Init, NoCall, Single, Transfers, Sends, Receives, Attaching, Detaching
<1>4. CallsOwn /\ \A t \in Threads : Stage(inside[t])
  BY <1>3 DEF CallsOwn, Stage, Single
<1>q. QED
  BY <1>1, <1>2, <1>4 DEF Staged

LEMMA CallTyped ==
  ASSUME Shapes, Staged, NEW t \in Threads, NEW s \in Sockets, Call(t, s)
  PROVE  Shapes' /\ Staged'
<1>1. "-" \in Written \cup {"-"}
  OBVIOUS
<1>2. ASSUME NEW call \in Attaching, NEW e \in Written, Attach(t, s, call, e)
      PROVE  Shapes' /\ Staged'
  <2>1. Staged'
    BY <1>2, EnterStaged DEF Attach, GuardCrossThread, Single, wrapperVars, libzmqVars
  <2>2. clash' \in BOOLEAN
    BY <1>2, TouchTyped DEF Attach, Enter
  <2>q. QED
    BY <1>2, <2>1, <2>2 DEF Attach, Shapes, wrapperVars, libzmqVars
<1>3. ASSUME NEW call \in Detaching, NEW e \in Written, Detach(t, s, call, e)
      PROVE  Shapes' /\ Staged'
  <2>1. call \notin Attaching /\ call \in Single
    BY DEF Attaching, Detaching, Single
  <2>2. Staged'
    BY <1>3, <2>1, EnterStaged DEF Detach, GuardCrossThread, wrapperVars, libzmqVars
  <2>3. clash' \in BOOLEAN
    BY <1>3, TouchTyped DEF Detach, Enter
  <2>q. QED
    BY <1>3, <2>2, <2>3 DEF Detach, Shapes, wrapperVars, libzmqVars
<1>4. ASSUME NEW call \in Transfers \cup {"poll", "close"}, GuardCrossThread(t, s),
             Enter(t, {s}, call, "-"),
             UNCHANGED <<open, endpoints, libzmqVars, misordered>>,
             state' \in [Sockets -> States]
      PROVE  Shapes' /\ Staged'
  <2>1. call \notin Attaching \cup Detaching /\ call \in Single
    BY DEF Transfers, Sends, Receives, Attaching, Detaching, Single
  <2>2. Staged'
    BY <1>1, <1>4, <2>1, EnterStaged DEF GuardCrossThread, libzmqVars
  <2>3. clash' \in BOOLEAN
    BY <1>4, TouchTyped DEF Enter
  <2>q. QED
    BY <1>4, <2>2, <2>3 DEF Shapes, libzmqVars
<1>5. ASSUME NEW call \in Transfers, Transfer(t, s, call)
      PROVE  Shapes' /\ Staged'
  BY <1>4, <1>5 DEF Transfer, wrapperVars, Shapes
<1>6. CASE SocketPoll(t, s)
  BY <1>4, <1>6 DEF SocketPoll, wrapperVars, Shapes
<1>7. CASE SocketClose(t, s)
  <2>1. state' \in [Sockets -> States]
    BY <1>7 DEF SocketClose, Shapes, States
  <2>q. QED
    BY <1>4, <1>7, <2>1 DEF SocketClose
<1>8. CASE SetSockOpt(t, s) \/ ReadSockOpt(t, s)
  <2>1. Touch(t, {s}) /\ UNCHANGED <<wrapperVars, libzmqVars, inside, misordered>>
    BY <1>8 DEF SetSockOpt, ReadSockOpt
  <2>2. clash' \in BOOLEAN
    BY <2>1, TouchTyped
  <2>3. Shapes'
    BY <2>1, <2>2 DEF Shapes, wrapperVars, libzmqVars
  <2>4. Staged'
    BY <2>1 DEF Staged, CallTypes, CallsOwn, Stage, wrapperVars, libzmqVars
  <2>q. QED
    BY <2>3, <2>4
<1>9. ASSUME NEW e \in Written,
             \/ SocketBind(t, s, e) \/ SocketConnect(t, s, e)
             \/ SocketDisconnect(t, s, e) \/ SocketUnbind(t, s, e)
      PROVE  Shapes' /\ Staged'
  <2>1. \/ \E call \in Attaching : Attach(t, s, call, e)
        \/ \E call \in Detaching : Detach(t, s, call, e)
    BY <1>9 DEF SocketBind, SocketConnect, SocketDisconnect, SocketUnbind, Attaching, Detaching
  <2>q. QED
    BY <1>2, <1>3, <2>1
<1>q. QED
  BY <1>5, <1>6, <1>7, <1>8, <1>9
     DEF Call, SocketSend, SocketSendm, SocketSendFrame, SocketSendMessage, SocketRecv,
         SocketRecvNonblock, SocketRecvFrame, SocketRecvFrameNonblock, SocketRecvMessage,
         Transfers, Sends, Receives

\* A call that is in libzmq or back from it, as the steps below take it up.
LEMMA CallKnown ==
  ASSUME Shapes, Staged, NEW t \in Threads, inside[t].call \in Single
  PROVE  /\ Sock(t) \in Sockets /\ Owner[Sock(t)] = t /\ open[Sock(t)]
         /\ inside[t].socks = {Sock(t)} /\ inside[t] \in Calls
         /\ attached[Sock(t)] \in Seq(Attachments)
         /\ endpoints[Sock(t)] \in Seq(Written)
         /\ \A r \in Sockets : Owner[r] # t => r # Sock(t)
BY SockOfCall DEF Shapes

LEMMA AttachingTyped ==
  ASSUME Shapes, Staged, NEW t \in Threads, inside[t].call \in Attaching,
         NEW a \in Attachments, LibzmqAttaches(t, a), aliased' \subseteq Sockets,
         UNCHANGED <<wrapperVars, clash, misordered>>
  PROVE  Shapes' /\ Staged'
<1>1. inside[t].call \in Single
  BY DEF Single
<1>2. /\ Sock(t) \in Sockets /\ attached[Sock(t)] \in Seq(Attachments)
  BY <1>1, CallKnown
<1>3. attached' = [attached EXCEPT ![Sock(t)] = Append(attached[Sock(t)], a)]
  BY DEF LibzmqAttaches
<1>4. /\ Append(attached[Sock(t)], a) \in Seq(Attachments)
      /\ Append(attached[Sock(t)], a) # <<>>
  BY <1>2, AppendProperties
<1>5. /\ attached' \in [Sockets -> Seq(Attachments)]
      /\ attached'[Sock(t)] # <<>>
      /\ \A r \in Sockets : r # Sock(t) => attached'[r] = attached[r]
  BY <1>2, <1>3, <1>4 DEF Shapes
<1>6. Staged'
  BY <1>1, <1>5, ReturnsStaged
     DEF LibzmqAttaches, wrapperVars, Transfers, Sends, Receives, Attaching
<1>7. Shapes'
  BY <1>5 DEF Shapes, LibzmqAttaches, wrapperVars
<1>q. QED
  BY <1>6, <1>7

LEMMA FailingTyped ==
  ASSUME Shapes, Staged, NEW t \in Threads, inside[t].call \in Attaching \cup Detaching,
         LibzmqFails(t), UNCHANGED <<wrapperVars, clash, misordered>>
  PROVE  Shapes' /\ Staged'
<1>1. inside[t].call \in Single /\ inside[t].call \notin Transfers
  BY DEF Single, Attaching, Detaching, Transfers, Sends, Receives
<1>2. Staged'
  BY <1>1, ReturnsStaged DEF LibzmqFails, wrapperVars, libzmqVars
<1>q. QED
  BY <1>2 DEF Shapes, LibzmqFails, wrapperVars, libzmqVars

\* What is left of a list is a list, and no longer.
LEMMA LeftOver ==
  ASSUME NEW S, NEW list \in Seq(S), NEW K \in SUBSET DOMAIN list
  PROVE  EntriesAt(list, K) \in Seq(S) /\ Len(EntriesAt(list, K)) <= Len(list)
BY EntriesAtProperties

LEMMA TerminateTyped ==
  ASSUME Shapes, Staged, NEW t \in Threads, inside[t].call \in Detaching,
         Terminate(t), UNCHANGED <<wrapperVars, clash, misordered>>
  PROVE  Shapes' /\ Staged'
<1>1. /\ inside[t].call \in Single /\ inside[t].call \notin Transfers
      /\ inside[t].call \notin Attaching
  BY DEF Single, Attaching, Detaching, Transfers, Sends, Receives
<1>2. /\ Sock(t) \in Sockets /\ attached[Sock(t)] \in Seq(Attachments)
  BY <1>1, CallKnown
<1>. DEFINE kept == Kept(attached[Sock(t)], inside[t].arg)
<1>3. CASE LibzmqFails(t)
  BY <1>3, FailingTyped
<1>4. CASE ~LibzmqFails(t)
  <2>1. /\ attached' = [attached EXCEPT ![Sock(t)] = kept]
        /\ LibzmqReturns(t, "ok") /\ UNCHANGED <<turn, aliased>>
    BY <1>4 DEF Terminate
  <2>2. kept \in Seq(Attachments)
    BY <1>2, LeftOver DEF Kept
  <2>. HIDE DEF kept
  <2>3. /\ attached' \in [Sockets -> Seq(Attachments)]
        /\ \A r \in Sockets : r # Sock(t) => attached'[r] = attached[r]
    BY <1>2, <2>1, <2>2 DEF Shapes
  <2>4. Staged'
    BY <1>1, <2>1, <2>3, ReturnsStaged DEF wrapperVars
  <2>q. QED
    BY <2>1, <2>3, <2>4 DEF Shapes, wrapperVars
<1>q. QED
  BY <1>3, <1>4

LEMMA AttachReturnTyped ==
  ASSUME Shapes, Staged, NEW t \in Threads, inside[t].call \in Attaching,
         NEW how \in {"BOUND", "CONNECTED"}, inside[t].err # "none",
         AttachReturn(t, Sock(t), how, LastEndpoint(Sock(t)))
  PROVE  Shapes' /\ Staged'
<1>. DEFINE s == Sock(t)
<1>1. inside[t].call \in Single
  BY DEF Single
<1>2. /\ s \in Sockets /\ Owner[s] = t /\ inside[t].socks = {s}
      /\ attached[s] \in Seq(Attachments) /\ endpoints[s] \in Seq(Written)
      /\ \A r \in Sockets : Owner[r] # t => r # s
  BY <1>1, CallKnown
<1>3. CASE inside[t].err = "failed"
  <2>1. UNCHANGED <<wrapperVars, libzmqVars, clash, misordered>> /\ Leave(t)
    BY <1>3 DEF AttachReturn, wrapperVars
  <2>2. Staged'
    BY <2>1, LeaveStaged DEF wrapperVars, libzmqVars
  <2>q. QED
    BY <2>1, <2>2 DEF Shapes, wrapperVars, libzmqVars
<1>4. CASE inside[t].err # "failed"
  <2>1. /\ Len(endpoints[s]) < MaxEndpoints
        /\ inside[t].err = "ok" => attached[s] # <<>>
    BY <1>2 DEF Staged, Stage
  <2>2. attached[s] # <<>>
    BY <1>1, <1>4, <2>1 DEF Staged, Stage
  <2>3. LastEndpoint(s) \in Written
    <3>1. Len(attached[s]) \in DOMAIN attached[s]
      BY <1>2, <2>2, EmptySeq, LenProperties
    <3>2. Last(attached[s]) \in Attachments
      BY <1>2, <3>1 DEF Last
    <3>q. QED
      BY <3>2 DEF LastEndpoint, Attachments
  <2>4. /\ endpoints' = [endpoints EXCEPT ![s] = Append(endpoints[s], LastEndpoint(s))]
        /\ state' = [state EXCEPT ![s] = how] /\ Touch(t, {s}) /\ Leave(t)
        /\ UNCHANGED <<open, libzmqVars, misordered>>
    BY <1>4 DEF AttachReturn
  <2>5. /\ Append(endpoints[s], LastEndpoint(s)) \in Seq(Written)
        /\ Len(Append(endpoints[s], LastEndpoint(s))) = Len(endpoints[s]) + 1
    BY <1>2, <2>3, AppendProperties
  <2>6. Len(Append(endpoints[s], LastEndpoint(s))) <= MaxEndpoints
    BY <1>2, <2>1, <2>5, LenProperties, ConstantsAssumption
  <2>. HIDE DEF s
  <2>7. /\ endpoints' \in [Sockets -> Seq(Written)]
        /\ \A r \in Sockets : r # s => endpoints'[r] = endpoints[r]
        /\ endpoints'[s] = Append(endpoints[s], LastEndpoint(s))
    BY <1>2, <2>4, <2>5 DEF Shapes
  <2>8. \A r \in Sockets : Len(endpoints'[r]) <= MaxEndpoints
    BY <2>6, <2>7 DEF Shapes
  <2>9. state' \in [Sockets -> States] /\ clash' \in BOOLEAN
    <3>1. clash' \in BOOLEAN
      BY <2>4, TouchTyped
    <3>q. QED
      BY <2>4, <3>1 DEF Shapes, States
  <2>10. Staged'
    BY <1>2, <2>4, <2>7, LeaveStaged DEF libzmqVars
  <2>q. QED
    BY <2>4, <2>7, <2>8, <2>9, <2>10 DEF Shapes, libzmqVars
<1>q. QED
  BY <1>3, <1>4

LEMMA DetachReturnTyped ==
  ASSUME Shapes, Staged, NEW t \in Threads, inside[t].call \in Detaching,
         DetachReturn(t, Sock(t))
  PROVE  Shapes' /\ Staged'
<1>. DEFINE s == Sock(t)
<1>1. inside[t].call \in Single
  BY DEF Single
<1>2. /\ s \in Sockets /\ Owner[s] = t /\ endpoints[s] \in Seq(Written)
      /\ \A r \in Sockets : Owner[r] # t => r # s
  BY <1>1, CallKnown
<1>3. Leave(t) /\ UNCHANGED <<open, libzmqVars, clash, misordered>>
  BY DEF DetachReturn
<1>4. CASE inside[t].err = "failed"
  <2>1. UNCHANGED <<state, endpoints>>
    BY <1>4 DEF DetachReturn
  <2>2. Staged'
    BY <1>3, <2>1, LeaveStaged DEF libzmqVars
  <2>q. QED
    BY <1>3, <2>1, <2>2 DEF Shapes, libzmqVars
<1>5. CASE inside[t].err # "failed"
  <2>1. PICK e \in Written :
          /\ endpoints' = [endpoints EXCEPT ![s] = Others(endpoints[s], e)]
          /\ state' = IF endpoints'[s] = <<>>
                      THEN [state EXCEPT ![s] = "DISCONNECTED"] ELSE state
    BY <1>5 DEF DetachReturn
  <2>2. /\ Others(endpoints[s], e) \in Seq(Written)
        /\ Len(Others(endpoints[s], e)) <= Len(endpoints[s])
    BY <1>2, LeftOver DEF Others
  <2>3. Len(Others(endpoints[s], e)) <= MaxEndpoints
    BY <1>2, <2>2, LenProperties, ConstantsAssumption DEF Shapes
  <2>. HIDE DEF s
  <2>4. /\ endpoints' \in [Sockets -> Seq(Written)]
        /\ \A r \in Sockets : r # s => endpoints'[r] = endpoints[r]
        /\ endpoints'[s] = Others(endpoints[s], e)
    BY <1>2, <2>1, <2>2 DEF Shapes
  <2>5. \A r \in Sockets : Len(endpoints'[r]) <= MaxEndpoints
    BY <2>3, <2>4 DEF Shapes
  <2>6. state' \in [Sockets -> States]
    BY <2>1 DEF Shapes, States
  <2>7. Staged'
    BY <1>2, <1>3, <2>4, LeaveStaged DEF libzmqVars
  <2>q. QED
    BY <1>3, <2>4, <2>5, <2>6, <2>7 DEF Shapes, libzmqVars
<1>q. QED
  BY <1>4, <1>5

LEMMA TransferTyped ==
  ASSUME Shapes, Staged, NEW t \in Threads, NogvlTransfer(t)
  PROVE  Shapes' /\ Staged'
<1>. DEFINE s == Sock(t)
<1>1. /\ inside[t].call \in Single /\ inside[t].call \notin Attaching \cup Detaching
  BY DEF NogvlTransfer, Working, Single, Attaching, Detaching, Transfers, Sends, Receives
<1>2. PICK err \in {"ok", "EAGAIN", "EFSM"} : LibzmqReturns(t, err)
  BY DEF NogvlTransfer
<1>3. UNCHANGED <<wrapperVars, attached, aliased, clash, misordered>>
  BY DEF NogvlTransfer
<1>4. turn' \in [Sockets -> {"send", "recv", "any"}]
  <2>1. \/ turn' = turn
        \/ turn' = [turn EXCEPT ![s] = CASE turn[s] = "send" -> "recv"
                                         [] turn[s] = "recv" -> "send" [] OTHER -> turn[s]]
    BY DEF NogvlTransfer
  <2>2. s \in Sockets
    BY <1>1, CallKnown
  <2>. HIDE DEF s
  <2>q. QED
    BY <2>1, <2>2 DEF Shapes
<1>5. Staged'
  BY <1>1, <1>2, <1>3, ReturnsStaged DEF wrapperVars
<1>q. QED
  BY <1>3, <1>4, <1>5 DEF Shapes, wrapperVars

LEMMA TransferReturnTyped ==
  ASSUME Shapes, Staged, NEW t \in Threads, TransferReturn(t)
  PROVE  Shapes' /\ Staged'
<1>1. Leave(t) /\ UNCHANGED <<wrapperVars, libzmqVars, clash>>
  BY DEF TransferReturn
<1>2. Staged'
  BY <1>1, LeaveStaged DEF wrapperVars, libzmqVars
<1>3. misordered' \in {"none", "ZMQ::Error", "SystemCallError", "nil"}
  <2>1. inside[t].err = "EFSM" =>
          MethodReturns(inside[t].call, inside[t].err) \subseteq {"SystemCallError", "nil"}
    BY DEF MethodReturns
  <2>q. QED
    BY <2>1 DEF TransferReturn, Shapes
<1>q. QED
  BY <1>1, <1>2, <1>3 DEF Shapes, wrapperVars, libzmqVars

LEMMA CloseReturnTyped ==
  ASSUME Shapes, Staged, NEW t \in Threads, CloseReturn(t)
  PROVE  Shapes' /\ Staged'
<1>. DEFINE s == Sock(t)
<1>1. inside[t].call \in Single
  BY DEF CloseReturn, Working, Single
<1>2. s \in Sockets /\ \A r \in Sockets : Owner[r] # t => r # s
  BY <1>1, CallKnown
<1>3. /\ attached' = [attached EXCEPT ![s] = <<>>] /\ open' = [open EXCEPT ![s] = FALSE]
      /\ Leave(t) /\ UNCHANGED <<state, endpoints, turn, aliased, clash, misordered>>
  BY DEF CloseReturn
<1>. HIDE DEF s
<1>4. /\ attached' \in [Sockets -> Seq(Attachments)] /\ open' \in [Sockets -> BOOLEAN]
      /\ \A r \in Sockets : r # s => attached'[r] = attached[r] /\ open'[r] = open[r]
  <2>1. <<>> \in Seq(Attachments)
    OBVIOUS
  <2>q. QED
    BY <1>2, <1>3, <2>1 DEF Shapes
<1>5. Staged'
  BY <1>2, <1>3, <1>4, LeaveStaged
<1>q. QED
  BY <1>3, <1>4, <1>5 DEF Shapes

LEMMA ProgressTyped ==
  ASSUME Shapes, Staged, NEW t \in Threads, Progress(t)
  PROVE  Shapes' /\ Staged'
<1>. USE DEF Working, Done
<1>1. CASE NogvlSocketBind(t)
  <2>1. inside[t].call \in Attaching /\ UNCHANGED <<wrapperVars, clash, misordered>>
    BY <1>1 DEF NogvlSocketBind, Attaching
  <2>2. inside[t].arg \in Written
    BY <2>1 DEF Staged, Stage
  <2>3. ASSUME NEW k \in Spelled[inside[t].arg]
        PROVE  [how |-> "BOUND", key |-> k, as |-> k] \in Attachments
    BY <2>2, ConstantsAssumption DEF Attachments
  <2>q. QED
    BY <1>1, <2>1, <2>3, AttachingTyped, FailingTyped DEF NogvlSocketBind, Shapes
<1>2. CASE NogvlSocketConnect(t)
  <2>1. inside[t].call \in Attaching /\ UNCHANGED <<wrapperVars, clash, misordered>>
    BY <1>2 DEF NogvlSocketConnect, Attaching
  <2>2. inside[t].arg \in Written
    BY <2>1 DEF Staged, Stage
  <2>3. ASSUME NEW k \in Spelled[inside[t].arg]
        PROVE  [how |-> "CONNECTED", key |-> inside[t].arg, as |-> k] \in Attachments
    BY <2>2, ConstantsAssumption DEF Attachments
  <2>4. inside[t].socks \subseteq Sockets
    BY <2>1, SockOfCall DEF Single
  <2>5. ASSUME NEW k, aliased' = IF k = inside[t].arg THEN aliased ELSE aliased \cup inside[t].socks
        PROVE  aliased' \subseteq Sockets
    BY <2>4, <2>5 DEF Shapes
  <2>q. QED
    BY <1>2, <2>1, <2>3, <2>5, AttachingTyped, FailingTyped DEF NogvlSocketConnect
<1>3. CASE BindReturn(t) \/ ConnectReturn(t)
  BY <1>3, AttachReturnTyped DEF BindReturn, ConnectReturn, Attaching
<1>4. CASE NogvlSocketDisconnect(t) \/ NogvlSocketUnbind(t)
  BY <1>4, TerminateTyped DEF NogvlSocketDisconnect, NogvlSocketUnbind, Detaching
<1>5. CASE DisconnectReturn(t) \/ UnbindReturn(t)
  BY <1>5, DetachReturnTyped DEF DisconnectReturn, UnbindReturn, Detaching
<1>6. CASE NogvlTransfer(t) \/ TransferReturn(t) \/ CloseReturn(t)
  BY <1>6, TransferTyped, TransferReturnTyped, CloseReturnTyped
<1>7. CASE PollReturn(t)
  <2>1. Leave(t) /\ UNCHANGED <<wrapperVars, libzmqVars, clash, misordered>>
    BY <1>7 DEF PollReturn
  <2>2. Staged'
    BY <2>1, LeaveStaged DEF wrapperVars, libzmqVars
  <2>q. QED
    BY <2>1, <2>2 DEF Shapes, wrapperVars, libzmqVars
<1>q. QED
  BY <1>1, <1>2, <1>3, <1>4, <1>5, <1>6, <1>7 DEF Progress

LEMMA ProxyTyped ==
  ASSUME Shapes, Staged, NEW t \in Threads, NEW socks \in SUBSET Sockets, Proxy(t, socks)
  PROVE  Shapes' /\ Staged'
<1>. DEFINE c == [socks |-> socks, call |-> "proxy", arg |-> "-", err |-> "none"]
<1>1. /\ inside' = [inside EXCEPT ![t] = c] /\ Touch(t, socks)
      /\ UNCHANGED <<wrapperVars, libzmqVars, misordered>>
  BY DEF Proxy, Enter
<1>2. c \in Calls /\ c.call \notin Single
  BY DEF Calls, Single, Transfers, Sends, Receives, Attaching, Detaching
<1>. HIDE DEF c
<1>3. CallTypes' /\ inside'[t] = c /\ \A u \in Threads : u # t => inside'[u] = inside[u]
  BY <1>1, <1>2 DEF Staged, CallTypes
<1>4. ASSUME NEW u \in Threads, u # t
      PROVE  /\ inside'[u].call \in Single =>
                  \E r \in Sockets : inside'[u].socks = {r} /\ Owner[r] = u /\ open'[r]
             /\ Stage(inside[u])'
  BY <1>1, <1>3, <1>4, OtherCallsStay DEF wrapperVars, libzmqVars
<1>5. Stage(inside[t])'
  BY <1>2, <1>3 DEF Stage, Single
<1>6. Staged'
  BY <1>2, <1>3, <1>4, <1>5 DEF Staged, CallsOwn
<1>7. clash' \in BOOLEAN
  BY <1>1, TouchTyped
<1>q. QED
  BY <1>1, <1>6, <1>7 DEF Shapes, wrapperVars, libzmqVars

LEMMA EditTyped ==
  ASSUME Shapes, Staged, NEW s \in Sockets, EditEndpoints(s)
  PROVE  Shapes' /\ Staged'
<1>1. /\ endpoints' = [endpoints EXCEPT ![s] = <<>>]
      /\ UNCHANGED <<open, state, libzmqVars, inside, clash, misordered>>
  BY DEF EditEndpoints
<1>2. <<>> \in Seq(Written) /\ Len(<<>>) = 0
  OBVIOUS
<1>3. /\ endpoints' \in [Sockets -> Seq(Written)] /\ Len(endpoints'[s]) = 0
      /\ \A r \in Sockets : r # s => endpoints'[r] = endpoints[r]
  BY <1>1, <1>2 DEF Shapes
<1>4. \A r \in Sockets : Len(endpoints[r]) \in Nat
  BY LenProperties DEF Shapes
<1>5. \A r \in Sockets :
        Len(endpoints'[r]) \in Nat /\ Len(endpoints'[r]) <= Len(endpoints[r])
  BY <1>3, <1>4
<1>6. \A r \in Sockets : Len(endpoints'[r]) <= MaxEndpoints
  <2>1. \A r \in Sockets : Len(endpoints[r]) <= MaxEndpoints
    BY DEF Shapes
  <2>q. QED
    BY <1>4, <1>5, <2>1, ConstantsAssumption
<1>7. Shapes'
  BY <1>1, <1>3, <1>6 DEF Shapes, libzmqVars
<1>8. ASSUME NEW t \in Threads, Stage(inside[t])
      PROVE  Stage(inside[t])'
  <2>1. inside'[t] = inside[t] /\ attached' = attached
    BY <1>1 DEF libzmqVars
  <2>2. inside[t].call \in Attaching => inside[t].socks \subseteq Sockets
    BY SockOfCall DEF Single
  <2>3. inside[t].call \in Attaching =>
          \A r \in inside[t].socks : Len(endpoints'[r]) < MaxEndpoints
    <3>1. inside[t].call \in Attaching =>
            \A r \in inside[t].socks : r \in Sockets /\ Len(endpoints[r]) < MaxEndpoints
      BY <1>8, <2>2 DEF Stage
    <3>2. \A r \in Sockets : Len(endpoints[r]) < MaxEndpoints =>
                              Len(endpoints'[r]) < MaxEndpoints
      BY <1>4, <1>5, ConstantsAssumption
    <3>q. QED
      BY <3>1, <3>2
  <2>q. QED
    BY <1>8, <2>1, <2>3 DEF Stage
<1>9. Staged'
  BY <1>1, <1>8 DEF Staged, CallTypes, CallsOwn
<1>q. QED
  BY <1>7, <1>9

LEMMA NextTyped ==
  ASSUME Shapes /\ Staged, [Next]_vars
  PROVE  Shapes' /\ Staged'
<1>1. CASE UNCHANGED vars
  BY <1>1 DEF vars, wrapperVars, libzmqVars, Shapes, Staged, CallTypes, CallsOwn, Stage
<1>q. QED
  BY <1>1, CallTyped, ProgressTyped, ProxyTyped, EditTyped DEF Next

\* Sockets and calls keep their types whatever the program does, and a socket never
\* holds more endpoints than it was given (socket.c:98).
THEOREM CallsAreTyped == Spec => []TypeOK
<1>1. Shapes /\ Staged => TypeOK
  BY TypeOKIs DEF Staged
<1>q. QED
  BY <1>1, InitTyped, NextTyped, PTL DEF Spec

-----------------------------------------------------------------------------
(* What the wrapper knows of what libzmq holds                             *)

\* Nobody rewrites the endpoints behind the back of the wrapper.
Plain == {"edit_the_endpoints", "edit_the_argument"} \cap Risky = {}

\* The call that works on a socket for the thread that owns it.
CallOn(s) == IF s \in inside[Owner[s]].socks THEN inside[Owner[s]] ELSE NoCall

Listed(list) == [i \in DOMAIN list |-> list[i].as]
ByTheirKeys(list) == \A i \in DOMAIN list : list[i].as = list[i].key
BoundKeys(list) == {a.key : a \in {b \in ToSet(list) : b.how = "BOUND"}}

\* Has libzmq done what the wrapper has not noted yet?
Ahead(c) == c.call \in Attaching \cup Detaching /\ c.err = "ok"

MadeOf(c, old, now) ==
  /\ ~Ahead(c) => now = old
  /\ Ahead(c) /\ c.call \in Attaching =>
       \E a \in Attachments : a.as = a.key /\ now = Append(old, a)
  /\ Ahead(c) /\ c.call \in Detaching => now = Kept(old, c.arg)

\* The wrapper is at "old", what libzmq held before the call at work on the socket.
At(s, old) ==
  /\ endpoints[s] = Listed(old) /\ ByTheirKeys(old)
  /\ MadeOf(CallOn(s), old, attached[s])

\* What is bound is listed, or about to be, and not about to be struck out.
BoundKnown(s) ==
  LET c == CallOn(s)
  IN /\ BoundKeys(attached[s]) \subseteq
          ToSet(endpoints[s]) \cup
          (IF Ahead(c) /\ c.call \in Attaching THEN {LastEndpoint(s)} ELSE {})
     /\ Ahead(c) /\ c.call \in Detaching => c.arg \notin BoundKeys(attached[s])

\* The state goes by the list of endpoints.
StateGoes(s) ==
  IF CallOn(s).call = "close" THEN state[s] = "DISCONNECTED"
                              ELSE AssertNotPending(s) <=> endpoints[s] # <<>>

Tracked(s) ==
  IF open[s]
  THEN /\ StateGoes(s) /\ BoundKnown(s)
       /\ s \in aliased \/ \E old \in Seq(Attachments) : At(s, old)
  ELSE attached[s] = <<>> /\ state[s] = "DISCONNECTED"

MInv == Shapes /\ Staged /\ \A s \in Sockets : Tracked(s)

LEMMA NoCallIs ==
  /\ ~Ahead(NoCall) /\ NoCall.call # "close" /\ NoCall.call \notin Attaching
  /\ NoCall.socks = {} /\ NoCall.call # "connect"
BY DEF NoCall, Ahead, Attaching, Detaching

LEMMA CallOnIs ==
  ASSUME Staged, NEW t \in Threads, inside[t].call \in Single
  PROVE  CallOn(Sock(t)) = inside[t]
BY SockOfCall DEF CallOn

\* A step of one thread is about its own call: the others' sockets do not see it.
LEMMA CallOnOthers ==
  ASSUME NEW t \in Threads, \A u \in Threads : u # t => inside'[u] = inside[u],
         NEW r \in Sockets,
         \/ Owner[r] # t
         \/ r \notin inside[t].socks /\ r \notin inside'[t].socks
  PROVE  CallOn(r)' = CallOn(r)
BY ConstantsAssumption DEF CallOn

LEMMA SameTracked ==
  ASSUME NEW r \in Sockets, Tracked(r), CallOn(r)' = CallOn(r),
         open'[r] = open[r], attached'[r] = attached[r], state'[r] = state[r],
         endpoints'[r] = endpoints[r] \/ ~open[r], aliased \subseteq aliased'
  PROVE  Tracked(r)'
<1>1. CASE ~open[r]
  BY <1>1 DEF Tracked
<1>2. CASE open[r]
  <2>1. StateGoes(r)' /\ BoundKnown(r)'
    BY <1>2 DEF Tracked, StateGoes, BoundKnown, AssertNotPending, LastEndpoint
  <2>2. ASSUME NEW old \in Seq(Attachments), At(r, old)
        PROVE  At(r, old)'
    BY <1>2, <2>2 DEF At
  <2>q. QED
    BY <1>2, <2>1, <2>2 DEF Tracked
<1>q. QED
  BY <1>1, <1>2

\* A call that comes or goes without anything done changes nothing either.
LEMMA QuietTracked ==
  ASSUME NEW r \in Sockets, Tracked(r),
         ~Ahead(CallOn(r)), CallOn(r).call # "close",
         ~Ahead(CallOn(r)'), CallOn(r)'.call # "close",
         open'[r] = open[r], attached'[r] = attached[r], state'[r] = state[r],
         endpoints'[r] = endpoints[r], aliased \subseteq aliased'
  PROVE  Tracked(r)'
<1>1. CASE ~open[r]
  BY <1>1 DEF Tracked
<1>2. CASE open[r]
  <2>1. StateGoes(r)' /\ BoundKnown(r)'
    BY <1>2 DEF Tracked, StateGoes, BoundKnown, AssertNotPending
  <2>2. ASSUME NEW old \in Seq(Attachments), At(r, old)
        PROVE  At(r, old)'
    BY <1>2, <2>2 DEF At, MadeOf
  <2>q. QED
    BY <1>2, <2>1, <2>2 DEF Tracked
<1>q. QED
  BY <1>1, <1>2

\* Selecting the entries and listing them can be done in either order.
LEMMA ListedKept ==
  ASSUME NEW old \in Seq(Attachments), ByTheirKeys(old), NEW e
  PROVE  /\ Kept(old, e) \in Seq(Attachments)
         /\ Others(Listed(old), e) = Listed(Kept(old, e))
         /\ ByTheirKeys(Kept(old, e))
<1>. DEFINE K == {i \in DOMAIN old : old[i].key # e}
            kept == EntriesAt(old, K)
            n == Cardinality(K)
            place == Ascending(K)
<1>1. Kept(old, e) = kept
  BY DEF Kept
<1>2. DOMAIN Listed(old) = DOMAIN old /\ \A i \in DOMAIN old : Listed(old)[i] = old[i].as
  BY DEF Listed
<1>3. {i \in DOMAIN Listed(old) : Listed(old)[i] # e} = K
  BY <1>2 DEF ByTheirKeys
<1>4. Others(Listed(old), e) = EntriesAt(Listed(old), K)
  BY <1>3 DEF Others
<1>5. kept = [m \in 1..n |-> old[place[m]]]
  BY DEF EntriesAt
<1>6. EntriesAt(Listed(old), K) = [m \in 1..n |-> Listed(old)[place[m]]]
  BY DEF EntriesAt
<1>7. K \in SUBSET DOMAIN old
  OBVIOUS
<1>. HIDE DEF K
<1>8. place \in [1..n -> K]
  <2>1. DOMAIN old = 1..Len(old) /\ Len(old) \in Nat
    BY LenProperties
  <2>2. CanBeOrdered(K)
    BY <1>7, <2>1, Enumerable
  <2>q. QED
    BY <2>2 DEF CanBeOrdered, Ascending, Increasing
<1>9. kept \in Seq(Attachments)
  BY <1>7, LeftOver
<1>. HIDE DEF place, n, kept
<1>10. DOMAIN kept = 1..n
  BY <1>5
<1>11. \A m \in 1..n : place[m] \in DOMAIN old /\ kept[m] = old[place[m]]
  BY <1>5, <1>7, <1>8
<1>12. Listed(kept) = [m \in 1..n |-> old[place[m]].as]
  BY <1>10, <1>11 DEF Listed
<1>13. Others(Listed(old), e) = [m \in 1..n |-> old[place[m]].as]
  BY <1>2, <1>4, <1>6, <1>11
<1>q. QED
  BY <1>1, <1>9, <1>10, <1>11, <1>12, <1>13 DEF ByTheirKeys

LEMMA ListedAppend ==
  ASSUME NEW old \in Seq(Attachments), ByTheirKeys(old),
         NEW a \in Attachments, a.as = a.key
  PROVE  /\ Append(old, a) \in Seq(Attachments) /\ Append(old, a) # <<>>
         /\ Last(Append(old, a)) = a
         /\ Append(Listed(old), a.as) = Listed(Append(old, a))
         /\ ByTheirKeys(Append(old, a))
<1>. DEFINE new == Append(old, a)
            n == Len(old)
<1>1. /\ new \in Seq(Attachments) /\ new # <<>> /\ Len(new) = n + 1
      /\ \A i \in 1..n : new[i] = old[i]
      /\ new[n + 1] = a
  BY AppendProperties
<1>2. n \in Nat /\ DOMAIN old = 1..n /\ DOMAIN new = 1..n + 1
  BY <1>1, LenProperties
<1>3. Last(new) = a
  BY <1>1 DEF Last
<1>4. Listed(old) \in Seq(Written) /\ Len(Listed(old)) = n
  <2>0. \A i \in DOMAIN old : old[i] \in Attachments
    OBVIOUS
  <2>1. \A i \in 1..n : old[i].as \in Written
    BY <1>2, <2>0 DEF Attachments
  <2>2. Listed(old) = [i \in 1..n |-> old[i].as]
    BY <1>2 DEF Listed
  <2>. HIDE DEF n
  <2>3. DOMAIN Listed(old) = 1..n /\ Listed(old) \in [1..n -> Written]
    BY <2>1, <2>2
  <2>q. QED
    BY <1>2, <2>3
<1>5. /\ Append(Listed(old), a.as) \in Seq(Written)
      /\ Len(Append(Listed(old), a.as)) = n + 1
      /\ \A i \in 1..n : Append(Listed(old), a.as)[i] = Listed(old)[i]
      /\ Append(Listed(old), a.as)[n + 1] = a.as
  BY <1>4, AppendProperties DEF Attachments
<1>. HIDE DEF new, n
<1>6. \A i \in DOMAIN new : i # n + 1 => i \in 1..n
  BY <1>2
<1>7. Append(Listed(old), a.as) = Listed(new)
  <2>1. Append(Listed(old), a.as) = [i \in 1..n + 1 |-> Append(Listed(old), a.as)[i]]
    BY <1>5, LenProperties
  <2>2. \A i \in 1..n + 1 : Append(Listed(old), a.as)[i] = new[i].as
    <3>1. \A i \in 1..n : Listed(old)[i] = old[i].as
      BY <1>2 DEF Listed
    <3>q. QED
      BY <1>1, <1>2, <1>5, <1>6, <3>1
  <2>3. Listed(new) = [i \in 1..n + 1 |-> new[i].as]
    BY <1>2 DEF Listed
  <2>q. QED
    BY <2>1, <2>2, <2>3
<1>8. ByTheirKeys(new)
  BY <1>1, <1>2, <1>6 DEF ByTheirKeys
<1>q. QED
  BY <1>1, <1>3, <1>7, <1>8 DEF new

\* What is listed after an entry was added, or all entries of a kind taken out.
LEMMA ToSetAppend ==
  ASSUME NEW S, NEW list \in Seq(S), NEW x \in S
  PROVE  /\ Append(list, x) \in Seq(S) /\ Append(list, x) # <<>> /\ Last(Append(list, x)) = x
         /\ ToSet(Append(list, x)) = ToSet(list) \cup {x}
<1>. DEFINE new == Append(list, x)
            n == Len(list)
<1>1. /\ new \in Seq(S) /\ new # <<>> /\ Len(new) = n + 1
      /\ \A i \in 1..n : new[i] = list[i]
      /\ new[n + 1] = x
  BY AppendProperties
<1>2. n \in Nat /\ DOMAIN list = 1..n /\ DOMAIN new = 1..n + 1
  BY <1>1, LenProperties
<1>3. Last(new) = x
  BY <1>1 DEF Last
<1>. HIDE DEF new, n
<1>4. \A i \in DOMAIN new : i # n + 1 => i \in 1..n
  BY <1>2
<1>5. n + 1 \in DOMAIN new /\ \A i \in 1..n : i \in DOMAIN new
  BY <1>2
<1>6. ToSet(new) = ToSet(list) \cup {x}
  BY <1>1, <1>2, <1>4, <1>5 DEF ToSet
<1>q. QED
  BY <1>1, <1>3, <1>6 DEF new

LEMMA ToSetOthers ==
  ASSUME NEW list \in Seq(Written), NEW e
  PROVE  ToSet(Others(list, e)) = ToSet(list) \ {e}
<1>1. ToSet(Others(list, e)) = {list[k] : k \in {i \in DOMAIN list : list[i] # e}}
  BY EntriesAtProperties DEF Others
<1>q. QED
  BY <1>1 DEF ToSet

LEMMA BoundKeysAppend ==
  ASSUME NEW list \in Seq(Attachments), NEW a \in Attachments, a.how = "BOUND" => a.as = a.key
  PROVE  BoundKeys(Append(list, a)) \subseteq BoundKeys(list) \cup {a.as}
BY ToSetAppend DEF BoundKeys

LEMMA BoundKeysKept ==
  ASSUME NEW list \in Seq(Attachments), NEW e
  PROVE  BoundKeys(Kept(list, e)) \subseteq BoundKeys(list) \ {e}
<1>1. ToSet(Kept(list, e)) = {list[k] : k \in {i \in DOMAIN list : list[i].key # e}}
  BY EntriesAtProperties DEF Kept
<1>2. \A b \in ToSet(Kept(list, e)) : b \in ToSet(list) /\ b.key # e
  BY <1>1 DEF ToSet
<1>q. QED
  BY <1>2 DEF BoundKeys

QuietCall(c) == ~Ahead(c) /\ c.call # "close"

\* Calls that come, go, or come to nothing.
LEMMA QuietStep ==
  ASSUME MInv, NEW t \in Threads, \A u \in Threads : u # t => inside'[u] = inside[u],
         QuietCall(inside[t]), QuietCall(inside'[t]),
         UNCHANGED <<wrapperVars, attached>>, aliased \subseteq aliased'
  PROVE  \A r \in Sockets : Tracked(r)'
<1>. SUFFICES ASSUME NEW r \in Sockets PROVE Tracked(r)'
  OBVIOUS
<1>1. Tracked(r) /\ open'[r] = open[r] /\ attached'[r] = attached[r]
      /\ state'[r] = state[r] /\ endpoints'[r] = endpoints[r]
  BY DEF MInv, wrapperVars
<1>2. CASE Owner[r] # t
  BY <1>1, <1>2, CallOnOthers, SameTracked
<1>3. CASE Owner[r] = t
  <2>1. QuietCall(CallOn(r))
    BY <1>3, NoCallIs DEF CallOn, QuietCall
  <2>2. QuietCall(CallOn(r)')
    BY <1>3, NoCallIs DEF CallOn, QuietCall
  <2>q. QED
    BY <1>1, <2>1, <2>2, QuietTracked DEF QuietCall
<1>q. QED
  BY <1>2, <1>3

\* The sockets a call is not on.
LEMMA ElsewhereTracked ==
  ASSUME MInv, NEW t \in Threads, NEW s \in Sockets,
         \A u \in Threads : u # t => inside'[u] = inside[u],
         inside[t].socks \subseteq {s}, inside'[t].socks \subseteq {s},
         \A r \in Sockets : r # s =>
           /\ open'[r] = open[r] /\ attached'[r] = attached[r]
           /\ state'[r] = state[r] /\ endpoints'[r] = endpoints[r],
         aliased \subseteq aliased'
  PROVE  \A r \in Sockets : r # s => Tracked(r)'
<1>. SUFFICES ASSUME NEW r \in Sockets, r # s PROVE Tracked(r)'
  OBVIOUS
<1>1. Tracked(r)
  BY DEF MInv
<1>2. CallOn(r)' = CallOn(r)
  BY CallOnOthers
<1>q. QED
  BY <1>1, <1>2, SameTracked

LEMMA Entered ==
  ASSUME Staged, NEW t \in Threads, NEW socks, NEW call, NEW arg, Enter(t, socks, call, arg)
  PROVE  /\ inside[t] = NoCall
         /\ inside'[t] = [socks |-> socks, call |-> call, arg |-> arg, err |-> "none"]
         /\ \A u \in Threads : u # t => inside'[u] = inside[u]
BY DEF Enter, Staged, CallTypes

LEMMA Returned ==
  ASSUME Staged, NEW t \in Threads, inside[t].call \in Single, NEW err, LibzmqReturns(t, err)
  PROVE  /\ inside'[t].socks = inside[t].socks /\ inside'[t].call = inside[t].call
         /\ inside'[t].arg = inside[t].arg /\ inside'[t].err = err
         /\ \A u \in Threads : u # t => inside'[u] = inside[u]
<1>1. inside[t] \in Calls
  BY SockOfCall
<1>2. inside'[t] = [inside[t] EXCEPT !.err = err]
  BY DEF LibzmqReturns, Staged, CallTypes
<1>q. QED
  BY <1>1, <1>2 DEF Calls, LibzmqReturns, Staged, CallTypes

LEMMA Left ==
  ASSUME Staged, NEW t \in Threads, Leave(t)
  PROVE  inside'[t] = NoCall /\ \A u \in Threads : u # t => inside'[u] = inside[u]
BY DEF Leave, Staged, CallTypes

LEMMA EnterTracked ==
  ASSUME MInv, NEW t \in Threads, NEW socks \in SUBSET Sockets, NEW call, call # "close",
         NEW arg, Enter(t, socks, call, arg), UNCHANGED <<wrapperVars, libzmqVars>>
  PROVE  \A r \in Sockets : Tracked(r)'
<1>. DEFINE c == [socks |-> socks, call |-> call, arg |-> arg, err |-> "none"]
<1>1. /\ inside[t] = NoCall /\ inside'[t] = c
      /\ \A u \in Threads : u # t => inside'[u] = inside[u]
  BY Entered DEF MInv
<1>2. c.call = call /\ c.err = "none"
  OBVIOUS
<1>. HIDE DEF c
<1>3. QuietCall(c) /\ QuietCall(NoCall)
  BY <1>2, NoCallIs DEF QuietCall, Ahead
<1>q. QED
  BY <1>1, <1>3, QuietStep DEF libzmqVars

\* A call comes to nothing in libzmq, or is not about attachments.
LEMMA ReturnsTracked ==
  ASSUME MInv, NEW t \in Threads, inside[t].call \in Single, inside[t].call # "close",
         inside[t].err = "none", NEW err, LibzmqReturns(t, err),
         err # "ok" \/ inside[t].call \notin Attaching \cup Detaching,
         UNCHANGED <<wrapperVars, attached, aliased>>
  PROVE  \A r \in Sockets : Tracked(r)'
<1>1. /\ inside'[t].call = inside[t].call /\ inside'[t].err = err
      /\ \A u \in Threads : u # t => inside'[u] = inside[u]
  BY Returned DEF MInv
<1>2. QuietCall(inside[t]) /\ QuietCall(inside'[t])
  BY <1>1 DEF QuietCall, Ahead
<1>q. QED
  BY <1>1, <1>2, QuietStep

LEMMA LeaveTracked ==
  ASSUME MInv, NEW t \in Threads, QuietCall(inside[t]), Leave(t),
         UNCHANGED <<wrapperVars, libzmqVars>>
  PROVE  \A r \in Sockets : Tracked(r)'
<1>1. inside'[t] = NoCall /\ \A u \in Threads : u # t => inside'[u] = inside[u]
  BY Left DEF MInv
<1>q. QED
  BY <1>1, NoCallIs, QuietStep DEF QuietCall, libzmqVars

\* libzmq has attached the socket.
LEMMA AttachesTracked ==
  ASSUME MInv, NEW t \in Threads, inside[t].call \in Attaching, inside[t].err = "none",
         NEW a \in Attachments, a.how = "BOUND" => a.as = a.key,
         LibzmqAttaches(t, a), UNCHANGED wrapperVars,
         NEW s \in Sockets, s = Sock(t),
         aliased \subseteq aliased', a.as = a.key \/ s \in aliased'
  PROVE  \A r \in Sockets : Tracked(r)'
<1>1. inside[t].call \in Single /\ inside[t].call # "close" /\ inside[t].call \notin Detaching
  BY DEF Single, Attaching, Detaching
<1>2. /\ s \in Sockets /\ Owner[s] = t /\ open[s] /\ inside[t].socks = {s}
      /\ CallOn(s) = inside[t] /\ attached[s] \in Seq(Attachments)
  BY <1>1, SockOfCall, CallOnIs DEF MInv, Shapes
<1>3. /\ inside'[t].socks = {s} /\ inside'[t].call = inside[t].call
      /\ inside'[t].arg = inside[t].arg /\ inside'[t].err = "ok"
      /\ \A u \in Threads : u # t => inside'[u] = inside[u]
  BY <1>1, <1>2, Returned DEF MInv, LibzmqAttaches
<1>4. /\ attached'[s] = Append(attached[s], a)
      /\ \A r \in Sockets : r # s => attached'[r] = attached[r]
  BY <1>2 DEF LibzmqAttaches, MInv, Shapes
<1>5. CallOn(s)' = inside'[t]
  BY <1>2, <1>3 DEF CallOn
<1>6. ~Ahead(inside[t]) /\ Ahead(inside'[t])
  BY <1>3 DEF Ahead
<1>7. StateGoes(s) /\ BoundKnown(s) /\ (s \in aliased \/ \E old \in Seq(Attachments) : At(s, old))
  BY <1>2 DEF MInv, Tracked
<1>8. StateGoes(s)'
  BY <1>1, <1>2, <1>3, <1>5, <1>7 DEF StateGoes, AssertNotPending, wrapperVars
<1>9. BoundKnown(s)'
  <2>1. BoundKeys(attached'[s]) \subseteq BoundKeys(attached[s]) \cup {a.as}
    BY <1>2, <1>4, BoundKeysAppend
  <2>2. LastEndpoint(s)' = a.as
    BY <1>2, <1>4, ToSetAppend DEF LastEndpoint
  <2>3. BoundKeys(attached[s]) \subseteq ToSet(endpoints[s])
    BY <1>2, <1>6, <1>7 DEF BoundKnown
  <2>4. inside'[t].call \in Attaching /\ inside'[t].call \notin Detaching
    BY <1>1, <1>3
  <2>q. QED
    BY <1>5, <1>6, <2>1, <2>2, <2>3, <2>4 DEF BoundKnown, wrapperVars
<1>10. ASSUME s \notin aliased'
       PROVE  \E old \in Seq(Attachments) : At(s, old)'
  <2>1. PICK old \in Seq(Attachments) : At(s, old)
    BY <1>7, <1>10
  <2>2. attached[s] = old /\ a.as = a.key
    BY <1>2, <1>6, <1>10, <2>1 DEF At, MadeOf
  <2>3. MadeOf(inside'[t], old, attached'[s])
    BY <1>1, <1>3, <1>4, <1>6, <2>2 DEF MadeOf
  <2>4. At(s, old)'
    BY <1>5, <2>1, <2>3 DEF At, wrapperVars
  <2>q. QED
    BY <2>4
<1>11. Tracked(s)'
  BY <1>2, <1>8, <1>9, <1>10 DEF Tracked, wrapperVars
<1>12. \A r \in Sockets : r # s => Tracked(r)'
  BY <1>2, <1>3, <1>4, ElsewhereTracked DEF wrapperVars
<1>q. QED
  BY <1>11, <1>12

\* libzmq has ended what was under the key.
LEMMA TerminateTracked ==
  ASSUME MInv, NEW t \in Threads, inside[t].call \in Detaching, inside[t].err = "none",
         Terminate(t), UNCHANGED wrapperVars, NEW s \in Sockets, s = Sock(t)
  PROVE  \A r \in Sockets : Tracked(r)'
<1>. DEFINE kept == Kept(attached[s], inside[t].arg)
<1>1. inside[t].call \in Single /\ inside[t].call # "close" /\ inside[t].call \notin Attaching
  BY DEF Single, Attaching, Detaching
<1>2. /\ s \in Sockets /\ Owner[s] = t /\ open[s] /\ inside[t].socks = {s}
      /\ CallOn(s) = inside[t] /\ attached[s] \in Seq(Attachments)
  BY <1>1, SockOfCall, CallOnIs DEF MInv, Shapes
<1>3. CASE LibzmqFails(t)
  BY <1>1, <1>3, ReturnsTracked DEF LibzmqFails, libzmqVars
<1>4. CASE ~LibzmqFails(t)
  <2>1. /\ attached' = [attached EXCEPT ![s] = kept]
        /\ LibzmqReturns(t, "ok") /\ aliased' = aliased
    BY <1>4 DEF Terminate
  <2>2. /\ inside'[t].socks = {s} /\ inside'[t].call = inside[t].call
        /\ inside'[t].arg = inside[t].arg /\ inside'[t].err = "ok"
        /\ \A u \in Threads : u # t => inside'[u] = inside[u]
    BY <1>1, <1>2, <2>1, Returned DEF MInv
  <2>3. ~Ahead(inside[t]) /\ Ahead(inside'[t])
    BY <2>2 DEF Ahead
  <2>4. /\ attached'[s] = Kept(attached[s], inside[t].arg)
        /\ \A r \in Sockets : r # s => attached'[r] = attached[r]
    BY <1>2, <2>1 DEF MInv, Shapes
  <2>5. CallOn(s)' = inside'[t]
    BY <1>2, <2>2 DEF CallOn
  <2>6. /\ StateGoes(s) /\ BoundKnown(s)
        /\ s \in aliased \/ \E old \in Seq(Attachments) : At(s, old)
    BY <1>2 DEF MInv, Tracked
  <2>7. StateGoes(s)'
    BY <1>1, <1>2, <2>2, <2>5, <2>6 DEF StateGoes, AssertNotPending, wrapperVars
  <2>8. BoundKnown(s)'
    <3>1. BoundKeys(attached'[s]) \subseteq BoundKeys(attached[s]) \ {inside[t].arg}
      BY <1>2, <2>4, BoundKeysKept
    <3>2. BoundKeys(attached[s]) \subseteq ToSet(endpoints[s])
      BY <1>2, <2>3, <2>6 DEF BoundKnown
    <3>3. inside'[t].call \notin Attaching
      BY <1>1, <2>2
    <3>q. QED
      BY <2>2, <2>5, <3>1, <3>2, <3>3 DEF BoundKnown, wrapperVars
  <2>9. ASSUME s \notin aliased
        PROVE  \E old \in Seq(Attachments) : At(s, old)'
    <3>1. PICK old \in Seq(Attachments) : At(s, old)
      BY <2>6, <2>9
    <3>2. attached[s] = old
      BY <1>2, <2>3, <3>1 DEF At, MadeOf
    <3>3. MadeOf(inside'[t], old, attached'[s])
      BY <1>1, <2>2, <2>3, <2>4, <3>2 DEF MadeOf
    <3>4. At(s, old)'
      BY <2>5, <3>1, <3>3 DEF At, wrapperVars
    <3>q. QED
      BY <3>4
  <2>10. Tracked(s)'
    BY <1>2, <2>1, <2>7, <2>8, <2>9 DEF Tracked, wrapperVars
  <2>11. \A r \in Sockets : r # s => Tracked(r)'
    BY <1>2, <2>1, <2>2, <2>4, ElsewhereTracked DEF wrapperVars
  <2>q. QED
    BY <2>10, <2>11
<1>q. QED
  BY <1>3, <1>4

\* The method notes what libzmq has attached.
LEMMA AttachReturnTracked ==
  ASSUME MInv, NEW t \in Threads, inside[t].call \in Attaching, inside[t].err # "none",
         NEW s \in Sockets, s = Sock(t), NEW how \in {"BOUND", "CONNECTED"},
         AttachReturn(t, s, how, LastEndpoint(s))
  PROVE  \A r \in Sockets : Tracked(r)'
<1>1. /\ inside[t].call \in Single /\ inside[t].call # "close"
      /\ inside[t].call \notin Detaching
  BY DEF Single, Attaching, Detaching
<1>2. /\ Owner[s] = t /\ open[s] /\ inside[t].socks = {s} /\ CallOn(s) = inside[t]
      /\ inside[t].err \in {"ok", "failed"}
  BY <1>1, SockOfCall, CallOnIs DEF MInv, Staged, Stage
<1>3. CASE inside[t].err = "failed"
  <2>1. UNCHANGED <<wrapperVars, libzmqVars>> /\ Leave(t)
    BY <1>3 DEF AttachReturn, wrapperVars, libzmqVars
  <2>2. QuietCall(inside[t])
    BY <1>1, <1>3 DEF QuietCall, Ahead
  <2>q. QED
    BY <2>1, <2>2, LeaveTracked
<1>4. CASE inside[t].err = "ok"
  <2>. DEFINE x == LastEndpoint(s)
  <2>1. /\ endpoints' = [endpoints EXCEPT ![s] = Append(endpoints[s], x)]
        /\ state' = [state EXCEPT ![s] = how] /\ Leave(t)
        /\ UNCHANGED <<open, attached, aliased>>
    BY <1>4 DEF AttachReturn, libzmqVars
  <2>2. inside'[t] = NoCall /\ \A u \in Threads : u # t => inside'[u] = inside[u]
    BY <2>1, Left DEF MInv
  <2>3. /\ endpoints'[s] = Append(endpoints[s], x) /\ state'[s] = how
        /\ \A r \in Sockets : r # s => endpoints'[r] = endpoints[r] /\ state'[r] = state[r]
    BY <2>1 DEF MInv, Shapes
  <2>4. CallOn(s)' = NoCall
    BY <1>2, <2>2, NoCallIs DEF CallOn
  <2>5. x \in Written
    <3>1. attached[s] # <<>> /\ attached[s] \in Seq(Attachments)
      BY <1>1, <1>2, <1>4 DEF MInv, Shapes, Staged, Stage
    <3>2. Len(attached[s]) \in DOMAIN attached[s]
      BY <3>1, EmptySeq, LenProperties
    <3>3. Last(attached[s]) \in Attachments
      BY <3>1, <3>2 DEF Last
    <3>q. QED
      BY <3>3 DEF LastEndpoint, Attachments
  <2>6. /\ endpoints'[s] # <<>> /\ ToSet(endpoints'[s]) = ToSet(endpoints[s]) \cup {x}
    <3>1. endpoints[s] \in Seq(Written)
      BY DEF MInv, Shapes
    <3>. HIDE DEF x
    <3>q. QED
      BY <2>3, <2>5, <3>1, ToSetAppend
  <2>7. /\ BoundKnown(s)
        /\ s \in aliased \/ \E old \in Seq(Attachments) : At(s, old)
    BY <1>2 DEF MInv, Tracked
  <2>8. StateGoes(s)'
    BY <2>3, <2>4, <2>6, NoCallIs DEF StateGoes, AssertNotPending
  <2>9. BoundKnown(s)'
    <3>1. BoundKeys(attached[s]) \subseteq ToSet(endpoints[s]) \cup {x}
      BY <1>2, <2>7 DEF BoundKnown
    <3>. HIDE DEF x
    <3>q. QED
      BY <2>1, <2>4, <2>6, <3>1, NoCallIs DEF BoundKnown
  <2>10. ASSUME s \notin aliased
         PROVE  \E new \in Seq(Attachments) : At(s, new)'
    <3>1. PICK old \in Seq(Attachments) : At(s, old)
      BY <2>7, <2>10
    <3>2. PICK a \in Attachments : a.as = a.key /\ attached[s] = Append(old, a)
      BY <1>2, <1>4, <3>1 DEF At, MadeOf, Ahead
    <3>. DEFINE new == Append(old, a)
    <3>3. ByTheirKeys(old) /\ endpoints[s] = Listed(old)
      BY <3>1 DEF At
    <3>4. /\ new \in Seq(Attachments) /\ Last(new) = a
          /\ Append(Listed(old), a.as) = Listed(new) /\ ByTheirKeys(new)
      BY <3>2, <3>3, ListedAppend
    <3>. HIDE DEF new
    <3>5. endpoints'[s] = Listed(new) /\ attached'[s] = new
      BY <2>1, <2>3, <3>2, <3>3, <3>4 DEF LastEndpoint, new
    <3>6. At(s, new)'
      BY <2>4, <3>4, <3>5, NoCallIs DEF At, MadeOf
    <3>q. QED
      BY <3>4, <3>6
  <2>11. Tracked(s)'
    BY <1>2, <2>1, <2>8, <2>9, <2>10 DEF Tracked
  <2>12. \A r \in Sockets : r # s => Tracked(r)'
    BY <1>2, <2>1, <2>2, <2>3, NoCallIs, ElsewhereTracked
  <2>q. QED
    BY <2>11, <2>12
<1>q. QED
  BY <1>2, <1>3, <1>4

\* The method strikes out what libzmq has ended.
LEMMA DetachReturnTracked ==
  ASSUME Plain, MInv, NEW t \in Threads, inside[t].call \in Detaching,
         inside[t].err # "none", NEW s \in Sockets, s = Sock(t), DetachReturn(t, s)
  PROVE  \A r \in Sockets : Tracked(r)'
<1>1. /\ inside[t].call \in Single /\ inside[t].call # "close"
      /\ inside[t].call \notin Attaching
  BY DEF Single, Attaching, Detaching
<1>2. /\ Owner[s] = t /\ open[s] /\ inside[t].socks = {s} /\ CallOn(s) = inside[t]
      /\ inside[t].err \in {"ok", "failed"}
  BY <1>1, SockOfCall, CallOnIs DEF MInv, Staged, Stage
<1>3. CASE inside[t].err = "failed"
  <2>1. UNCHANGED <<wrapperVars, libzmqVars>> /\ Leave(t)
    BY <1>3 DEF DetachReturn, wrapperVars, libzmqVars
  <2>2. QuietCall(inside[t])
    BY <1>1, <1>3 DEF QuietCall, Ahead
  <2>q. QED
    BY <2>1, <2>2, LeaveTracked
<1>4. CASE inside[t].err = "ok"
  <2>. DEFINE e == inside[t].arg
  <2>1. /\ endpoints' = [endpoints EXCEPT ![s] = Others(endpoints[s], e)]
        /\ state' = IF endpoints'[s] = <<>>
                    THEN [state EXCEPT ![s] = "DISCONNECTED"] ELSE state
        /\ Leave(t) /\ UNCHANGED <<open, attached, aliased>>
    BY <1>4 DEF DetachReturn, Plain, libzmqVars
  <2>2. inside'[t] = NoCall /\ \A u \in Threads : u # t => inside'[u] = inside[u]
    BY <2>1, Left DEF MInv
  <2>3. /\ endpoints'[s] = Others(endpoints[s], e)
        /\ \A r \in Sockets : r # s => endpoints'[r] = endpoints[r] /\ state'[r] = state[r]
        /\ state'[s] = IF endpoints'[s] = <<>> THEN "DISCONNECTED" ELSE state[s]
    BY <2>1 DEF MInv, Shapes
  <2>4. CallOn(s)' = NoCall
    BY <1>2, <2>2, NoCallIs DEF CallOn
  <2>5. /\ StateGoes(s) /\ BoundKnown(s)
        /\ s \in aliased \/ \E old \in Seq(Attachments) : At(s, old)
    BY <1>2 DEF MInv, Tracked
  <2>. HIDE DEF e
  <2>6. endpoints[s] = <<>> => endpoints'[s] = <<>>
    <3>1. endpoints[s] \in Seq(Written)
      BY DEF MInv, Shapes
    <3>2. Others(endpoints[s], e) \in Seq(Written)
          /\ Len(Others(endpoints[s], e)) <= Len(endpoints[s])
      BY <3>1, LeftOver DEF Others
    <3>q. QED
      BY <2>3, <3>1, <3>2, EmptySeq, LenProperties
  <2>7. StateGoes(s)'
    <3>1. AssertNotPending(s) <=> endpoints[s] # <<>>
      BY <1>1, <1>2, <2>5 DEF StateGoes
    <3>2. CASE endpoints'[s] = <<>>
      BY <2>3, <2>4, <3>2, NoCallIs DEF StateGoes, AssertNotPending
    <3>3. CASE endpoints'[s] # <<>>
      BY <2>3, <2>4, <2>6, <3>1, <3>3, NoCallIs DEF StateGoes, AssertNotPending
    <3>q. QED
      BY <3>2, <3>3
  <2>8. BoundKnown(s)'
    <3>1. /\ BoundKeys(attached[s]) \subseteq ToSet(endpoints[s])
          /\ e \notin BoundKeys(attached[s])
      BY <1>1, <1>2, <1>4, <2>5 DEF BoundKnown, Ahead, e
    <3>2. ToSet(endpoints'[s]) = ToSet(endpoints[s]) \ {e}
      BY <2>3, ToSetOthers DEF MInv, Shapes
    <3>q. QED
      BY <2>1, <2>4, <3>1, <3>2, NoCallIs DEF BoundKnown
  <2>9. ASSUME s \notin aliased
        PROVE  \E new \in Seq(Attachments) : At(s, new)'
    <3>1. PICK old \in Seq(Attachments) : At(s, old)
      BY <2>5, <2>9
    <3>2. attached[s] = Kept(old, e)
      BY <1>2, <1>4, <3>1 DEF At, MadeOf, Ahead, e
    <3>3. ByTheirKeys(old) /\ endpoints[s] = Listed(old)
      BY <3>1 DEF At
    <3>4. PICK new \in Seq(Attachments) :
            new = attached[s] /\ Others(Listed(old), e) = Listed(new) /\ ByTheirKeys(new)
      BY <3>2, <3>3, ListedKept
    <3>5. endpoints'[s] = Listed(new) /\ attached'[s] = new
      BY <2>1, <2>3, <3>3, <3>4
    <3>6. At(s, new)'
      BY <2>4, <3>4, <3>5, NoCallIs DEF At, MadeOf
    <3>q. QED
      BY <3>6
  <2>10. Tracked(s)'
    BY <1>2, <2>1, <2>7, <2>8, <2>9 DEF Tracked
  <2>11. \A r \in Sockets : r # s => Tracked(r)'
    BY <1>2, <2>1, <2>2, <2>3, NoCallIs, ElsewhereTracked
  <2>q. QED
    BY <2>10, <2>11
<1>q. QED
  BY <1>2, <1>3, <1>4

LEMMA CloseTracked ==
  ASSUME MInv, NEW t \in Threads, NEW s \in Sockets, SocketClose(t, s)
  PROVE  \A r \in Sockets : Tracked(r)'
<1>1. /\ inside[t] = NoCall /\ inside'[t].socks = {s} /\ inside'[t].call = "close"
      /\ inside'[t].err = "none"
      /\ \A u \in Threads : u # t => inside'[u] = inside[u]
  <2>1. /\ inside[t] = NoCall
        /\ inside'[t] = [socks |-> {s}, call |-> "close", arg |-> "-", err |-> "none"]
        /\ \A u \in Threads : u # t => inside'[u] = inside[u]
    BY Entered DEF MInv, SocketClose
  <2>q. QED
    BY <2>1
<1>2. /\ Owner[s] = t /\ open[s] /\ UNCHANGED <<open, endpoints, attached, aliased>>
      /\ state' = [state EXCEPT ![s] = "DISCONNECTED"]
  BY DEF SocketClose, GuardCrossThread, Enter, libzmqVars
<1>3. /\ state'[s] = "DISCONNECTED" /\ \A r \in Sockets : r # s => state'[r] = state[r]
  BY <1>2 DEF MInv, Shapes
<1>4. CallOn(s) = NoCall /\ CallOn(s)' = inside'[t]
  BY <1>1, <1>2, NoCallIs DEF CallOn
<1>5. /\ BoundKnown(s)
      /\ s \in aliased \/ \E old \in Seq(Attachments) : At(s, old)
  BY <1>2 DEF MInv, Tracked
<1>6. ~Ahead(inside'[t])
  BY <1>1 DEF Ahead
<1>7. StateGoes(s)' /\ BoundKnown(s)'
  <2>1. StateGoes(s)'
    BY <1>1, <1>3, <1>4 DEF StateGoes
  <2>2. BoundKeys(attached[s]) \subseteq ToSet(endpoints[s])
    BY <1>4, <1>5, NoCallIs DEF BoundKnown
  <2>3. BoundKnown(s)'
    BY <1>2, <1>4, <1>6, <2>2 DEF BoundKnown
  <2>q. QED
    BY <2>1, <2>3
<1>8. ASSUME NEW old \in Seq(Attachments), At(s, old)
      PROVE  At(s, old)'
  BY <1>2, <1>4, <1>6, <1>8, NoCallIs DEF At, MadeOf
<1>9. Tracked(s)'
  BY <1>2, <1>5, <1>7, <1>8 DEF Tracked
<1>10. \A r \in Sockets : r # s => Tracked(r)'
  BY <1>1, <1>2, <1>3, NoCallIs, ElsewhereTracked
<1>q. QED
  BY <1>9, <1>10

LEMMA CloseReturnTracked ==
  ASSUME MInv, NEW t \in Threads, CloseReturn(t), NEW s \in Sockets, s = Sock(t)
  PROVE  \A r \in Sockets : Tracked(r)'
<1>1. inside[t].call \in Single /\ inside[t].call = "close"
  BY DEF CloseReturn, Working, Single
<1>2. /\ Owner[s] = t /\ open[s] /\ inside[t].socks = {s} /\ CallOn(s) = inside[t]
  BY <1>1, SockOfCall, CallOnIs DEF MInv
<1>3. /\ attached' = [attached EXCEPT ![s] = <<>>] /\ open' = [open EXCEPT ![s] = FALSE]
      /\ Leave(t) /\ UNCHANGED <<state, endpoints, aliased>>
  BY DEF CloseReturn
<1>4. inside'[t] = NoCall /\ \A u \in Threads : u # t => inside'[u] = inside[u]
  BY <1>3, Left DEF MInv
<1>5. state[s] = "DISCONNECTED"
  BY <1>1, <1>2 DEF MInv, Tracked, StateGoes
<1>6. /\ attached'[s] = <<>> /\ ~open'[s]
      /\ \A r \in Sockets : r # s => attached'[r] = attached[r] /\ open'[r] = open[r]
  BY <1>3 DEF MInv, Shapes
<1>7. Tracked(s)'
  BY <1>3, <1>5, <1>6 DEF Tracked
<1>8. \A r \in Sockets : r # s => Tracked(r)'
  <2>1. inside[t].socks \subseteq {s} /\ inside'[t].socks \subseteq {s}
    BY <1>2, <1>4, NoCallIs
  <2>2. \A r \in Sockets : state'[r] = state[r] /\ endpoints'[r] = endpoints[r]
    BY <1>3
  <2>q. QED
    BY <1>3, <1>4, <1>6, <2>1, <2>2, ElsewhereTracked
<1>q. QED
  BY <1>7, <1>8

LEMMA MInvInit == Init => MInv
<1>. SUFFICES ASSUME Init PROVE MInv
  OBVIOUS
<1>1. Shapes /\ Staged
  BY InitTyped
<1>2. ASSUME NEW s \in Sockets
      PROVE  Tracked(s)
  <2>1. /\ open[s] /\ endpoints[s] = <<>> /\ attached[s] = <<>> /\ state[s] = "PENDING"
        /\ CallOn(s) = NoCall
    BY NoCallIs, ConstantsAssumption DEF Init, CallOn
  <2>2. DOMAIN <<>> = {} /\ <<>> \in Seq(Attachments)
    OBVIOUS
  <2>3. Listed(<<>>) = <<>>
    BY <2>2 DEF Listed
  <2>4. ByTheirKeys(<<>>) /\ BoundKeys(<<>>) = {}
    BY <2>2 DEF ByTheirKeys, BoundKeys, ToSet
  <2>5. At(s, <<>>)
    BY <2>1, <2>3, <2>4, NoCallIs DEF At, MadeOf
  <2>6. StateGoes(s) /\ BoundKnown(s)
    BY <2>1, <2>4, NoCallIs DEF StateGoes, BoundKnown, AssertNotPending
  <2>q. QED
    BY <2>1, <2>2, <2>5, <2>6 DEF Tracked
<1>q. QED
  BY <1>1, <1>2 DEF MInv

LEMMA CallTracked ==
  ASSUME Plain, MInv, NEW t \in Threads, NEW s \in Sockets, Call(t, s)
  PROVE  \A r \in Sockets : Tracked(r)'
<1>1. {s} \in SUBSET Sockets
  OBVIOUS
<1>2. ASSUME NEW e \in Written, SocketBind(t, s, e) \/ SocketConnect(t, s, e)
      PROVE  \A r \in Sockets : Tracked(r)'
  <2>1. PICK call \in Attaching : Attach(t, s, call, e)
    BY <1>2 DEF SocketBind, SocketConnect, Attaching
  <2>2. call # "close"
    BY DEF Attaching
  <2>q. QED
    BY <1>1, <2>1, <2>2, EnterTracked DEF Attach
<1>3. ASSUME NEW call \in Transfers \cup Detaching \cup {"poll"}, NEW e,
             Enter(t, {s}, call, e), UNCHANGED <<wrapperVars, libzmqVars>>
      PROVE  \A r \in Sockets : Tracked(r)'
  <2>1. call # "close"
    BY DEF Detaching, Transfers, Sends, Receives
  <2>q. QED
    BY <1>1, <1>3, <2>1, EnterTracked
<1>4. CASE SetSockOpt(t, s) \/ ReadSockOpt(t, s)
  <2>1. UNCHANGED <<wrapperVars, libzmqVars, inside>>
    BY <1>4 DEF SetSockOpt, ReadSockOpt
  <2>2. \A r \in Sockets : CallOn(r)' = CallOn(r)
    BY <2>1 DEF CallOn
  <2>q. QED
    BY <2>1, <2>2, SameTracked DEF MInv, wrapperVars, libzmqVars
<1>5. CASE SocketClose(t, s)
  BY <1>5, CloseTracked
<1>6. ASSUME NEW call \in Transfers, Transfer(t, s, call)
      PROVE  \A r \in Sockets : Tracked(r)'
  BY <1>3, <1>6 DEF Transfer
<1>7. ASSUME NEW e \in Written, SocketDisconnect(t, s, e) \/ SocketUnbind(t, s, e)
      PROVE  \A r \in Sockets : Tracked(r)'
  BY <1>3, <1>7 DEF SocketDisconnect, SocketUnbind, Detach, Detaching
<1>8. CASE SocketPoll(t, s)
  BY <1>3, <1>8 DEF SocketPoll
<1>q. QED
  BY <1>2, <1>4, <1>5, <1>6, <1>7, <1>8
     DEF Call, SocketSend, SocketSendm, SocketSendFrame, SocketSendMessage, SocketRecv,
         SocketRecvNonblock, SocketRecvFrame, SocketRecvFrameNonblock, SocketRecvMessage,
         Transfers, Sends, Receives

LEMMA ProgressTracked ==
  ASSUME Plain, MInv, NEW t \in Threads, Progress(t)
  PROVE  \A r \in Sockets : Tracked(r)'
<1>. USE DEF Working, Done
<1>1. CASE NogvlSocketBind(t) \/ NogvlSocketConnect(t)
  <2>1. /\ inside[t].call \in Attaching /\ inside[t].call \in Single
        /\ inside[t].call # "close" /\ inside[t].err = "none" /\ UNCHANGED wrapperVars
    BY <1>1 DEF NogvlSocketBind, NogvlSocketConnect, Attaching, Single
  <2>2. PICK s \in Sockets : s = Sock(t)
    BY <2>1, SockOfCall DEF MInv
  <2>3. inside[t].arg \in Written /\ inside[t].socks = {s}
    BY <2>1, <2>2, SockOfCall DEF MInv, Staged, Stage
  <2>4. CASE LibzmqFails(t)
    BY <2>1, <2>4, ReturnsTracked DEF LibzmqFails, libzmqVars
  <2>5. ASSUME NEW k \in Spelled[inside[t].arg], UNCHANGED aliased,
               LibzmqAttaches(t, [how |-> "BOUND", key |-> k, as |-> k])
        PROVE  \A r \in Sockets : Tracked(r)'
    <3>1. [how |-> "BOUND", key |-> k, as |-> k] \in Attachments
      BY <2>3, ConstantsAssumption DEF Attachments
    <3>q. QED
      BY <2>1, <2>2, <2>5, <3>1, AttachesTracked
  <2>6. ASSUME NEW k \in Spelled[inside[t].arg],
               aliased' = IF k = inside[t].arg THEN aliased ELSE aliased \cup inside[t].socks,
               LibzmqAttaches(t, [how |-> "CONNECTED", key |-> inside[t].arg, as |-> k])
        PROVE  \A r \in Sockets : Tracked(r)'
    <3>1. [how |-> "CONNECTED", key |-> inside[t].arg, as |-> k] \in Attachments
      BY <2>3, ConstantsAssumption DEF Attachments
    <3>2. aliased \subseteq aliased' /\ (k = inside[t].arg \/ s \in aliased')
      BY <2>3, <2>6
    <3>q. QED
      BY <2>1, <2>2, <2>6, <3>1, <3>2, AttachesTracked
  <2>q. QED
    BY <1>1, <2>4, <2>5, <2>6 DEF NogvlSocketBind, NogvlSocketConnect
<1>2. CASE BindReturn(t) \/ ConnectReturn(t)
  <2>1. /\ inside[t].call \in Attaching /\ inside[t].call \in Single
        /\ inside[t].err # "none"
    BY <1>2 DEF BindReturn, ConnectReturn, Attaching, Single
  <2>2. PICK how \in {"BOUND", "CONNECTED"} :
          AttachReturn(t, Sock(t), how, LastEndpoint(Sock(t)))
    BY <1>2 DEF BindReturn, ConnectReturn
  <2>3. PICK s \in Sockets : s = Sock(t)
    BY <2>1, SockOfCall DEF MInv
  <2>q. QED
    BY <2>1, <2>2, <2>3, AttachReturnTracked
<1>3. CASE NogvlSocketDisconnect(t) \/ NogvlSocketUnbind(t)
  <2>1. /\ inside[t].call \in Detaching /\ inside[t].call \in Single
        /\ inside[t].err = "none" /\ Terminate(t) /\ UNCHANGED wrapperVars
    BY <1>3 DEF NogvlSocketDisconnect, NogvlSocketUnbind, Detaching, Single
  <2>2. PICK s \in Sockets : s = Sock(t)
    BY <2>1, SockOfCall DEF MInv
  <2>q. QED
    BY <2>1, <2>2, TerminateTracked
<1>4. CASE DisconnectReturn(t) \/ UnbindReturn(t)
  <2>1. /\ inside[t].call \in Detaching /\ inside[t].call \in Single
        /\ inside[t].err # "none" /\ DetachReturn(t, Sock(t))
    BY <1>4 DEF DisconnectReturn, UnbindReturn, Detaching, Single
  <2>2. PICK s \in Sockets : s = Sock(t)
    BY <2>1, SockOfCall DEF MInv
  <2>q. QED
    BY <2>1, <2>2, DetachReturnTracked
<1>5. CASE NogvlTransfer(t)
  <2>1. /\ inside[t].call \in Single /\ inside[t].call \notin Attaching \cup Detaching
        /\ inside[t].call # "close" /\ inside[t].err = "none"
    BY <1>5 DEF NogvlTransfer, Single, Attaching, Detaching, Transfers, Sends, Receives
  <2>2. PICK err : LibzmqReturns(t, err)
    BY <1>5 DEF NogvlTransfer
  <2>3. UNCHANGED <<wrapperVars, attached, aliased>>
    BY <1>5 DEF NogvlTransfer
  <2>q. QED
    BY <2>1, <2>2, <2>3, ReturnsTracked
<1>6. CASE TransferReturn(t) \/ PollReturn(t)
  <2>1. inside[t].call \notin Attaching \cup Detaching /\ inside[t].call # "close"
    BY <1>6 DEF TransferReturn, PollReturn, Attaching, Detaching, Transfers, Sends, Receives
  <2>2. Leave(t) /\ UNCHANGED <<wrapperVars, libzmqVars>>
    BY <1>6 DEF TransferReturn, PollReturn
  <2>q. QED
    BY <2>1, <2>2, LeaveTracked DEF QuietCall, Ahead
<1>7. CASE CloseReturn(t)
  <2>1. inside[t].call \in Single
    BY <1>7 DEF CloseReturn, Single
  <2>2. PICK s \in Sockets : s = Sock(t)
    BY <2>1, SockOfCall DEF MInv
  <2>q. QED
    BY <1>7, <2>2, CloseReturnTracked
<1>q. QED
  BY <1>1, <1>2, <1>3, <1>4, <1>5, <1>6, <1>7 DEF Progress

LEMMA MInvNext ==
  ASSUME Plain, MInv, [Next]_vars
  PROVE  MInv'
<1>1. Shapes' /\ Staged'
  BY NextTyped DEF MInv
<1>2. ASSUME NEW t \in Threads, NEW socks \in SUBSET Sockets, Proxy(t, socks)
      PROVE  \A r \in Sockets : Tracked(r)'
  BY <1>2, EnterTracked DEF Proxy
<1>3. ASSUME NEW s \in Sockets, EditEndpoints(s)
      PROVE  \A r \in Sockets : Tracked(r)'
  <2>1. /\ ~open[s] /\ endpoints' = [endpoints EXCEPT ![s] = <<>>]
        /\ UNCHANGED <<open, state, attached, aliased, inside>>
    BY <1>3 DEF EditEndpoints, Plain, libzmqVars
  <2>2. \A r \in Sockets : endpoints'[r] = endpoints[r] \/ ~open[r]
    BY <2>1 DEF MInv, Shapes
  <2>3. \A r \in Sockets : CallOn(r)' = CallOn(r)
    BY <2>1 DEF CallOn
  <2>q. QED
    BY <2>1, <2>2, <2>3, SameTracked DEF MInv
<1>4. CASE UNCHANGED vars
  <2>1. \A r \in Sockets : CallOn(r)' = CallOn(r)
    BY <1>4 DEF CallOn, vars
  <2>q. QED
    BY <1>1, <1>4, <2>1, SameTracked DEF MInv, vars, wrapperVars, libzmqVars
<1>5. \A r \in Sockets : Tracked(r)'
  BY <1>2, <1>3, <1>4, CallTracked, ProgressTracked DEF Next, MInv
<1>q. QED
  BY <1>1, <1>5 DEF MInv

LEMMA EmptyListed ==
  ASSUME NEW list \in Seq(Attachments), Listed(list) \in Seq(Written)
  PROVE  Listed(list) = <<>> <=> list = <<>>
<1>1. DOMAIN Listed(list) = DOMAIN list
  BY DEF Listed
<1>2. list = <<>> <=> DOMAIN list = {}
  BY EmptySeq, LenProperties
<1>3. Listed(list) = <<>> <=> DOMAIN Listed(list) = {}
  BY EmptySeq, LenProperties
<1>q. QED
  BY <1>1, <1>2, <1>3

LEMMA AtRestTracked ==
  ASSUME MInv, NEW s \in Sockets, AtRest(s)
  PROVE  /\ open[s] /\ s \notin aliased => endpoints[s] = Listed(attached[s])
         /\ s \notin aliased => (AssertNotPending(s) <=> attached[s] # <<>>)
         /\ open[s] => /\ BoundKeys(attached[s]) \subseteq ToSet(endpoints[s])
                       /\ endpoints[s] # <<>> => AssertNotPending(s)
<1>1. CallOn(s) = NoCall /\ Tracked(s)
  BY ConstantsAssumption DEF AtRest, CallOn, MInv
<1>2. CASE open[s]
  <2>1. AssertNotPending(s) <=> endpoints[s] # <<>>
    BY <1>1, <1>2, NoCallIs DEF Tracked, StateGoes
  <2>2. BoundKeys(attached[s]) \subseteq ToSet(endpoints[s])
    BY <1>1, <1>2, NoCallIs DEF Tracked, BoundKnown
  <2>3. s \notin aliased => endpoints[s] = Listed(attached[s])
    BY <1>1, <1>2, NoCallIs DEF Tracked, At, MadeOf
  <2>4. s \notin aliased => (endpoints[s] = <<>> <=> attached[s] = <<>>)
    BY <2>3, EmptyListed DEF MInv, Shapes
  <2>q. QED
    BY <1>2, <2>1, <2>2, <2>3, <2>4
<1>3. CASE ~open[s]
  BY <1>1, <1>3 DEF Tracked, AssertNotPending
<1>q. QED
  BY <1>2, <1>3

\* Between calls sock.endpoints is what libzmq has the socket attached to, whatever
\* was attached or undone in between, failed, or raced with the calls of other
\* threads, unless the socket was once connected under another name (socket.c:98).
THEOREM EndpointsAreMirrored ==
  ASSUME Plain
  PROVE  Spec => []UnaliasedMirror
<1>1. MInv => UnaliasedMirror
  BY AtRestTracked DEF UnaliasedMirror, Mirrors, Listed
<1>2. MInv /\ [Next]_vars => MInv'
  BY MInvNext
<1>q. QED
  BY <1>1, <1>2, MInvInit, PTL DEF Spec

\* Between calls the state of such a socket says that it is attached to nothing just
\* when it is, closed sockets included (socket.c:466).
THEOREM StateIsHonest ==
  ASSUME Plain
  PROVE  Spec => []UnaliasedState
<1>1. MInv => UnaliasedState
  BY AtRestTracked DEF UnaliasedState
<1>2. MInv /\ [Next]_vars => MInv'
  BY MInvNext
<1>q. QED
  BY <1>1, <1>2, MInvInit, PTL DEF Spec

\* Whatever names a socket was connected under, nothing it is bound to is missing in
\* its endpoints between calls, nor does its state deny it (socket.c:313-316).
THEOREM BindingsAreKnown ==
  ASSUME Plain
  PROVE  Spec => []BoundIsKnown
<1>1. ASSUME MInv, NEW s \in Sockets, open[s], AtRest(s), NEW i \in DOMAIN attached[s],
             attached[s][i].how = "BOUND"
      PROVE  attached[s][i].key \in ToSet(endpoints[s]) /\ AssertNotPending(s)
  <2>1. attached[s][i].key \in BoundKeys(attached[s])
    BY <1>1 DEF BoundKeys, ToSet
  <2>2. attached[s][i].key \in ToSet(endpoints[s])
    BY <1>1, <2>1, AtRestTracked
  <2>3. endpoints[s] # <<>>
    BY <2>2 DEF ToSet
  <2>q. QED
    BY <1>1, <2>2, <2>3, AtRestTracked
<1>2. MInv => BoundIsKnown
  BY <1>1 DEF BoundIsKnown
<1>3. MInv /\ [Next]_vars => MInv'
  BY MInvNext
<1>q. QED
  BY <1>2, <1>3, MInvInit, PTL DEF Spec

=============================================================================
