----------------------------- MODULE PollerProofs -----------------------------
(***************************************************************************)
(* What a poller keeps for every number of threads, sockets and items.     *)
(*                                                                         *)
(* That the pollset is fresh and the types need nothing of the program.    *)
(* The rest is for programs that leave a poller alone while it polls and   *)
(* close no socket it watches: then a poll call works on one array from    *)
(* its beginning to its end, and that array is the registered items.       *)
(***************************************************************************)
EXTENDS Poller, FiniteSetTheorems, SequenceTheorems, TLAPS

-----------------------------------------------------------------------------
(* Selecting positions of a sequence                                       *)

\* The least-number principle for a set, from the well-foundedness of < on Nat.
LEMMA LeastOf ==
  ASSUME NEW T \in SUBSET Nat, T # {}
  PROVE  \E x \in T : \A y \in T : x <= y
<1>. DEFINE below == OpToRel(<, Nat)
<1>1. IsWellFoundedOn(below, Nat)
  BY NatLessThanWellFounded
<1>2. PICK x \in T : \A y \in T : ~(<<y, x>> \in below)
  BY <1>1, WFMin
<1>3. ASSUME NEW y \in T PROVE x <= y
  <2>1. \A i, j \in Nat : <<i, j>> \in below <=> i < j
    BY DEF OpToRel
  <2>2. x \in Nat /\ y \in Nat /\ ~(<<y, x>> \in below)
    BY <1>2
  <2>3. ~(y < x)
    BY <2>1, <2>2
  <2>4. x \in Nat /\ y \in Nat
    OBVIOUS
  <2>. HIDE DEF below
  <2>q. QED
    BY <2>3, <2>4
<1>q. QED
  BY <1>3

LEMMA Positions ==
  ASSUME NEW n \in Nat
  PROVE  IsFiniteSet(1..n) /\ Cardinality(1..n) = n
<1>1. 1 \in Int /\ n \in Int
  OBVIOUS
<1>2. IsFiniteSet(1..n) /\ Cardinality(1..n) = IF 1 > n THEN 0 ELSE n - 1 + 1
  BY <1>1, FS_Interval, Zenon
<1>q. QED
  BY <1>2

Increasing(f, n) == \A i, j \in 1..n : i < j => f[i] < f[j]
CanBeOrdered(L) == \E f \in [1..Cardinality(L) -> L] : Increasing(f, Cardinality(L))

\* What can be ordered without its greatest element can be ordered with it.
LEMMA OrderedWithLast ==
  ASSUME NEW n \in Nat \ {0}, NEW L \in SUBSET (1..n), n \in L, CanBeOrdered(L \ {n})
  PROVE  CanBeOrdered(L)
<1>. DEFINE k == Cardinality(L)
<1>1. IsFiniteSet(1..n)
  BY Positions
<1>2. IsFiniteSet(L)
  BY <1>1, FS_Subset
<1>3. k \in Nat /\ k # 0
  BY <1>2, FS_CardinalityType, FS_EmptySet
<1>4. Cardinality(L \ {n}) = k - 1
  BY <1>2, FS_RemoveElement
<1>5. PICK g \in [1..k - 1 -> L \ {n}] : Increasing(g, k - 1)
  BY <1>4 DEF CanBeOrdered
<1>. HIDE DEF k
<1>. DEFINE f == [i \in 1..k |-> IF i = k THEN n ELSE g[i]]
<1>6. \A i \in 1..k : i # k => i \in 1..k - 1
  BY <1>3
<1>7. \A i \in 1..k - 1 : g[i] \in 1..n - 1
  <2>1. \A i \in 1..k - 1 : g[i] \in L \ {n}
    BY <1>5
  <2>2. L \ {n} \subseteq 1..n - 1
    OBVIOUS
  <2>q. QED
    BY <2>1, <2>2
<1>8. f \in [1..k -> L]
  BY <1>3, <1>5, <1>6
<1>9. ASSUME NEW i \in 1..k, NEW j \in 1..k, i < j PROVE f[i] < f[j]
  <2>1. i \in 1..k - 1
    BY <1>3, <1>9
  <2>2. CASE j = k
    BY <1>7, <2>1, <2>2, <1>9
  <2>3. CASE j # k
    BY <1>5, <1>6, <1>7, <1>9, <2>1, <2>3 DEF Increasing
  <2>q. QED
    BY <2>2, <2>3
<1>10. Increasing(f, k)
  BY <1>9 DEF Increasing
<1>q. QED
  BY <1>8, <1>10 DEF CanBeOrdered, k

\* Every set of positions can be gone through in order: otherwise there is a least
\* length that has a set which cannot, and without its last position it could.
LEMMA Enumerable ==
  ASSUME NEW N \in Nat, NEW K \in SUBSET (1..N)
  PROVE  CanBeOrdered(K)
<1>. DEFINE Bad(n) == \E L \in SUBSET (1..n) : ~CanBeOrdered(L)
            T == {n \in Nat : Bad(n)}
<1>. SUFFICES ASSUME T # {} PROVE FALSE
  OBVIOUS
<1>1. PICK n \in T : \A m \in T : n <= m
  BY LeastOf
<1>2. n \in Nat /\ Bad(n)
  OBVIOUS
<1>3. \A m \in Nat : Bad(m) => n <= m
  BY <1>1
<1>4. n # 0
  <2>1. CanBeOrdered({})
    <3>1. Cardinality({}) = 0
      BY FS_EmptySet
    <3>2. <<>> \in [1..0 -> {}] /\ Increasing(<<>>, 0)
      BY DEF Increasing
    <3>q. QED
      BY <3>1, <3>2 DEF CanBeOrdered
  <2>2. 1..0 = {}
    OBVIOUS
  <2>3. ~Bad(0)
    BY <2>1, <2>2
  <2>q. QED
    BY <1>2, <2>3
<1>5. n - 1 \in Nat /\ ~Bad(n - 1)
  BY <1>2, <1>3, <1>4
<1>6. PICK L \in SUBSET (1..n) : ~CanBeOrdered(L)
  BY <1>2
<1>7. n \in L
  <2>1. n \notin L => L \in SUBSET (1..n - 1)
    BY <1>2
  <2>q. QED
    BY <1>5, <1>6, <2>1
<1>8. L \ {n} \in SUBSET (1..n - 1)
  BY <1>2
<1>9. CanBeOrdered(L \ {n})
  BY <1>5, <1>8
<1>q. QED
  BY <1>2, <1>4, <1>6, <1>7, <1>9, OrderedWithLast

\* What selecting positions of a sequence returns.
LEMMA EntriesAtProperties ==
  ASSUME NEW S, NEW s \in Seq(S), NEW K \in SUBSET DOMAIN s
  PROVE  /\ EntriesAt(s, K) \in Seq(S)
         /\ Len(EntriesAt(s, K)) = Cardinality(K)
         /\ Len(EntriesAt(s, K)) <= Len(s)
         /\ K # DOMAIN s => Len(EntriesAt(s, K)) < Len(s)
         /\ ToSet(EntriesAt(s, K)) = {s[k] : k \in K}
<1>. DEFINE N == Len(s)
            c == Cardinality(K)
            place == Ascending(K)
            r == EntriesAt(s, K)
<1>1. N \in Nat /\ DOMAIN s = 1..N /\ K \in SUBSET (1..N)
  BY LenProperties
<1>2. /\ IsFiniteSet(1..N) /\ Cardinality(1..N) = N /\ IsFiniteSet(K)
      /\ c \in Nat /\ c <= N /\ (K # 1..N => c < N)
  <2>1. IsFiniteSet(1..N) /\ Cardinality(1..N) = N
    BY <1>1, Positions
  <2>2. IsFiniteSet(K) /\ c <= N /\ (c = N => K = 1..N)
    BY <1>1, <2>1, FS_Subset
  <2>3. c \in Nat
    BY <2>2, FS_CardinalityType
  <2>q. QED
    BY <1>1, <2>1, <2>2, <2>3
<1>3. place \in [1..c -> K] /\ Increasing(place, c)
  <2>1. CanBeOrdered(K)
    BY <1>1, Enumerable
  <2>q. QED
    BY <2>1 DEF CanBeOrdered, Ascending, Increasing
<1>4. place \in Injection(1..c, K)
  <2>1. \A i, j \in 1..c : i # j => place[i] # place[j]
    <3>. SUFFICES ASSUME NEW i \in 1..c, NEW j \in 1..c, i < j PROVE place[i] # place[j]
      BY <1>2
    <3>1. place[i] < place[j] /\ place[i] \in 1..N
      BY <1>1, <1>3 DEF Increasing
    <3>q. QED
      BY <3>1
  <2>q. QED
    BY <1>3, <2>1 DEF Injection, IsInjective
<1>5. \A k \in K : \E i \in 1..c : place[i] = k
  <2>1. IsFiniteSet(1..c) /\ Cardinality(1..c) = c
    BY <1>2, Positions
  <2>2. place \in Surjection(1..c, K)
    BY <1>2, <1>4, <2>1, FS_Injection
  <2>q. QED
    BY <2>2 DEF Surjection
<1>. HIDE DEF place
<1>6. r = [n \in 1..c |-> s[place[n]]]
  BY DEF EntriesAt, place
<1>7. r \in Seq(S) /\ Len(r) = c
  BY <1>1, <1>2, <1>3, <1>6
<1>8. ToSet(r) = {s[k] : k \in K}
  BY <1>3, <1>5, <1>6 DEF ToSet
<1>q. QED
  BY <1>1, <1>2, <1>7, <1>8

-----------------------------------------------------------------------------
(* The registration                                                        *)

Registered ==
  /\ pollables \in Seq(Items) /\ pollset \in Seq(Items)
  /\ poll_size \in 0..MaxLength /\ Len(pollables) <= poll_size
  /\ dirty \in BOOLEAN
  /\ ~dirty => pollset = pollables

\* Adding an item keeps the count at least the length of the array.
LEMMA AddItemRegisters ==
  ASSUME Registered, NEW i \in Items, AddItem(i), pollset' = pollset
  PROVE  Registered'
<1>1. pollables' \in Seq(Items) /\ Len(pollables') = Len(pollables) + 1
  BY AppendProperties DEF Registered, AddItem
<1>2. poll_size' \in 0..MaxLength /\ Len(pollables') <= poll_size'
  BY <1>1, ConstantsAssumption, LenProperties DEF Registered, AddItem
<1>q. QED
  BY <1>1, <1>2 DEF Registered, AddItem

\* What is left without the item at some position.
LEMMA WithoutProperties ==
  ASSUME Registered, NEW pos \in DOMAIN pollables
  PROVE  /\ Without(pollables[pos]) \in Seq(Items)
         /\ Len(Without(pollables[pos])) < Len(pollables)
         /\ ToSet(Without(pollables[pos])) \subseteq ToSet(pollables)
<1>. DEFINE K == {k \in DOMAIN pollables : pollables[k] # pollables[pos]}
<1>1. pollables \in Seq(Items) /\ K \in SUBSET DOMAIN pollables /\ K # DOMAIN pollables
  BY DEF Registered
<1>2. Without(pollables[pos]) = EntriesAt(pollables, K)
  BY DEF Without
<1>. HIDE DEF K
<1>3. /\ EntriesAt(pollables, K) \in Seq(Items)
      /\ Len(EntriesAt(pollables, K)) < Len(pollables)
      /\ ToSet(EntriesAt(pollables, K)) = {pollables[k] : k \in K}
  BY <1>1, EntriesAtProperties
<1>q. QED
  BY <1>1, <1>2, <1>3 DEF ToSet

\* Taking items out counts one of them only, so the count stays at least the length.
LEMMA DeleteMatchRegisters ==
  ASSUME Registered, NEW p, DeleteMatch(p), pollset' = pollset
  PROVE  Registered'
<1>1. PICK pos \in DOMAIN pollables :
        /\ pollables' = Without(pollables[pos])
        /\ poll_size' = poll_size - 1
        /\ dirty' = TRUE
  BY DEF DeleteMatch
<1>2. pollables' \in Seq(Items) /\ Len(pollables') < Len(pollables)
  BY <1>1, WithoutProperties
<1>3. Len(pollables) \in Nat /\ Len(pollables') \in Nat
  BY <1>2, LenProperties DEF Registered
<1>4. poll_size' \in 0..MaxLength /\ Len(pollables') <= poll_size'
  BY <1>1, <1>2, <1>3, ConstantsAssumption DEF Registered
<1>q. QED
  BY <1>1, <1>2, <1>4 DEF Registered

\* poll goes on when the count is the length, and then the copy is whole.
LEMMA PollRegisters ==
  ASSUME Registered, NEW t \in Threads, Poll(t)
  PROVE  Registered' /\ ~dirty' /\ poll_size = Len(pollables)
<1>1. poll_size = Len(pollables)
  BY LenProperties, ConstantsAssumption DEF Registered, Poll
<1>2. SubSeq(pollables, 1, poll_size) = pollables
  BY <1>1, SubSeqFull DEF Registered
<1>3. pollables' = pollables /\ poll_size' = poll_size
  BY DEF Poll
<1>4. CASE dirty
  BY <1>1, <1>2, <1>3, <1>4 DEF Registered, Poll, RebuildPollset
<1>5. CASE ~dirty
  BY <1>1, <1>3, <1>5 DEF Registered, Poll, pollsetVars
<1>q. QED
  BY <1>4, <1>5 DEF Registered

LEMMA RegisteredInit ==
  ASSUME Init
  PROVE  Registered
<1>1. <<>> \in Seq(Items) /\ Len(<<>>) = 0
  OBVIOUS
<1>2. pollables = <<>> /\ pollset = <<>>
  BY DEF Init
<1>3. pollables \in Seq(Items) /\ pollset \in Seq(Items) /\ Len(pollables) = 0
  BY <1>1, <1>2
<1>4. poll_size \in 0..MaxLength /\ Len(pollables) <= poll_size
  BY <1>3, ConstantsAssumption DEF Init
<1>5. dirty \in BOOLEAN /\ pollset = pollables
  BY <1>2 DEF Init
<1>q. QED
  BY <1>3, <1>4, <1>5 DEF Registered

LEMMA RegisteredNext ==
  ASSUME Registered, [Next]_vars
  PROVE  Registered'
<1>1. ASSUME UNCHANGED <<registerVars, pollset>> PROVE Registered'
  BY <1>1 DEF Registered, registerVars
<1>2. CASE UNCHANGED vars
  BY <1>1, <1>2 DEF vars, pollsetVars
<1>3. ASSUME NEW t \in Threads, NEW p \in Pollables, NEW evts,
             \/ PollitemNew(t, p, evts) \/ Close(t, p)
             \/ RegisterPollable(t, p) \/ RemovePollable(t, p)
      PROVE  Registered'
  <2>1. CASE PollitemNew(t, p, evts) \/ Close(t, p)
    BY <1>1, <2>1 DEF PollitemNew, Close, pollsetVars, registerVars
  <2>2. CASE RegisterPollable(t, p)
    BY <2>2, AddItemRegisters DEF RegisterPollable, MakeItem, pollsetVars
  <2>3. CASE RemovePollable(t, p)
    BY <2>3, DeleteMatchRegisters DEF RemovePollable, pollsetVars
  <2>q. QED
    BY <1>3, <2>1, <2>2, <2>3
<1>4. ASSUME NEW t \in Threads, NEW i \in Items, RegisterItem(t, i) \/ RemoveItem(t, i)
      PROVE  Registered'
  <2>1. CASE RegisterItem(t, i)
    BY <2>1, AddItemRegisters DEF RegisterItem, pollsetVars
  <2>2. CASE RemoveItem(t, i)
    BY <2>2, DeleteMatchRegisters DEF RemoveItem, pollsetVars
  <2>q. QED
    BY <1>4, <2>1, <2>2
<1>5. ASSUME NEW t \in Threads, SetVerbose(t) \/ NogvlPoll(t) \/ PollReturn(t)
      PROVE  Registered'
  BY <1>1, <1>5 DEF SetVerbose, NogvlPoll, PollReturn, pollsetVars
<1>6. ASSUME NEW t \in Threads, Poll(t)
      PROVE  Registered'
  BY <1>6, PollRegisters
<1>7. ASSUME NEW t \in Threads, PollRaises(t)
      PROVE  Registered'
  BY <1>7 DEF PollRaises, Registered, registerVars
<1>q. QED
  BY <1>2, <1>3, <1>4, <1>5, <1>6, <1>7 DEF Next

\* Whatever the program does, poll works on the pollset of the items registered
\* now unless it builds a new one first (poller.c:34).
THEOREM PollsetStaysFresh == Spec => []PollsetFresh
<1>1. Registered => PollsetFresh
  BY DEF Registered, PollsetFresh
<1>q. QED
  BY <1>1, RegisteredInit, RegisteredNext, PTL DEF Spec

-----------------------------------------------------------------------------
(* Types, whatever the program does                                        *)

\* Nil is none of the other values of the variables that may hold it.
LEMMA NilApart ==
  /\ Nil \notin Pollables
  /\ Nil \notin {"ready", "none", "failed"}
  /\ \A n \in Nat : Nil # n
  /\ \A n \in 0..MaxLength : Nil \notin [1..n -> SUBSET Events]
BY ConstantsAssumption DEF Pollables

CallsTyped ==
  /\ builds \in 0..MaxBuilds
  /\ poll_args \in [Threads -> 0..MaxBuilds \cup {Nil}]
  /\ poll_rc \in [Threads -> {"ready", "none", "failed", Nil}]
  /\ revents = Nil \/ revents \in [1..Len(pollset) -> SUBSET Events]
  /\ readables \in Seq(Pollables) /\ writables \in Seq(Pollables)
  /\ polled \subseteq Pollables \X Events

\* What was registered or copied was made, so it is about a pollable.
OnlyMade ==
  /\ open \subseteq Pollables
  /\ pollable \in [Items -> Pollables \cup {Nil}]
  /\ events \in [Items -> SUBSET Events]
  /\ verbose \in BOOLEAN /\ fault \in Faults
  /\ \A k \in DOMAIN pollables : pollables[k] \in Made
  /\ \A k \in DOMAIN pollset : pollset[k] \in Made

Typed == Registered /\ CallsTyped /\ OnlyMade

LEMMA TypedIsTypeOK == Typed => TypeOK
BY DEF Typed, Registered, CallsTyped, OnlyMade, TypeOK

LEMMA InitTyped ==
  ASSUME Init
  PROVE  Typed
<1>1. pollables = <<>> /\ pollset = <<>> /\ readables = <<>> /\ writables = <<>>
  BY DEF Init
<1>2. DOMAIN pollables = {} /\ DOMAIN pollset = {}
  BY <1>1
<1>3. OnlyMade
  BY <1>2 DEF Init, OnlyMade, Faults
<1>4. readables \in Seq(Pollables) /\ writables \in Seq(Pollables)
  BY <1>1
<1>5. builds \in 0..MaxBuilds
  BY ConstantsAssumption DEF Init
<1>6. CallsTyped
  BY <1>4, <1>5 DEF Init, CallsTyped
<1>q. QED
  BY <1>3, <1>6, RegisteredInit DEF Typed

\* An item made joins those made before.
LEMMA MakeItemMakes ==
  ASSUME OnlyMade, NEW t \in Threads, NEW p \in Pollables, NEW evts \in SUBSET Events,
         MakeItem(t, p, evts)
  PROVE  /\ open' = open /\ NextItem \in Made' /\ Made \subseteq Made'
         /\ pollable' \in [Items -> Pollables \cup {Nil}]
         /\ events' \in [Items -> SUBSET Events]
<1>1. /\ NextItem \in Items /\ open' = open
      /\ pollable' = [pollable EXCEPT ![NextItem] = p]
      /\ events' = [events EXCEPT ![NextItem] = evts]
  BY DEF MakeItem
<1>2. /\ pollable' \in [Items -> Pollables \cup {Nil}] /\ pollable'[NextItem] = p
      /\ events' \in [Items -> SUBSET Events]
      /\ \A i \in Items : i # NextItem => pollable'[i] = pollable[i]
  BY <1>1 DEF OnlyMade
<1>q. QED
  BY <1>1, <1>2, NilApart DEF Made

\* The array after an item was added, or a match taken out.
LEMMA AddItemOnlyMade ==
  ASSUME Registered, NEW S, NEW i \in Items \cap S, AddItem(i),
         \A k \in DOMAIN pollables : pollables[k] \in S
  PROVE  \A k \in DOMAIN pollables' : pollables'[k] \in S
BY AppendProperties DEF Registered, AddItem

LEMMA DeleteMatchOnlyMade ==
  ASSUME Registered, NEW p, DeleteMatch(p), NEW S,
         \A k \in DOMAIN pollables : pollables[k] \in S
  PROVE  \A k \in DOMAIN pollables' : pollables'[k] \in S
<1>1. PICK pos \in DOMAIN pollables : pollables' = Without(pollables[pos])
  BY DEF DeleteMatch
<1>2. ToSet(pollables') \subseteq ToSet(pollables)
  BY <1>1, WithoutProperties
<1>q. QED
  BY <1>2 DEF ToSet

\* What is read of an answer is about pollables, whoever changed the array since.
LEMMA SelectablesType ==
  ASSUME Typed, RebuildSelectables
  PROVE  readables' \in Seq(Pollables) /\ writables' \in Seq(Pollables)
<1>. DEFINE s == [k \in DOMAIN pollables |-> pollable[pollables[k]]]
            K(event) == {k \in DOMAIN pollables : k <= poll_size /\ event \in revents[k]}
<1>1. \A k \in DOMAIN pollables : pollable[pollables[k]] \in Pollables
  BY DEF Typed, OnlyMade, Made
<1>2. s \in Seq(Pollables) /\ DOMAIN s = DOMAIN pollables
  BY <1>1 DEF Typed, Registered
<1>3. \A event : K(event) \in SUBSET DOMAIN s
  BY <1>2
<1>4. /\ readables' = EntriesAt(s, K("POLLIN"))
      /\ writables' = EntriesAt(s, K("POLLOUT"))
  BY DEF RebuildSelectables, Selectables
<1>. HIDE DEF s, K
<1>q. QED
  BY <1>2, <1>3, <1>4, EntriesAtProperties

\* A step of the program that is about items or the array.
LEMMA ProgramKeepsType ==
  ASSUME Typed, Registered', OnlyMade',
         UNCHANGED <<pollsetVars, resultVars, callVars>>
  PROVE  Typed'
BY DEF Typed, CallsTyped, pollsetVars, resultVars, callVars

LEMMA NextTyped ==
  ASSUME Typed, [Next]_vars
  PROVE  Typed'
<1>. USE DEF Typed
<1>1. Registered'
  BY RegisteredNext
<1>2. CASE UNCHANGED vars
  <2>1. OnlyMade'
    BY <1>2 DEF vars, itemVars, registerVars, pollsetVars, OnlyMade, Made
  <2>q. QED
    BY <1>1, <1>2, <2>1, ProgramKeepsType DEF vars
<1>3. ASSUME NEW t \in Threads, NEW p \in Pollables, NEW evts \in SUBSET Events,
             PollitemNew(t, p, evts)
      PROVE  Typed'
  <2>1. OnlyMade'
    BY <1>3, MakeItemMakes DEF PollitemNew, registerVars, pollsetVars, OnlyMade
  <2>q. QED
    BY <1>1, <1>3, <2>1, ProgramKeepsType DEF PollitemNew
<1>4. ASSUME NEW t \in Threads, NEW p \in Pollables, Close(t, p)
      PROVE  Typed'
  <2>1. OnlyMade'
    BY <1>4 DEF Close, registerVars, pollsetVars, OnlyMade, Made
  <2>q. QED
    BY <1>1, <1>4, <2>1, ProgramKeepsType DEF Close
<1>5. ASSUME NEW t \in Threads, NEW p \in Pollables, RegisterPollable(t, p)
      PROVE  Typed'
  <2>1. /\ MakeItem(t, p, Events) /\ AddItem(NextItem)
        /\ UNCHANGED <<pollsetVars, resultVars, verbose, callVars, fault>>
    BY <1>5 DEF RegisterPollable
  <2>2. /\ open' = open /\ NextItem \in Made' /\ Made \subseteq Made'
        /\ pollable' \in [Items -> Pollables \cup {Nil}]
        /\ events' \in [Items -> SUBSET Events]
    BY <2>1, MakeItemMakes
  <2>3. NextItem \in Items /\ \A k \in DOMAIN pollables : pollables[k] \in Made'
    BY <2>2 DEF OnlyMade, Made
  <2>4. \A k \in DOMAIN pollables' : pollables'[k] \in Made'
    BY <2>1, <2>2, <2>3, AddItemOnlyMade
  <2>5. OnlyMade'
    BY <2>1, <2>2, <2>4 DEF OnlyMade, pollsetVars
  <2>q. QED
    BY <1>1, <2>1, <2>5, ProgramKeepsType
<1>6. ASSUME NEW t \in Threads, NEW p \in Pollables, RemovePollable(t, p)
      PROVE  Typed'
  <2>1. \A k \in DOMAIN pollables' : pollables'[k] \in Made
    BY <1>6, DeleteMatchOnlyMade DEF RemovePollable, OnlyMade
  <2>2. OnlyMade'
    BY <1>6, <2>1 DEF RemovePollable, itemVars, pollsetVars, OnlyMade, Made
  <2>q. QED
    BY <1>1, <1>6, <2>2, ProgramKeepsType DEF RemovePollable
<1>7. ASSUME NEW t \in Threads, NEW i \in Items, RegisterItem(t, i)
      PROVE  Typed'
  <2>1. \A k \in DOMAIN pollables' : pollables'[k] \in Made
    BY <1>7, AddItemOnlyMade DEF RegisterItem, OnlyMade
  <2>2. OnlyMade'
    BY <1>7, <2>1 DEF RegisterItem, itemVars, pollsetVars, OnlyMade, Made
  <2>q. QED
    BY <1>1, <1>7, <2>2, ProgramKeepsType DEF RegisterItem
<1>8. ASSUME NEW t \in Threads, NEW i \in Items, RemoveItem(t, i)
      PROVE  Typed'
  <2>1. \A k \in DOMAIN pollables' : pollables'[k] \in Made
    BY <1>8, DeleteMatchOnlyMade DEF RemoveItem, OnlyMade
  <2>2. OnlyMade'
    BY <1>8, <2>1 DEF RemoveItem, itemVars, pollsetVars, OnlyMade, Made
  <2>q. QED
    BY <1>1, <1>8, <2>2, ProgramKeepsType DEF RemoveItem
<1>9. ASSUME NEW t \in Threads, SetVerbose(t)
      PROVE  Typed'
  <2>1. OnlyMade'
    BY <1>9 DEF SetVerbose, itemVars, registerVars, pollsetVars, OnlyMade, Made
  <2>q. QED
    BY <1>1, <1>9, <2>1, ProgramKeepsType DEF SetVerbose
<1>10. ASSUME NEW t \in Threads, Poll(t)
       PROVE  Typed'
  <2>1. /\ poll_args' = [poll_args EXCEPT ![t] = builds']
        /\ readables' = <<>> /\ writables' = <<>>
        /\ UNCHANGED <<poll_rc, polled, fault, itemVars, pollables, verbose>>
    BY <1>10 DEF Poll
  <2>2. builds' \in 0..MaxBuilds
    BY <1>10, ConstantsAssumption DEF Poll, RebuildPollset, pollsetVars, CallsTyped
  <2>3. poll_args' \in [Threads -> 0..MaxBuilds \cup {Nil}]
    BY <2>1, <2>2 DEF CallsTyped
  <2>4. revents' = Nil \/ revents' \in [1..Len(pollset') -> SUBSET Events]
    BY <1>10 DEF Poll, RebuildPollset, pollsetVars, CallsTyped
  <2>5. readables' \in Seq(Pollables) /\ writables' \in Seq(Pollables)
    BY <2>1
  <2>6. CallsTyped'
    BY <2>1, <2>2, <2>3, <2>4, <2>5 DEF CallsTyped
  <2>7. pollset' = pollables'
    BY <1>1, <1>10, PollRegisters DEF Poll, Registered
  <2>8. OnlyMade'
    BY <2>1, <2>7 DEF itemVars, OnlyMade, Made
  <2>q. QED
    BY <1>1, <2>6, <2>8
<1>11. ASSUME NEW t \in Threads, PollRaises(t)
       PROVE  Typed'
  <2>1. /\ pollset' = <<>> /\ revents' = Nil /\ builds' = builds + 1 /\ builds < MaxBuilds
        /\ UNCHANGED <<itemVars, registerVars, resultVars, verbose, callVars, fault>>
    BY <1>11 DEF PollRaises
  <2>2. DOMAIN pollset' = {}
    BY <2>1
  <2>3. OnlyMade'
    BY <2>1, <2>2 DEF itemVars, registerVars, OnlyMade, Made
  <2>4. CallsTyped'
    BY <2>1, ConstantsAssumption DEF CallsTyped, resultVars, callVars
  <2>q. QED
    BY <1>1, <2>3, <2>4
<1>12. ASSUME NEW t \in Threads, NogvlPoll(t)
       PROVE  Typed'
  <2>1. UNCHANGED <<itemVars, registerVars, pollset, builds, resultVars, verbose, poll_args>>
    BY <1>12 DEF NogvlPoll
  <2>2. fault' \in Faults
    BY <1>12 DEF NogvlPoll, OnlyMade, Faults
  <2>3. OnlyMade'
    BY <2>1, <2>2 DEF itemVars, registerVars, OnlyMade, Made
  <2>4. CASE UNCHANGED <<revents, poll_rc, polled>>
    <3>1. CallsTyped'
      BY <2>1, <2>4 DEF CallsTyped, resultVars
    <3>q. QED
      BY <1>1, <2>3, <3>1
  <2>5. CASE ~UNCHANGED <<revents, poll_rc, polled>>
    <3>1. /\ revents' \in {r \in [DOMAIN pollset -> SUBSET Events] :
                             \A k \in DOMAIN pollset : r[k] \subseteq events[pollset[k]]}
          /\ polled' = UNION {{pollable[pollset[k]]} \X revents'[k] : k \in DOMAIN pollset}
          /\ \E rc \in IF polled' # {} THEN {"ready"} ELSE {"none", "failed"} :
               poll_rc' = [poll_rc EXCEPT ![t] = rc]
      BY <1>12, <2>5 DEF NogvlPoll
    <3>2. revents' \in [1..Len(pollset) -> SUBSET Events]
      BY <3>1, LenProperties DEF Registered
    <3>3. \A k \in DOMAIN pollset :
            pollable[pollset[k]] \in Pollables /\ revents'[k] \subseteq Events
      BY <3>1 DEF OnlyMade, Made
    <3>4. polled' \subseteq Pollables \X Events
      BY <3>1, <3>3
    <3>5. poll_rc' \in [Threads -> {"ready", "none", "failed", Nil}]
      BY <3>1 DEF CallsTyped
    <3>6. CallsTyped'
      BY <2>1, <3>2, <3>4, <3>5 DEF CallsTyped, resultVars
    <3>q. QED
      BY <1>1, <2>3, <3>6
  <2>q. QED
    BY <2>4, <2>5
<1>13. ASSUME NEW t \in Threads, PollReturn(t)
       PROVE  Typed'
  <2>1. UNCHANGED <<itemVars, registerVars, pollsetVars, verbose, polled>>
    BY <1>13 DEF PollReturn
  <2>2. fault' \in Faults
    BY <1>13 DEF PollReturn, OnlyMade, Faults
  <2>3. OnlyMade'
    BY <2>1, <2>2 DEF itemVars, registerVars, pollsetVars, OnlyMade, Made
  <2>4. /\ poll_args' = [poll_args EXCEPT ![t] = Nil]
        /\ poll_rc' = [poll_rc EXCEPT ![t] = Nil]
        /\ UNCHANGED resultVars \/ RebuildSelectables
    BY <1>13 DEF PollReturn
  <2>5. readables' \in Seq(Pollables) /\ writables' \in Seq(Pollables)
    BY <2>4, SelectablesType DEF CallsTyped, resultVars
  <2>6. CallsTyped'
    BY <2>1, <2>4, <2>5 DEF CallsTyped, pollsetVars
  <2>q. QED
    BY <1>1, <2>3, <2>6
<1>14. ASSUME Next PROVE Typed'
  BY <1>3, <1>4, <1>5, <1>6, <1>7, <1>8, <1>9, <1>10, <1>11, <1>12, <1>13, <1>14 DEF Next
<1>q. QED
  BY <1>2, <1>14

\* The variables of a poller keep their types, also when it is used while it polls:
\* the events zmq_poll wrote are as many as the entries of the pollset, or there are
\* none, and what readables and writables hold are sockets and IOs (poller.c:123).
THEOREM PollerTyped == Spec => []TypeOK
<1>1. Typed /\ [Next]_vars => Typed'
  BY NextTyped
<1>q. QED
  BY <1>1, InitTyped, TypedIsTypeOK, PTL DEF Spec

-----------------------------------------------------------------------------
(* A poller that is left alone while it polls                              *)

Careful == {"share_while_polling", "watch_what_is_closed"} \cap Risky = {}

ItemsMade ==
  /\ open \subseteq Pollables
  /\ pollable \in [Items -> Pollables \cup {Nil}]
  /\ events \in [Items -> SUBSET Events]
  /\ verbose \in BOOLEAN
  /\ \E n \in 0..MaxItems : Made = 1..n
  /\ \A k \in DOMAIN pollables : pollable[pollables[k]] \in open

AtRest == \A t \in Threads : poll_args[t] = Nil

\* A call has the array to itself, and the array is the items registered.
OneCall ==
  /\ \A t, u \in Threads : poll_args[t] # Nil /\ poll_args[u] # Nil => t = u
  /\ \A t \in Threads : poll_rc[t] # Nil => poll_args[t] # Nil
  /\ \A t \in Threads : poll_args[t] # Nil =>
       /\ poll_args[t] = builds /\ ~dirty /\ poll_size = Len(pollables)
       /\ readables = <<>> /\ writables = <<>>

FoundReady == UNION {{pollable[pollset[k]]} \X revents[k] : k \in DOMAIN pollset}
Reported == (ToSet(readables) \X {"POLLIN"}) \cup (ToSet(writables) \X {"POLLOUT"})

Results ==
  /\ \A t \in Threads : poll_rc[t] = "ready" => revents # Nil /\ polled = FoundReady
  /\ \A t \in Threads : poll_rc[t] \in {"none", "failed"} => polled = {}
  /\ AtRest => polled = Reported

IInv == Registered /\ ItemsMade /\ CallsTyped /\ OneCall /\ Results /\ NoBadPoll

\* Thread t may use the poller only when no call is under way.
LEMMA MayUseAtRest ==
  ASSUME Careful, OneCall, NEW t \in Threads, MayUse(t)
  PROVE  AtRest /\ \A u \in Threads : poll_rc[u] = Nil
<1>1. AtRest
  BY DEF Careful, MayUse, AtRest
<1>q. QED
  BY <1>1 DEF OneCall, AtRest

\* A registered item has been made.
LEMMA RegisteredAreMade ==
  ASSUME Registered, ItemsMade, NEW k \in DOMAIN pollables
  PROVE  pollables[k] \in Made /\ pollables[k] \in Items
<1>1. pollables[k] \in Items
  BY DEF Registered
<1>2. pollable[pollables[k]] # Nil
  BY NilApart DEF ItemsMade
<1>q. QED
  BY <1>1, <1>2 DEF Made

\* An item made is a new one, and changes nothing of those made before.
LEMMA MakeItemIsNew ==
  ASSUME ItemsMade, NEW t \in Threads, NEW p \in Pollables, NEW evts \in SUBSET Events,
         MakeItem(t, p, evts)
  PROVE  /\ NextItem \in Items /\ pollable'[NextItem] = p /\ p \in open
         /\ \A i \in Made : pollable'[i] = pollable[i]
         /\ pollable' \in [Items -> Pollables \cup {Nil}]
         /\ events' \in [Items -> SUBSET Events]
         /\ \E n \in 0..MaxItems : Made' = 1..n
<1>1. PICK n \in 0..MaxItems : Made = 1..n
  BY DEF ItemsMade
<1>2. n \in Nat /\ MaxItems \in Nat
  BY <1>1, ConstantsAssumption
<1>3. NextItem = n + 1
  BY <1>1, <1>2, Positions DEF NextItem
<1>4. NextItem \in Items /\ p \in open
  BY DEF MakeItem, CanWrap
<1>5. /\ pollable' = [pollable EXCEPT ![NextItem] = p]
      /\ events' = [events EXCEPT ![NextItem] = evts]
  BY DEF MakeItem
<1>6. /\ pollable' \in [Items -> Pollables \cup {Nil}] /\ pollable'[NextItem] = p
      /\ events' \in [Items -> SUBSET Events]
      /\ \A i \in Items : i # NextItem => pollable'[i] = pollable[i]
  BY <1>4, <1>5 DEF ItemsMade
<1>7. NextItem \notin Made
  BY <1>1, <1>2, <1>3
<1>8. \A i \in Made : pollable'[i] = pollable[i]
  BY <1>6, <1>7 DEF Made
<1>9. Made' = Made \cup {NextItem}
  BY <1>4, <1>6, NilApart DEF Made
<1>10. n + 1 \in 0..MaxItems /\ Made' = 1..n + 1
  BY <1>1, <1>2, <1>3, <1>4, <1>9 DEF Items
<1>q. QED
  BY <1>4, <1>6, <1>8, <1>10

\* An item added or taken out leaves the registered ones open.
LEMMA AddItemWatchesOpen ==
  ASSUME Registered, NEW i \in Items, AddItem(i), pollable'[i] \in open',
         \A k \in DOMAIN pollables : pollable'[pollables[k]] \in open'
  PROVE  \A k \in DOMAIN pollables' : pollable'[pollables'[k]] \in open'
BY AppendProperties DEF Registered, AddItem

LEMMA DeleteMatchWatchesOpen ==
  ASSUME Registered, NEW p, DeleteMatch(p), pollable' = pollable, open' = open,
         \A k \in DOMAIN pollables : pollable[pollables[k]] \in open
  PROVE  \A k \in DOMAIN pollables' : pollable'[pollables'[k]] \in open'
<1>1. PICK pos \in DOMAIN pollables : pollables' = Without(pollables[pos])
  BY DEF DeleteMatch
<1>2. ToSet(pollables') \subseteq ToSet(pollables)
  BY <1>1, WithoutProperties
<1>q. QED
  BY <1>2 DEF ToSet

\* What a poll found stays what it found while items are made by others.
LEMMA FoundReadySame ==
  ASSUME Registered, ItemsMade, ~dirty, pollset' = pollset, revents' = revents,
         \A i \in Made : pollable'[i] = pollable[i]
  PROVE  FoundReady' = FoundReady
<1>1. \A k \in DOMAIN pollset : pollset[k] \in Made
  BY RegisteredAreMade DEF Registered
<1>2. \A k \in DOMAIN pollset : pollable'[pollset[k]] = pollable[pollset[k]]
  BY <1>1
<1>q. QED
  BY <1>2 DEF FoundReady

\* What is reported of an answer is what the answer found.
LEMMA SelectablesReportAll ==
  ASSUME Registered, ItemsMade, ~dirty, poll_size = Len(pollables),
         revents \in [1..Len(pollset) -> SUBSET Events], RebuildSelectables
  PROVE  /\ readables' \in Seq(Pollables) /\ writables' \in Seq(Pollables)
         /\ FoundReady = Reported'
<1>. DEFINE s == [k \in DOMAIN pollables |-> pollable[pollables[k]]]
            K(event) == {k \in DOMAIN pollables : k <= poll_size /\ event \in revents[k]}
<1>1. DOMAIN pollables = 1..poll_size /\ poll_size \in Nat /\ pollset = pollables
  BY LenProperties DEF Registered
<1>2. s \in Seq(Pollables) /\ DOMAIN s = DOMAIN pollables
  BY <1>1 DEF ItemsMade
<1>3. \A event : K(event) \in SUBSET DOMAIN s
  BY <1>2
<1>4. \A event : K(event) = {k \in DOMAIN pollables : event \in revents[k]}
  BY <1>1
<1>5. /\ readables' = EntriesAt(s, K("POLLIN"))
      /\ writables' = EntriesAt(s, K("POLLOUT"))
  BY DEF RebuildSelectables, Selectables
<1>6. \A k \in DOMAIN pollables : s[k] = pollable[pollables[k]]
  OBVIOUS
<1>. HIDE DEF s, K
<1>7. /\ readables' \in Seq(Pollables) /\ writables' \in Seq(Pollables)
      /\ ToSet(readables') = {s[k] : k \in K("POLLIN")}
      /\ ToSet(writables') = {s[k] : k \in K("POLLOUT")}
  BY <1>2, <1>3, <1>5, EntriesAtProperties
<1>8. ToSet(readables') = {pollable[pollables[k]] :
                             k \in {i \in DOMAIN pollables : "POLLIN" \in revents[i]}}
  BY <1>4, <1>6, <1>7
<1>9. ToSet(writables') = {pollable[pollables[k]] :
                             k \in {i \in DOMAIN pollables : "POLLOUT" \in revents[i]}}
  BY <1>4, <1>6, <1>7
<1>10. \A k \in DOMAIN pollables : revents[k] \subseteq Events
  BY <1>1
<1>11. FoundReady = {<<pollable[pollables[k]], "POLLIN">> :
                       k \in {i \in DOMAIN pollables : "POLLIN" \in revents[i]}}
                    \cup {<<pollable[pollables[k]], "POLLOUT">> :
                       k \in {i \in DOMAIN pollables : "POLLOUT" \in revents[i]}}
  BY <1>1, <1>10 DEF FoundReady, Events
<1>12. {<<pollable[pollables[k]], "POLLIN">> :
           k \in {i \in DOMAIN pollables : "POLLIN" \in revents[i]}}
         = ToSet(readables') \X {"POLLIN"}
  BY <1>8
<1>13. {<<pollable[pollables[k]], "POLLOUT">> :
           k \in {i \in DOMAIN pollables : "POLLOUT" \in revents[i]}}
         = ToSet(writables') \X {"POLLOUT"}
  BY <1>9
<1>14. FoundReady = Reported'
  BY <1>11, <1>12, <1>13 DEF Reported, ToSet
<1>q. QED
  BY <1>7, <1>14

-----------------------------------------------------------------------------
(* The invariant                                                           *)

LEMMA InvInit ==
  ASSUME Init
  PROVE  IInv
<1>1. Registered
  BY RegisteredInit
<1>2. pollables = <<>> /\ pollset = <<>> /\ readables = <<>> /\ writables = <<>>
  BY DEF Init
<1>3. ItemsMade
  <2>1. Made = 1..0 /\ 0 \in 0..MaxItems
    BY ConstantsAssumption DEF Init, Made
  <2>2. DOMAIN pollables = {}
    BY <1>2
  <2>q. QED
    BY <2>1, <2>2 DEF Init, ItemsMade
<1>4. CallsTyped
  <2>1. readables \in Seq(Pollables) /\ writables \in Seq(Pollables)
    BY <1>2
  <2>2. builds \in 0..MaxBuilds
    BY ConstantsAssumption DEF Init
  <2>q. QED
    BY <2>1, <2>2 DEF Init, CallsTyped
<1>5. OneCall
  BY DEF Init, OneCall
<1>6. Results
  <2>1. ToSet(readables) = {} /\ ToSet(writables) = {}
    BY <1>2 DEF ToSet
  <2>2. Reported = polled
    BY <2>1 DEF Init, Reported
  <2>q. QED
    BY <2>2, NilApart DEF Init, Results
<1>q. QED
  BY <1>1, <1>3, <1>4, <1>5, <1>6 DEF Init, IInv, NoBadPoll

\* Steps of a program that is not in a call touch neither the array nor the answer.
LEMMA CallsUntouched ==
  ASSUME IInv, UNCHANGED <<pollset, revents, builds, resultVars, callVars>>,
         \/ AtRest
         \/ UNCHANGED <<registerVars>> /\ \A i \in Made : pollable'[i] = pollable[i]
  PROVE  CallsTyped' /\ OneCall' /\ Results'
<1>1. CallsTyped'
  BY DEF IInv, CallsTyped, resultVars, callVars
<1>2. OneCall'
  BY DEF IInv, OneCall, AtRest, registerVars, resultVars, callVars
<1>3. AtRest' <=> AtRest
  BY DEF AtRest, callVars
<1>4. Reported' = Reported
  BY DEF Reported, resultVars
<1>5. ASSUME NEW t \in Threads, poll_rc'[t] = "ready"
      PROVE  revents' # Nil /\ polled' = FoundReady'
  <2>1. poll_rc[t] = "ready" /\ poll_args[t] # Nil
    BY <1>5, NilApart DEF IInv, OneCall, callVars
  <2>2. ~dirty /\ ~AtRest
    BY <2>1 DEF IInv, OneCall, AtRest
  <2>3. FoundReady' = FoundReady
    BY <2>2, FoundReadySame DEF IInv
  <2>q. QED
    BY <2>1, <2>3 DEF IInv, Results, callVars
<1>6. ASSUME NEW t \in Threads, poll_rc'[t] \in {"none", "failed"}
      PROVE  polled' = {}
  BY <1>6 DEF IInv, Results, callVars
<1>7. AtRest' => polled' = Reported'
  BY <1>3, <1>4 DEF IInv, Results, callVars
<1>8. Results'
  BY <1>5, <1>6, <1>7 DEF Results
<1>q. QED
  BY <1>1, <1>2, <1>8

LEMMA InvNext ==
  ASSUME Careful, IInv, [Next]_vars
  PROVE  IInv'
<1>. USE DEF IInv
<1>1. Registered'
  BY RegisteredNext
<1>2. CASE UNCHANGED vars
  <2>1. ItemsMade' /\ NoBadPoll'
    BY <1>2 DEF vars, itemVars, registerVars, ItemsMade, Made, NoBadPoll
  <2>2. CallsTyped' /\ OneCall' /\ Results'
    BY <1>2, CallsUntouched DEF vars, itemVars, registerVars, pollsetVars
  <2>q. QED
    BY <1>1, <2>1, <2>2
<1>3. ASSUME NEW t \in Threads, NEW p \in Pollables, NEW evts \in SUBSET Events,
             PollitemNew(t, p, evts)
      PROVE  IInv'
  <2>1. MakeItem(t, p, evts) /\ open' = open
    BY <1>3 DEF PollitemNew, MakeItem
  <2>2. ItemsMade'
    BY <1>3, <2>1, MakeItemIsNew, RegisteredAreMade
       DEF PollitemNew, registerVars, ItemsMade
  <2>3. CallsTyped' /\ OneCall' /\ Results'
    BY <1>3, <2>1, MakeItemIsNew, CallsUntouched DEF PollitemNew, pollsetVars
  <2>q. QED
    BY <1>1, <1>3, <2>2, <2>3 DEF PollitemNew, NoBadPoll
<1>4. ASSUME NEW t \in Threads, NEW p \in Pollables, Close(t, p)
      PROVE  IInv'
  <2>1. p \notin Watched
    BY <1>4 DEF Close, Careful
  <2>2. \A k \in DOMAIN pollables : pollable[pollables[k]] # p
    BY <2>1 DEF Watched, ToSet
  <2>3. ItemsMade'
    BY <1>4, <2>2 DEF Close, registerVars, ItemsMade, Made
  <2>4. CallsTyped' /\ OneCall' /\ Results'
    BY <1>4, CallsUntouched DEF Close, pollsetVars
  <2>q. QED
    BY <1>1, <1>4, <2>3, <2>4 DEF Close, NoBadPoll
<1>5. ASSUME NEW t \in Threads, NEW p \in Pollables, RegisterPollable(t, p)
      PROVE  IInv'
  <2>1. MakeItem(t, p, Events) /\ AddItem(NextItem) /\ open' = open
    BY <1>5 DEF RegisterPollable, MakeItem
  <2>2. /\ NextItem \in Items /\ pollable'[NextItem] \in open'
        /\ \A k \in DOMAIN pollables : pollable'[pollables[k]] \in open'
    BY <2>1, MakeItemIsNew, RegisteredAreMade DEF ItemsMade
  <2>3. ItemsMade'
    <3>1. \A k \in DOMAIN pollables' : pollable'[pollables'[k]] \in open'
      BY <2>1, <2>2, AddItemWatchesOpen
    <3>q. QED
      BY <1>5, <2>1, <3>1, MakeItemIsNew DEF RegisterPollable, ItemsMade
  <2>4. CallsTyped' /\ OneCall' /\ Results'
    BY <1>5, MayUseAtRest, CallsUntouched DEF RegisterPollable, pollsetVars
  <2>q. QED
    BY <1>1, <1>5, <2>3, <2>4 DEF RegisterPollable, NoBadPoll
<1>6. ASSUME NEW t \in Threads, NEW p \in Pollables, RemovePollable(t, p)
      PROVE  IInv'
  <2>1. ItemsMade'
    BY <1>6, DeleteMatchWatchesOpen DEF RemovePollable, itemVars, ItemsMade, Made
  <2>2. CallsTyped' /\ OneCall' /\ Results'
    BY <1>6, MayUseAtRest, CallsUntouched DEF RemovePollable, pollsetVars
  <2>q. QED
    BY <1>1, <1>6, <2>1, <2>2 DEF RemovePollable, NoBadPoll
<1>7. ASSUME NEW t \in Threads, NEW i \in Items, RegisterItem(t, i)
      PROVE  IInv'
  <2>1. pollable[i] \in open /\ AddItem(i) /\ UNCHANGED <<open, pollable>>
    BY <1>7 DEF RegisterItem, Careful, itemVars
  <2>2. \A k \in DOMAIN pollables' : pollable'[pollables'[k]] \in open'
    BY <2>1, AddItemWatchesOpen DEF ItemsMade
  <2>3. ItemsMade'
    BY <1>7, <2>2 DEF RegisterItem, itemVars, ItemsMade, Made
  <2>4. CallsTyped' /\ OneCall' /\ Results'
    BY <1>7, MayUseAtRest, CallsUntouched DEF RegisterItem, pollsetVars
  <2>q. QED
    BY <1>1, <1>7, <2>3, <2>4 DEF RegisterItem, NoBadPoll
<1>8. ASSUME NEW t \in Threads, NEW i \in Items, RemoveItem(t, i)
      PROVE  IInv'
  <2>1. ItemsMade'
    BY <1>8, DeleteMatchWatchesOpen DEF RemoveItem, itemVars, ItemsMade, Made
  <2>2. CallsTyped' /\ OneCall' /\ Results'
    BY <1>8, MayUseAtRest, CallsUntouched DEF RemoveItem, pollsetVars
  <2>q. QED
    BY <1>1, <1>8, <2>1, <2>2 DEF RemoveItem, NoBadPoll
<1>9. ASSUME NEW t \in Threads, SetVerbose(t)
      PROVE  IInv'
  <2>1. ItemsMade'
    BY <1>9 DEF SetVerbose, itemVars, registerVars, ItemsMade, Made
  <2>2. CallsTyped' /\ OneCall' /\ Results'
    BY <1>9, MayUseAtRest, CallsUntouched DEF SetVerbose, pollsetVars
  <2>q. QED
    BY <1>1, <1>9, <2>1, <2>2 DEF SetVerbose, NoBadPoll
<1>10. ASSUME NEW t \in Threads, Poll(t)
       PROVE  IInv'
  <2>1. AtRest /\ \A u \in Threads : poll_rc[u] = Nil
    BY <1>10, MayUseAtRest DEF Poll
  <2>2. ~dirty' /\ poll_size' = Len(pollables')
    BY <1>10, PollRegisters DEF Poll
  <2>3. builds' \in 0..MaxBuilds
    BY <1>10, ConstantsAssumption DEF Poll, RebuildPollset, pollsetVars, CallsTyped
  <2>4. /\ poll_args' = [poll_args EXCEPT ![t] = builds']
        /\ readables' = <<>> /\ writables' = <<>>
        /\ UNCHANGED <<poll_rc, polled, fault, itemVars, pollables, verbose>>
    BY <1>10 DEF Poll
  <2>5. poll_args' \in [Threads -> 0..MaxBuilds \cup {Nil}]
    BY <2>3, <2>4 DEF CallsTyped
  <2>6. poll_args'[t] = builds' /\ \A u \in Threads : u # t => poll_args'[u] = Nil
    BY <2>1, <2>4 DEF CallsTyped, AtRest
  <2>7. poll_args'[t] # Nil
    BY <2>3, <2>6, ConstantsAssumption, NilApart
  <2>8. ItemsMade'
    BY <2>4 DEF itemVars, ItemsMade, Made
  <2>9. CallsTyped'
    <3>1. revents' = Nil \/ revents' \in [1..Len(pollset') -> SUBSET Events]
      BY <1>10 DEF Poll, RebuildPollset, pollsetVars, CallsTyped
    <3>2. readables' \in Seq(Pollables) /\ writables' \in Seq(Pollables)
      BY <2>4
    <3>q. QED
      BY <2>3, <2>4, <2>5, <3>1, <3>2 DEF CallsTyped
  <2>10. OneCall'
    BY <2>1, <2>2, <2>4, <2>6 DEF OneCall
  <2>11. Results'
    BY <2>1, <2>4, <2>7, NilApart DEF Results, AtRest
  <2>q. QED
    BY <1>1, <2>4, <2>8, <2>9, <2>10, <2>11 DEF NoBadPoll
<1>11. ASSUME NEW t \in Threads, PollRaises(t)
       PROVE  IInv'
  <2>1. AtRest /\ \A u \in Threads : poll_rc[u] = Nil
    BY <1>11, MayUseAtRest DEF PollRaises
  <2>2. ItemsMade'
    BY <1>11 DEF PollRaises, itemVars, registerVars, ItemsMade, Made
  <2>3. CallsTyped'
    BY <1>11, ConstantsAssumption DEF PollRaises, CallsTyped, resultVars, callVars
  <2>4. OneCall' /\ Results'
    BY <1>11, <2>1, NilApart
       DEF PollRaises, OneCall, Results, AtRest, Reported, resultVars, callVars
  <2>q. QED
    BY <1>1, <1>11, <2>2, <2>3, <2>4 DEF PollRaises, NoBadPoll
<1>12. ASSUME NEW t \in Threads, NogvlPoll(t)
       PROVE  IInv'
  <2>1. /\ poll_args[t] = builds /\ ~dirty /\ pollset = pollables
        /\ poll_args[t] # Nil /\ poll_size = Len(pollset)
    BY <1>12 DEF NogvlPoll, OneCall, Registered
  <2>2. \A k \in DOMAIN pollset : pollable[pollset[k]] \in open
    BY <2>1 DEF ItemsMade
  <2>3. ~\E i \in ToSet(pollset) : pollable[i] \notin open
    BY <2>2 DEF ToSet
  <2>4. /\ revents' \in {r \in [DOMAIN pollset -> SUBSET Events] :
                           \A k \in DOMAIN pollset : r[k] \subseteq events[pollset[k]]}
        /\ polled' = UNION {{pollable[pollset[k]]} \X revents'[k] : k \in DOMAIN pollset}
        /\ \E rc \in IF polled' # {} THEN {"ready"} ELSE {"none", "failed"} :
             poll_rc' = [poll_rc EXCEPT ![t] = rc]
        /\ fault' = fault
    BY <1>12, <2>1, <2>3 DEF NogvlPoll
  <2>5. UNCHANGED <<itemVars, registerVars, pollset, builds, resultVars, verbose, poll_args>>
    BY <1>12 DEF NogvlPoll
  <2>6. DOMAIN pollset = 1..Len(pollset) /\ Len(pollset) \in 0..MaxLength
    BY <2>1, LenProperties DEF Registered
  <2>7. revents' \in [1..Len(pollset) -> SUBSET Events] /\ revents' # Nil
    BY <2>4, <2>6, NilApart
  <2>8. polled' = FoundReady'
    BY <2>4, <2>5 DEF FoundReady, itemVars
  <2>9. PICK rc \in IF polled' # {} THEN {"ready"} ELSE {"none", "failed"} :
          poll_rc' = [poll_rc EXCEPT ![t] = rc]
    BY <2>4
  <2>10. /\ poll_rc' \in [Threads -> {"ready", "none", "failed", Nil}] /\ poll_rc'[t] = rc
         /\ \A u \in Threads : u # t => poll_rc'[u] = poll_rc[u]
    BY <2>9 DEF CallsTyped
  <2>11. \A u \in Threads : u # t => poll_rc'[u] = Nil
    BY <2>1, <2>10 DEF OneCall
  <2>12. ItemsMade'
    BY <2>5 DEF itemVars, registerVars, ItemsMade, Made
  <2>13. CallsTyped'
    <3>1. \A k \in DOMAIN pollset : pollable[pollset[k]] \in Pollables /\ revents'[k] \subseteq Events
      BY <2>2, <2>4 DEF ItemsMade
    <3>2. polled' \subseteq Pollables \X Events
      BY <2>4, <3>1
    <3>q. QED
      BY <2>5, <2>7, <2>10, <3>2 DEF CallsTyped, resultVars
  <2>14. OneCall'
    BY <2>1, <2>5, <2>11 DEF OneCall, registerVars, resultVars
  <2>15. Results'
    <3>1. (rc = "ready" /\ polled' # {}) \/ (rc \in {"none", "failed"} /\ polled' = {})
      BY <2>9
    <3>2. ~AtRest'
      BY <2>1, <2>5 DEF AtRest
    <3>q. QED
      BY <2>7, <2>8, <2>10, <2>11, <3>1, <3>2, NilApart DEF Results
  <2>q. QED
    BY <1>1, <2>4, <2>12, <2>13, <2>14, <2>15 DEF NoBadPoll
<1>13. ASSUME NEW t \in Threads, PollReturn(t)
       PROVE  IInv'
  <2>1. /\ poll_args[t] # Nil /\ ~dirty /\ pollset = pollables
        /\ poll_size = Len(pollables) /\ readables = <<>> /\ writables = <<>>
    BY <1>13 DEF PollReturn, OneCall, Registered
  <2>2. UNCHANGED <<itemVars, registerVars, pollsetVars, verbose, polled>>
    BY <1>13 DEF PollReturn
  <2>3. /\ poll_args' = [poll_args EXCEPT ![t] = Nil]
        /\ poll_rc' = [poll_rc EXCEPT ![t] = Nil]
    BY <1>13 DEF PollReturn
  <2>4. /\ poll_args' \in [Threads -> 0..MaxBuilds \cup {Nil}]
        /\ poll_rc' \in [Threads -> {"ready", "none", "failed", Nil}]
        /\ \A u \in Threads : poll_args'[u] = Nil /\ poll_rc'[u] = Nil
    BY <2>1, <2>3 DEF CallsTyped, OneCall
  <2>5. ItemsMade'
    BY <2>2 DEF itemVars, registerVars, ItemsMade, Made
  <2>6. /\ readables' \in Seq(Pollables) /\ writables' \in Seq(Pollables)
        /\ polled = Reported' /\ fault' = fault
    <3>1. CASE poll_rc[t] # "ready"
      <4>1. readables' = <<>> /\ writables' = <<>> /\ fault' = fault
        BY <1>13, <2>1, <3>1 DEF PollReturn, resultVars
      <4>2. polled = {}
        BY <1>13, <3>1 DEF PollReturn, CallsTyped, Results
      <4>3. ToSet(readables') = {} /\ ToSet(writables') = {}
        BY <4>1 DEF ToSet
      <4>4. Reported' = {}
        BY <4>3 DEF Reported, ToSet
      <4>5. readables' \in Seq(Pollables) /\ writables' \in Seq(Pollables)
        BY <4>1
      <4>q. QED
        BY <4>1, <4>2, <4>4, <4>5
    <3>2. CASE poll_rc[t] = "ready"
      <4>1. revents # Nil /\ polled = FoundReady
        BY <3>2 DEF Results
      <4>2. revents \in [1..Len(pollset) -> SUBSET Events]
        BY <4>1 DEF CallsTyped
      <4>3. ~(poll_size > Len(pollset))
        BY <2>1, LenProperties DEF Registered
      <4>4. RebuildSelectables /\ fault' = fault
        BY <1>13, <3>2, <4>1, <4>3 DEF PollReturn
      <4>q. QED
        BY <2>1, <4>1, <4>2, <4>4, SelectablesReportAll
    <3>q. QED
      BY <3>1, <3>2
  <2>7. CallsTyped'
    BY <2>2, <2>4, <2>6 DEF CallsTyped, pollsetVars
  <2>8. OneCall' /\ Results'
    BY <2>2, <2>4, <2>6, NilApart DEF OneCall, Results
  <2>q. QED
    BY <1>1, <2>5, <2>6, <2>7, <2>8 DEF NoBadPoll
<1>14. ASSUME Next PROVE IInv'
  BY <1>3, <1>4, <1>5, <1>6, <1>7, <1>8, <1>9, <1>10, <1>11, <1>12, <1>13, <1>14 DEF Next
<1>q. QED
  BY <1>2, <1>14

LEMMA InvAlways ==
  ASSUME Careful
  PROVE  Spec => []IInv
BY InvInit, InvNext, PTL DEF Spec

\* A poll call never works on a freed or short pollset nor on a closed socket, and
\* never reads events that were not written (poller.c:35, 65, 123).
THEOREM PollsSafely ==
  ASSUME Careful
  PROVE  Spec => []NoBadPoll
<1>1. IInv => NoBadPoll
  BY DEF IInv
<1>q. QED
  BY <1>1, InvAlways, PTL

\* Between polls, readables and writables are what the last poll found ready, in
\* spite of items added and removed since (poller.c:250, 270).
THEOREM ResultsAreOfLastPoll ==
  ASSUME Careful
  PROVE  Spec => []ReadablesAsPolled
<1>1. IInv => ReadablesAsPolled
  BY DEF IInv, Results, AtRest, Reported, ReadablesAsPolled
<1>q. QED
  BY <1>1, InvAlways, PTL

=============================================================================
