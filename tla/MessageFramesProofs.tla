------------------------- MODULE MessageFramesProofs -------------------------
(***************************************************************************)
(* Frames and messages of any number, in a program that keeps to the rules *)
(* nothing guards: every czmq frame has one owner, the two lists of a      *)
(* message agree, and nothing leaks or is used after it is freed.          *)
(***************************************************************************)
EXTENDS MessageFrames, FiniteSetTheorems, TLAPS

Careful == Risky = {}

-----------------------------------------------------------------------------
(* Sequences of frames                                                     *)

\* No frame occurs twice.
Distinct(s) == \A i, j \in 1..Len(s) : s[i] = s[j] => i = j

LEMMA Concatenation ==
  ASSUME NEW S, NEW a \in Seq(S), NEW b \in Seq(S)
  PROVE  /\ a \o b \in Seq(S) /\ Len(a \o b) = Len(a) + Len(b)
         /\ \A i \in 1..Len(a) : (a \o b)[i] = a[i]
         /\ \A i \in 1..Len(b) : (a \o b)[Len(a) + i] = b[i]
OBVIOUS

LEMMA ConsMembers ==
  ASSUME NEW S, NEW s \in Seq(S), NEW e \in S, Distinct(s), e \notin ToSet(s)
  PROVE  /\ <<e>> \o s \in Seq(S) /\ Distinct(<<e>> \o s)
         /\ ToSet(<<e>> \o s) = ToSet(s) \cup {e}
<1>. DEFINE r == <<e>> \o s
<1>1. r \in Seq(S) /\ Len(r) = Len(s) + 1
  OBVIOUS
<1>2. r[1] = e /\ \A i \in 2..Len(r) : r[i] = s[i - 1]
  OBVIOUS
<1>3. \A i \in 1..Len(s) : r[i + 1] = s[i]
  OBVIOUS
<1>. HIDE DEF r
<1>4. Distinct(r)
  <2>. SUFFICES ASSUME NEW i \in 1..Len(r), NEW j \in 1..Len(r), r[i] = r[j] PROVE i = j
    BY DEF Distinct
  <2>1. \A x \in 2..Len(r) : x - 1 \in 1..Len(s) /\ r[x] = s[x - 1] /\ r[x] \in ToSet(s)
    BY <1>1, <1>2 DEF ToSet
  <2>2. CASE i = 1 \/ j = 1
    BY <1>1, <1>2, <2>1, <2>2
  <2>3. CASE i \in 2..Len(r) /\ j \in 2..Len(r)
    <3>1. i - 1 = j - 1
      BY <2>1, <2>3 DEF Distinct
    <3>q. QED
      BY <2>3, <3>1
  <2>q. QED
    BY <1>1, <2>2, <2>3
<1>5. ToSet(r) = ToSet(s) \cup {e}
  <2>1. ASSUME NEW x \in ToSet(r) PROVE x \in ToSet(s) \cup {e}
    BY <1>1, <1>2, <2>1 DEF ToSet
  <2>2. ASSUME NEW x \in ToSet(s) PROVE x \in ToSet(r)
    <3>1. PICK i \in 1..Len(s) : x = s[i]
      BY DEF ToSet
    <3>q. QED
      BY <1>1, <1>3, <3>1 DEF ToSet
  <2>3. e \in ToSet(r)
    BY <1>1, <1>2 DEF ToSet
  <2>q. QED
    BY <2>1, <2>2, <2>3
<1>q. QED
  BY <1>1, <1>4, <1>5 DEF r

LEMMA AppendMembers ==
  ASSUME NEW S, NEW s \in Seq(S), NEW e \in S, Distinct(s), e \notin ToSet(s)
  PROVE  /\ Append(s, e) \in Seq(S) /\ Distinct(Append(s, e))
         /\ ToSet(Append(s, e)) = ToSet(s) \cup {e}
<1>. DEFINE r == Append(s, e)
<1>1. r \in Seq(S) /\ Len(r) = Len(s) + 1
  OBVIOUS
<1>2. r[Len(s) + 1] = e /\ \A i \in 1..Len(s) : r[i] = s[i]
  OBVIOUS
<1>. HIDE DEF r
<1>4. Distinct(r)
  BY <1>1, <1>2 DEF Distinct, ToSet
<1>5. ToSet(r) = ToSet(s) \cup {e}
  <2>1. ASSUME NEW x \in ToSet(r) PROVE x \in ToSet(s) \cup {e}
    BY <1>1, <1>2, <2>1 DEF ToSet
  <2>2. ASSUME NEW x \in ToSet(s) PROVE x \in ToSet(r)
    <3>1. PICK i \in 1..Len(s) : x = s[i]
      BY DEF ToSet
    <3>q. QED
      BY <1>1, <1>2, <3>1 DEF ToSet
  <2>3. e \in ToSet(r)
    BY <1>1, <1>2 DEF ToSet
  <2>q. QED
    BY <2>1, <2>2, <2>3
<1>q. QED
  BY <1>1, <1>4, <1>5 DEF r

LEMMA TailMembers ==
  ASSUME NEW S, NEW s \in Seq(S), s # <<>>, Distinct(s)
  PROVE  /\ Head(s) \in S /\ Head(s) \in ToSet(s)
         /\ Tail(s) \in Seq(S) /\ Distinct(Tail(s))
         /\ ToSet(Tail(s)) = ToSet(s) \ {Head(s)}
<1>. DEFINE r == Tail(s)
<1>1. Len(s) \in Nat \ {0} /\ Head(s) = s[1] /\ s[1] \in S
  OBVIOUS
<1>2. r \in Seq(S) /\ Len(r) = Len(s) - 1 /\ \A i \in 1..Len(r) : r[i] = s[i + 1]
  OBVIOUS
<1>. HIDE DEF r
<1>3. Head(s) \in ToSet(s)
  BY <1>1 DEF ToSet
<1>4. Distinct(r)
  BY <1>1, <1>2 DEF Distinct
<1>5. ToSet(r) = ToSet(s) \ {Head(s)}
  <2>1. ASSUME NEW x \in ToSet(r) PROVE x \in ToSet(s) /\ x # s[1]
    <3>1. PICK i \in 1..Len(r) : x = r[i]
      BY <1>2 DEF ToSet
    <3>2. i + 1 \in 1..Len(s) /\ x = s[i + 1] /\ 1 \in 1..Len(s) /\ i + 1 # 1
      BY <1>1, <1>2, <3>1
    <3>q. QED
      BY <3>2 DEF ToSet, Distinct
  <2>2. ASSUME NEW x \in ToSet(s), x # s[1] PROVE x \in ToSet(r)
    <3>1. PICK i \in 1..Len(s) : x = s[i]
      BY DEF ToSet
    <3>2. i - 1 \in 1..Len(r) /\ x = r[i - 1]
      BY <1>1, <1>2, <2>2, <3>1
    <3>q. QED
      BY <1>2, <3>2 DEF ToSet
  <2>q. QED
    BY <1>1, <2>1, <2>2
<1>q. QED
  BY <1>1, <1>2, <1>3, <1>4, <1>5 DEF r

\* Where a frame occurs but once, RemoveFirst takes it out.
LEMMA RemoveFirstMembers ==
  ASSUME NEW S, NEW s \in Seq(S), NEW e \in ToSet(s), Distinct(s)
  PROVE  /\ RemoveFirst(s, e) \in Seq(S) /\ Distinct(RemoveFirst(s, e))
         /\ ToSet(RemoveFirst(s, e)) = ToSet(s) \ {e}
<1>1. PICK k \in 1..Len(s) : s[k] = e
  BY DEF ToSet
<1>2. {i \in 1..Len(s) : s[i] = e} = {k}
  BY <1>1 DEF Distinct
<1>3. SelectInSeq(s, LAMBDA v : v = e) = k
  BY <1>2 DEF SelectInSeq, Min
<1>. DEFINE r == RemoveFirst(s, e)
<1>. DEFINE a == SubSeq(s, 1, k - 1)
            b == SubSeq(s, k + 1, Len(s))
<1>4. r = a \o b
  BY <1>1, <1>3 DEF RemoveFirst, RemoveAt
<1>5. /\ r \in Seq(S) /\ Len(r) = Len(s) - 1
      /\ \A i \in 1..Len(r) : r[i] = IF i < k THEN s[i] ELSE s[i + 1]
  <2>1. a \in Seq(S) /\ Len(a) = k - 1 /\ \A i \in 1..(k - 1) : a[i] = s[i]
    OBVIOUS
  <2>2. b \in Seq(S) /\ Len(b) = Len(s) - k /\ \A i \in 1..(Len(s) - k) : b[i] = s[k + i]
    OBVIOUS
  <2>. HIDE DEF a, b, r
  <2>3. /\ r \in Seq(S) /\ Len(r) = Len(a) + Len(b)
        /\ \A i \in 1..Len(a) : r[i] = a[i]
        /\ \A i \in 1..Len(b) : r[Len(a) + i] = b[i]
    <3>1. a \in Seq(S) /\ b \in Seq(S)
      BY <2>1, <2>2
    <3>2. /\ a \o b \in Seq(S) /\ Len(a \o b) = Len(a) + Len(b)
          /\ \A i \in 1..Len(a) : (a \o b)[i] = a[i]
          /\ \A i \in 1..Len(b) : (a \o b)[Len(a) + i] = b[i]
      BY <3>1, Concatenation
    <3>q. QED
      BY <1>4, <3>2
  <2>4. Len(r) = Len(s) - 1 /\ \A i \in 1..(k - 1) : r[i] = s[i]
    BY <2>1, <2>2, <2>3
  <2>5. ASSUME NEW i \in 1..Len(r), ~(i < k) PROVE r[i] = s[i + 1]
    <3>. DEFINE n == i - (k - 1)
    <3>1. n \in 1..(Len(s) - k) /\ (k - 1) + n = i /\ k + n = i + 1
      BY <2>4, <2>5
    <3>. HIDE DEF n
    <3>2. r[(k - 1) + n] = b[n] /\ b[n] = s[k + n]
      BY <2>1, <2>2, <2>3, <3>1
    <3>q. QED
      BY <3>1, <3>2
  <2>q. QED
    BY <2>3, <2>4, <2>5
<1>. HIDE DEF r
<1>6. Distinct(r)
  BY <1>5 DEF Distinct
<1>7. ToSet(r) = ToSet(s) \ {e}
  <2>1. ASSUME NEW x \in ToSet(r) PROVE x \in ToSet(s) /\ x # e
    <3>1. PICK i \in 1..Len(r) : x = r[i]
      BY <1>5 DEF ToSet
    <3>2. PICK j \in 1..Len(s) : x = s[j] /\ j # k
      BY <1>5, <3>1
    <3>q. QED
      BY <1>1, <3>2 DEF ToSet, Distinct
  <2>2. ASSUME NEW x \in ToSet(s), x # e PROVE x \in ToSet(r)
    <3>1. PICK i \in 1..Len(s) : x = s[i]
      BY DEF ToSet
    <3>2. CASE i < k
      <4>1. i \in 1..Len(r) /\ r[i] = x
        BY <1>5, <3>1, <3>2
      <4>q. QED
        BY <1>5, <4>1 DEF ToSet
    <3>3. CASE i > k
      <4>1. i - 1 \in 1..Len(r) /\ r[i - 1] = x
        BY <1>5, <3>1, <3>3
      <4>q. QED
        BY <1>5, <4>1 DEF ToSet
    <3>q. QED
      BY <1>1, <2>2, <3>1, <3>2, <3>3
  <2>q. QED
    BY <2>1, <2>2
<1>q. QED
  BY <1>5, <1>6, <1>7 DEF r

\* The list of k frames made after the n-th.
LEMMA NewList ==
  ASSUME NEW n \in Nat, NEW k \in Nat
  PROVE  LET s == [i \in 1..k |-> n + i]
         IN s \in Seq(n + 1 .. n + k) /\ Distinct(s) /\ ToSet(s) = n + 1 .. n + k
<1>. DEFINE s == [i \in 1..k |-> n + i]
<1>1. s \in Seq(n + 1 .. n + k) /\ Len(s) = k /\ \A i \in 1..k : s[i] = n + i
  OBVIOUS
<1>2. Distinct(s)
  BY <1>1 DEF Distinct
<1>3. ToSet(s) = n + 1 .. n + k
  <2>1. ASSUME NEW x \in n + 1 .. n + k PROVE x \in ToSet(s)
    <3>1. x - n \in 1..k /\ s[x - n] = x
      OBVIOUS
    <3>q. QED
      BY <1>1, <3>1 DEF ToSet
  <2>2. ASSUME NEW x \in ToSet(s) PROVE x \in n + 1 .. n + k
    BY <1>1 DEF ToSet
  <2>q. QED
    BY <2>1, <2>2
<1>q. QED
  BY <1>1, <1>2, <1>3


-----------------------------------------------------------------------------
(* What holds between the steps of a careful program                       *)

Members(m) == ToSet(zframes[m])
Wrappers(m) == ToSet(frames[m])

\* Frames and messages are numbered in the order they are made.
InOrder(n, value, Things) == \A x \in Things : value[x] # "unused" <=> x <= n
Numbered ==
  /\ \E n \in 0..MaxFrames : InOrder(n, frame_value, Frames)
  /\ \E n \in 0..MaxMessages : InOrder(n, message_value, Messages)

\* A call has sent frame f and not come back.
FrameSent(f) == \E t \in sent : sending_frame[t] = f

\* A wrapper on its own has its frame until it is sent. One that the program holds and
\* that says it is not gone is in the list of its message, which is held as well.
\* What czmq has not freed has an owner.
FrameOK(f) ==
  /\ f \in frame_owned =>
       /\ frame_message[f] = Nil /\ f \in frame
       /\ frame_value[f] \in {"held", "dropped"}
       /\ FrameSent(f) \/ zframe[f] = "live"
  /\ frame_value[f] = "held" =>
       /\ frame_message[f] # Nil => message_value[frame_message[f]] = "held"
       /\ frame_message[f] \in message_owned => f \in Wrappers(frame_message[f])
  /\ zframe[f] = "live" => f \in frame_owned \/ \E m \in Messages : f \in Members(m)
  /\ frame_value[f] = "unused" => f \notin frame /\ zframe[f] = "none"

\* An owned message has a zmsg, but for the time between sending and coming back,
\* whose frames are live, all different, and the ones of its wrappers. As long as
\* somebody refers to the message these are kept, with their pointers.
MessageOK(m) ==
  /\ m \in message_owned =>
       /\ message_value[m] \in {"held", "dropped"}
       /\ zmsg[m] = "live" \/ \E t \in sent : sending[t] = m
       /\ \A f \in Wrappers(m) :
            /\ frame_message[f] = m /\ f \notin frame_owned /\ frame_value[f] # "unused"
            /\ MessageReachable(m) => f \in frame /\ frame_value[f] # "freed"
  /\ zmsg[m] = "live" => m \in message_owned /\ frames[m] = zframes[m]
  /\ zmsg[m] # "live" => zframes[m] = <<>>
  /\ Distinct(zframes[m])
  /\ \A f \in Members(m) : zframe[f] = "live"
  /\ message_value[m] = "unused" => \A f \in Frames : frame_message[f] # m

\* A call sends one thing, which no other call sends and which stays owned until the
\* call is back.
SendOK(t) ==
  /\ sending[t] = Nil \/ sending_frame[t] = Nil
  /\ t \in sent => sending[t] # Nil \/ sending_frame[t] # Nil
  /\ sending[t] # Nil =>
       /\ sending[t] \in message_owned /\ (zmsg[sending[t]] = "live" <=> t \notin sent)
       /\ \A u \in Threads : sending[u] = sending[t] => u = t
  /\ sending_frame[t] # Nil =>
       /\ sending_frame[t] \in frame_owned
       /\ (zframe[sending_frame[t]] = "live" <=> t \notin sent)
       /\ \A u \in Threads : sending_frame[u] = sending_frame[t] => u = t

Safe ==
  /\ TypeOK /\ Numbered
  /\ \A f \in Frames : FrameOK(f)
  /\ \A m \in Messages : MessageOK(m)
  /\ \A t \in Threads : SendOK(t)
  /\ NoBadAccess

-----------------------------------------------------------------------------
(* What the rules give a method                                            *)

\* The counters of the model are what they count.
LEMMA Counted ==
  ASSUME Safe
  PROVE  /\ MadeFrames \in 0..MaxFrames /\ InOrder(MadeFrames, frame_value, Frames)
         /\ MadeMessages \in 0..MaxMessages /\ InOrder(MadeMessages, message_value, Messages)
<1>1. ASSUME NEW n \in Nat, NEW k \in 0..n, NEW value, InOrder(k, value, 1..n)
      PROVE  Cardinality({x \in 1..n : value[x] # "unused"}) = k
  <2>1. {x \in 1..n : value[x] # "unused"} = 1..k
    BY <1>1 DEF InOrder
  <2>2. Cardinality(1..k) = IF 1 > k THEN 0 ELSE k - 1 + 1
    <3>1. k \in Int /\ 1 \in Int
      OBVIOUS
    <3>q. QED
      BY <3>1, FS_Interval
  <2>3. Cardinality(1..k) = k
    BY <2>2
  <2>q. QED
    BY <2>1, <2>3, Zenon
<1>q. QED
  BY <1>1, ConstantsAssumption DEF Safe, Numbered, MadeFrames, MadeMessages, Frames, Messages

\* A frame the program may use is there, unless it says gone.
LEMMA UsableFrame ==
  ASSUME Careful, Safe, NEW f \in Frames, MayUseFrame(f)
  PROVE  /\ AccessFrame(f) = "none" /\ frame_value[f] = "held"
         /\ \A t \in Threads : sending_frame[t] # f
         /\ ~FrameGone(f) => f \in frame /\ zframe[f] = "live"
         /\ f \in frame_owned => f \in frame /\ zframe[f] = "live" /\ UseFrame(f) = "none"
<1>1. /\ frame_value[f] = "held"
      /\ \A t \in Threads : sending_frame[t] # f /\ (sending[t] = Nil \/ sending[t] # frame_message[f])
  BY DEF Careful, MayUseFrame
<1>2. FrameOK(f) /\ ~FrameSent(f) /\ frame_message[f] \in Messages \cup {Nil} /\ Nil \notin Messages
      /\ sent \subseteq Threads /\ message_owned \subseteq Messages
  BY <1>1, ConstantsAssumption DEF Safe, FrameSent, TypeOK, Messages
<1>3. CASE f \in frame_owned
  <2>1. f \in frame /\ zframe[f] = "live"
    BY <1>2, <1>3 DEF FrameOK
  <2>2. UseFrame(f) = "none"
    BY <2>1 DEF UseFrame
  <2>q. QED
    BY <1>1, <1>3, <2>1, <2>2 DEF AccessFrame, GuardFrame, FrameGone
<1>4. CASE f \notin frame_owned
  <2>1. frame_message[f] # Nil => message_value[frame_message[f]] = "held"
    BY <1>1, <1>2 DEF FrameOK
  <2>2. ASSUME ~FrameGone(f) PROVE f \in frame /\ zframe[f] = "live"
    <3>. DEFINE m == frame_message[f]
    <3>1. m \in message_owned /\ m \in Messages /\ f \in Wrappers(m) /\ message_value[m] = "held"
      BY <1>1, <1>2, <1>4, <2>1, <2>2 DEF FrameGone, FrameOK
    <3>2. MessageOK(m) /\ MessageReachable(m)
      BY <3>1 DEF Safe, MessageReachable
    <3>3. \A t \in sent : sending[t] # m
      BY <1>1, <1>2, <3>1
    <3>4. zmsg[m] = "live" /\ f \in frame
      BY <3>1, <3>2, <3>3 DEF MessageOK
    <3>5. f \in Members(m)
      BY <3>1, <3>2, <3>4 DEF MessageOK, Members, Wrappers
    <3>q. QED
      BY <3>2, <3>4, <3>5 DEF MessageOK
  <2>3. AccessFrame(f) = "none"
    BY <2>1, <2>2, <1>4 DEF AccessFrame, GuardFrame, UseFrame
  <2>q. QED
    BY <1>1, <1>4, <2>2, <2>3
<1>q. QED
  BY <1>3, <1>4

\* A message that a method may use has its zmsg, and nobody sends it.
LEMMA UsableMessage ==
  ASSUME Careful, Safe, NEW m \in Messages, MayUse(m), m \in message_owned
  PROVE  /\ zmsg[m] = "live" /\ frames[m] = zframes[m] /\ message_value[m] = "held"
         /\ \A t \in Threads : sending[t] # m
         /\ zframes[m] \in Seq(Frames) /\ Distinct(zframes[m])
         /\ \A f \in Members(m) :
              /\ f \in Frames /\ f \in frame /\ f \notin frame_owned /\ zframe[f] = "live"
              /\ frame_message[f] = m /\ frame_value[f] \in {"held", "dropped"}
         /\ UseList(m) = "none"
         /\ \A set \in SUBSET Members(m) : UseMembers(m, set) = "none"
<1>1. message_value[m] = "held" /\ \A t \in Threads : sending[t] # m
  BY DEF Careful, MayUse
<1>2. MessageOK(m) /\ MessageReachable(m) /\ sent \subseteq Threads /\ zframes[m] \in Seq(Frames)
      /\ frame_value \in [Frames -> ValueStates]
  BY <1>1 DEF Safe, MessageReachable, TypeOK
<1>3. zmsg[m] = "live" /\ frames[m] = zframes[m] /\ Distinct(zframes[m])
  BY <1>1, <1>2 DEF MessageOK
<1>4. Members(m) = Wrappers(m) /\ Members(m) \subseteq Frames
  BY <1>2, <1>3 DEF Members, Wrappers, ToSet
<1>5. \A f \in Members(m) :
         /\ f \in Frames /\ f \in frame /\ f \notin frame_owned /\ zframe[f] = "live"
         /\ frame_message[f] = m /\ frame_value[f] \in {"held", "dropped"}
  BY <1>2, <1>4 DEF MessageOK, ValueStates
<1>6. UseList(m) = "none" /\ \A set \in SUBSET Members(m) : UseMembers(m, set) = "none"
  BY <1>3, <1>5 DEF UseList, UseMembers
<1>q. QED
  BY <1>1, <1>2, <1>3, <1>5, <1>6

-----------------------------------------------------------------------------
(* Frames and messages leave the hands of the program                      *)

LEMMA DropFrameKeeps ==
  ASSUME Careful, Safe, NEW f \in Frames, DropFrame(f)
  PROVE  Safe'
<1>1. /\ frame_value[f] = "held" /\ frame_value' = [frame_value EXCEPT ![f] = "dropped"]
      /\ UNCHANGED <<frame, frame_owned, frame_message, zframe, empty, messageVars, sendVars, fault>>
  BY DEF DropFrame
<1>2. TypeOK'
  BY <1>1 DEF Safe, TypeOK, messageVars, sendVars, ValueStates
<1>3. Numbered'
  BY <1>1 DEF Safe, TypeOK, Numbered, InOrder, messageVars
<1>4. ASSUME NEW g \in Frames PROVE FrameOK(g)'
  BY <1>1 DEF Safe, TypeOK, FrameOK, FrameSent, Members, Wrappers, messageVars, sendVars
<1>5. ASSUME NEW m \in Messages PROVE MessageOK(m)'
  BY <1>1 DEF Safe, TypeOK, MessageOK, MessageReachable, Members, Wrappers, messageVars, sendVars
<1>6. ASSUME NEW t \in Threads PROVE SendOK(t)'
  BY <1>1 DEF Safe, SendOK, messageVars, sendVars
<1>q. QED
  BY <1>1, <1>2, <1>3, <1>4, <1>5, <1>6 DEF Safe, NoBadAccess

LEMMA DropMessageKeeps ==
  ASSUME Careful, Safe, NEW m \in Messages, DropMessage(m)
  PROVE  Safe'
<1>1. /\ message_value[m] = "held" /\ message_value' = [message_value EXCEPT ![m] = "dropped"]
      /\ \A f \in Frames : frame_value[f] = "held" => frame_message[f] # m
      /\ UNCHANGED <<frameVars, message_owned, zmsg, zframes, frames, sendVars, fault>>
  BY DEF Careful, DropMessage
<1>2. TypeOK'
  BY <1>1 DEF Safe, TypeOK, frameVars, sendVars, ValueStates
<1>3. Numbered'
  BY <1>1 DEF Safe, TypeOK, Numbered, InOrder, frameVars
<1>4. ASSUME NEW g \in Frames PROVE FrameOK(g)'
  BY <1>1 DEF Safe, TypeOK, FrameOK, FrameSent, Members, Wrappers, frameVars, sendVars
<1>5. ASSUME NEW n \in Messages PROVE MessageOK(n)'
  BY <1>1 DEF Safe, TypeOK, MessageOK, MessageReachable, Members, Wrappers, frameVars, sendVars
<1>6. ASSUME NEW t \in Threads PROVE SendOK(t)'
  BY <1>1 DEF Safe, SendOK, frameVars, sendVars
<1>q. QED
  BY <1>1, <1>2, <1>3, <1>4, <1>5, <1>6 DEF Safe, NoBadAccess

\* rb_czmq_free_frame of a frame nobody sends: its own, or one whose message does
\* without the wrapper.
LEMMA FreeFrameKeeps ==
  ASSUME Safe, NEW f \in Frames, FreeFrame(f), \A t \in Threads : sending_frame[t] # f,
         \A m \in message_owned : f \notin frame_owned /\ MessageReachable(m) => f \notin Wrappers(m),
         frame_value[f] # "unused",
         \/ frame_value' = frame_value /\ f \in frame_owned
         \/ frame_value' = [frame_value EXCEPT ![f] = "freed"],
         UNCHANGED <<frame_message, empty, messageVars, sendVars>>
  PROVE  Safe'
<1>1. /\ \A g \in Frames \ {f} : frame_value'[g] = frame_value[g]
      /\ (f \in frame_owned /\ frame_value'[f] = frame_value[f]) \/ frame_value'[f] = "freed"
      /\ frame_value' \in [Frames -> ValueStates]
  BY DEF Safe, TypeOK, ValueStates
<1>2. FrameOK(f) /\ ~FrameSent(f)
  BY DEF Safe, TypeOK, FrameSent
<1>3. /\ frame_owned' = frame_owned \ {f} /\ frame' = frame \ {f}
      /\ f \in frame_owned => f \in frame /\ zframe[f] = "live" /\ FreeZframes({f})
      /\ f \notin frame_owned => zframe' = zframe
      /\ fault' = "none"
  BY <1>2 DEF FreeFrame, FrameOK, UseFrame
<1>4. zframe' \in [Frames -> {"none", "live", "freed"}] /\ \A g \in Frames \ {f} : zframe'[g] = zframe[g]
  BY <1>3 DEF FreeZframes, Safe, TypeOK
<1>5. f \in frame_owned => zframe'[f] = "freed"
  BY <1>3 DEF FreeZframes
<1>6. \A m \in Messages : f \in frame_owned => f \notin Members(m)
  BY DEF Safe, MessageOK, Members, Wrappers, ToSet
<1>12. TypeOK'
  BY <1>1, <1>3, <1>4 DEF Safe, TypeOK, messageVars, sendVars, Faults
<1>13. Numbered'
  BY <1>1 DEF Safe, TypeOK, Numbered, InOrder, messageVars
<1>14. ASSUME NEW g \in Frames PROVE FrameOK(g)'
  <2>1. CASE g = f
    BY <1>1, <1>2, <1>3, <1>4, <1>5, <2>1 DEF FrameOK, FrameSent, Members, Wrappers, messageVars, sendVars
  <2>2. CASE g # f
    BY <1>1, <1>3, <1>4, <2>2 DEF Safe, FrameOK, FrameSent, Members, Wrappers, messageVars, sendVars
  <2>q. QED
    BY <2>1, <2>2
<1>15. ASSUME NEW m \in Messages PROVE MessageOK(m)'
  <2>1. MessageOK(m) /\ UNCHANGED <<messageVars, sendVars, frame_message>>
    BY DEF Safe
  <2>2. Members(m)' = Members(m) /\ Wrappers(m)' = Wrappers(m)
        /\ MessageReachable(m)' = MessageReachable(m)
    BY <2>1 DEF Members, Wrappers, MessageReachable, messageVars, sendVars
  <2>3. ASSUME m \in message_owned, NEW g \in Wrappers(m)
        PROVE  /\ g \notin frame_owned' /\ frame_value'[g] # "unused"
               /\ MessageReachable(m) => g \in frame' /\ frame_value'[g] # "freed"
    <3>1. g \in Frames
      BY DEF Safe, TypeOK, Wrappers, ToSet
    <3>q. QED
      BY <1>1, <1>3, <2>1, <2>3, <3>1 DEF MessageOK
  <2>4. \A g \in Members(m) : zframe'[g] = "live"
    <3>1. Members(m) \subseteq Frames
      BY DEF Safe, TypeOK, Members, ToSet
    <3>q. QED
      BY <1>3, <1>4, <1>6, <2>1, <3>1 DEF MessageOK
  <2>q. QED
    BY <2>1, <2>2, <2>3, <2>4 DEF MessageOK, messageVars, sendVars
<1>16. ASSUME NEW t \in Threads PROVE SendOK(t)'
  BY <1>3, <1>4 DEF Safe, TypeOK, SendOK, messageVars, sendVars
<1>q. QED
  BY <1>3, <1>12, <1>13, <1>14, <1>15, <1>16 DEF Safe, NoBadAccess

LEMMA FrameDestroyKeeps ==
  ASSUME Careful, Safe, NEW f \in Frames, FrameDestroy(f)
  PROVE  Safe'
<1>1. f \in frame_owned /\ FreeFrame(f) /\ UNCHANGED <<frame_value, frame_message, empty, messageVars, sendVars>>
  BY DEF Careful, FrameDestroy
<1>2. frame_value[f] = "held" /\ \A t \in Threads : sending_frame[t] # f
  BY UsableFrame DEF FrameDestroy
<1>q. QED
  BY <1>1, <1>2, FreeFrameKeeps

LEMMA FreeFrameGcKeeps ==
  ASSUME Careful, Safe, NEW f \in Frames, FreeFrameGc(f)
  PROVE  Safe'
<1>1. /\ FreeFrame(f) /\ frame_value[f] = "dropped" /\ frame_value' = [frame_value EXCEPT ![f] = "freed"]
      /\ UNCHANGED <<frame_message, empty, messageVars, sendVars>>
  BY DEF FreeFrameGc
<1>2. /\ \A t \in Threads : sending_frame[t] # f
      /\ \A m \in Messages : MessageReachable(m) => f \notin Wrappers(m)
  BY DEF FreeFrameGc, FrameReachable, Wrappers
<1>3. \A m \in message_owned : MessageReachable(m) => f \notin Wrappers(m)
  BY <1>2 DEF Safe, TypeOK
<1>q. QED
  BY <1>1, <1>2, <1>3, FreeFrameKeeps

\* A step that reads, or writes what no rule is about.
LEMMA ReadKeeps ==
  ASSUME Safe, fault' = "none", empty' \subseteq Frames,
         UNCHANGED <<frame_value, frame, frame_owned, frame_message, zframe, messageVars, sendVars>>
  PROVE  Safe'
<1>1. TypeOK'
  BY DEF Safe, TypeOK, Faults, messageVars, sendVars
<1>2. Numbered'
  BY DEF Safe, Numbered, InOrder, messageVars
<1>3. ASSUME NEW g \in Frames PROVE FrameOK(g)'
  BY DEF Safe, FrameOK, FrameSent, Members, Wrappers, messageVars, sendVars
<1>4. ASSUME NEW m \in Messages PROVE MessageOK(m)'
  BY DEF Safe, MessageOK, MessageReachable, Members, Wrappers, messageVars, sendVars
<1>5. ASSUME NEW t \in Threads PROVE SendOK(t)'
  BY DEF Safe, SendOK, messageVars, sendVars
<1>q. QED
  BY <1>1, <1>2, <1>3, <1>4, <1>5 DEF Safe, NoBadAccess

LEMMA FrameReadKeeps ==
  ASSUME Careful, Safe, NEW f \in Frames, FrameRead(f)
  PROVE  Safe'
BY UsableFrame, ReadKeeps DEF FrameRead, frameVars, Safe, TypeOK

LEMMA FrameCompareKeeps ==
  ASSUME Careful, Safe, NEW f \in Frames, NEW other \in Frames, FrameCompare(f, other)
  PROVE  Safe'
<1>1. AccessFrame(f) = "none" /\ MayUseFrame(other) /\ ~FrameGone(other)
  BY UsableFrame DEF FrameCompare, Careful
<1>2. other \in frame /\ UseFrame(other) = "none"
  BY <1>1, UsableFrame DEF UseFrame
<1>3. fault' = "none" /\ UNCHANGED <<frameVars, messageVars, sendVars>>
  BY <1>1, <1>2 DEF FrameCompare, FirstFault
<1>q. QED
  BY <1>3, ReadKeeps DEF frameVars, Safe, TypeOK

LEMMA FrameResetKeeps ==
  ASSUME Careful, Safe, NEW f \in Frames, FrameReset(f)
  PROVE  Safe'
BY UsableFrame, ReadKeeps DEF FrameReset, Safe, TypeOK

LEMMA MessageReadKeeps ==
  ASSUME Careful, Safe, NEW m \in Messages, MessageRead(m)
  PROVE  Safe'
<1>1. fault' = "none"
  <2>1. m \in message_owned => UseMessage(m) = "none"
    BY UsableMessage DEF MessageRead, UseMessage, Members
  <2>q. QED
    BY <2>1 DEF MessageRead
<1>q. QED
  BY <1>1, ReadKeeps DEF MessageRead, frameVars, Safe, TypeOK

LEMMA MessageFrameKeeps ==
  ASSUME Careful, Safe, NEW m \in Messages, NEW f \in Frames, MessageFrame(m, f)
  PROVE  Safe'
<1>1. /\ frame_value' = [frame_value EXCEPT ![f] = "held"]
      /\ UNCHANGED <<frame, frame_owned, frame_message, zframe, empty, messageVars, sendVars>>
      /\ f \in Wrappers(m) /\ m \in message_owned /\ MayUse(m)
  BY DEF MessageFrame, Wrappers
<1>2. message_value[m] = "held" /\ frame_message[f] = m /\ f \notin frame_owned
      /\ frame_value[f] \in {"held", "dropped"}
  BY <1>1, UsableMessage DEF Members, Wrappers
<1>3. fault' = "none"
  BY <1>2 DEF MessageFrame
<1>4. TypeOK'
  BY <1>1, <1>3 DEF Safe, TypeOK, messageVars, sendVars, ValueStates, Faults
<1>5. Numbered'
  BY <1>1, <1>2 DEF Safe, TypeOK, Numbered, InOrder, messageVars
<1>6. ASSUME NEW g \in Frames PROVE FrameOK(g)'
  BY <1>1, <1>2 DEF Safe, TypeOK, FrameOK, FrameSent, Members, Wrappers, messageVars, sendVars
<1>7. ASSUME NEW n \in Messages PROVE MessageOK(n)'
  BY <1>1, <1>2 DEF Safe, TypeOK, MessageOK, MessageReachable, Members, Wrappers, messageVars, sendVars
<1>8. ASSUME NEW t \in Threads PROVE SendOK(t)'
  BY <1>1 DEF Safe, SendOK, messageVars, sendVars
<1>q. QED
  BY <1>3, <1>4, <1>5, <1>6, <1>7, <1>8 DEF Safe, NoBadAccess

-----------------------------------------------------------------------------
(* Frames change hands                                                     *)

\* The lists of message m become s, and nothing else of any message changes.
Relists(m, s) ==
  /\ zframes' = [zframes EXCEPT ![m] = s] /\ frames' = [frames EXCEPT ![m] = s]
  /\ UNCHANGED <<message_value, message_owned, zmsg, sendVars>>

LEMMA Relisted ==
  ASSUME Safe, NEW m \in Messages, NEW s \in Seq(Frames), Relists(m, s)
  PROVE  /\ zframes' \in [Messages -> Seq(Frames)] /\ frames' \in [Messages -> Seq(Frames)]
         /\ Members(m)' = ToSet(s) /\ Wrappers(m)' = ToSet(s) /\ zframes'[m] = s /\ frames'[m] = s
         /\ \A n \in Messages \ {m} :
              /\ Members(n)' = Members(n) /\ Wrappers(n)' = Wrappers(n)
              /\ zframes'[n] = zframes[n] /\ frames'[n] = frames[n]
         /\ \A n \in Messages : MessageReachable(n)' = MessageReachable(n)
         /\ message_value' = message_value /\ message_owned' = message_owned /\ zmsg' = zmsg
         /\ sending' = sending /\ sending_frame' = sending_frame /\ sent' = sent
BY DEF Safe, TypeOK, Relists, Members, Wrappers, MessageReachable, sendVars

\* push and add: a frame on its own joins a message.
LEMMA JoinKeeps ==
  ASSUME Careful, Safe, NEW m \in Messages, NEW f \in Frames, NEW s \in Seq(Frames),
         TakeOwnership(m, f), Relists(m, s), Distinct(s), ToSet(s) = Members(m) \cup {f}
  PROVE  Safe'
<1>1. /\ MayUse(m) /\ m \in message_owned /\ f \in frame_owned
      /\ frame_message' = [frame_message EXCEPT ![f] = m] /\ frame_owned' = frame_owned \ {f}
      /\ UNCHANGED <<frame_value, frame, zframe, empty>>
  BY DEF TakeOwnership
<1>2. /\ zmsg[m] = "live" /\ message_value[m] = "held" /\ Members(m) = Wrappers(m)
      /\ \A t \in Threads : sending[t] # m
  BY <1>1, UsableMessage DEF Members, Wrappers
<1>3. /\ f \in frame /\ zframe[f] = "live" /\ frame_value[f] = "held"
      /\ \A t \in Threads : sending_frame[t] # f
  BY <1>1, UsableFrame DEF TakeOwnership
<1>4. fault' = "none"
  BY <1>1, UsableFrame, UsableMessage DEF TakeOwnership, FirstFault
<1>5. frame_message \in [Frames -> Messages \cup {Nil}] /\ frame_owned \subseteq Frames
  BY DEF Safe, TypeOK
<1>6. TypeOK'
  BY <1>1, <1>4, <1>5, Relisted DEF Safe, TypeOK, Faults
<1>7. Numbered'
  BY <1>1, Relisted DEF Safe, Numbered, InOrder
<1>8. ASSUME NEW g \in Frames PROVE FrameOK(g)'
  <2>1. FrameOK(g) /\ sent \subseteq Threads /\ message_owned \subseteq Messages /\ Nil \notin Messages
    BY ConstantsAssumption DEF Safe, TypeOK, Messages
  <2>2. FrameSent(g)' = FrameSent(g)
    BY Relisted DEF FrameSent
  <2>3. \A n \in Messages : Members(n) \subseteq Members(n)' /\ Wrappers(n) \subseteq Wrappers(n)'
    BY <1>2, Relisted
  <2>4. f \in Members(m)' /\ f \in Wrappers(m)'
    BY Relisted
  <2>q. QED
    BY <1>1, <1>2, <1>3, <1>5, <2>1, <2>2, <2>3, <2>4, Relisted DEF FrameOK
<1>9. ASSUME NEW n \in Messages PROVE MessageOK(n)'
  <2>1. MessageOK(n)
    BY DEF Safe
  <2>2. n # m => f \notin Wrappers(n) \/ n \notin message_owned
    BY <1>1, <2>1 DEF MessageOK
  <2>3. CASE n = m
    BY <1>1, <1>2, <1>3, <1>5, <2>1, <2>3, Relisted DEF MessageOK
  <2>4. CASE n # m
    BY <1>1, <1>5, <2>1, <2>2, <2>4, Relisted DEF MessageOK
  <2>q. QED
    BY <2>3, <2>4
<1>10. ASSUME NEW t \in Threads PROVE SendOK(t)'
  BY <1>1, <1>3, Relisted DEF Safe, SendOK
<1>q. QED
  BY <1>4, <1>6, <1>7, <1>8, <1>9, <1>10 DEF Safe, NoBadAccess

LEMMA MessagePushKeeps ==
  ASSUME Careful, Safe, NEW m \in Messages, NEW f \in Frames, MessagePush(m, f)
  PROVE  Safe'
<1>1. TakeOwnership(m, f) /\ MayUse(m) /\ m \in message_owned /\ f \in frame_owned
  BY DEF MessagePush, TakeOwnership
<1>2. /\ frames[m] = zframes[m] /\ zframes[m] \in Seq(Frames) /\ Distinct(zframes[m])
      /\ f \notin ToSet(zframes[m])
  BY <1>1, UsableMessage DEF Members
<1>. DEFINE s == <<f>> \o zframes[m]
<1>3. s \in Seq(Frames) /\ Distinct(s) /\ ToSet(s) = Members(m) \cup {f}
  BY <1>2, ConsMembers DEF Members
<1>4. Relists(m, s)
  BY <1>2 DEF MessagePush, TakeOwnership, Relists
<1>. HIDE DEF s
<1>q. QED
  BY <1>1, <1>3, <1>4, JoinKeeps

LEMMA MessageAddKeeps ==
  ASSUME Careful, Safe, NEW m \in Messages, NEW f \in Frames, MessageAdd(m, f)
  PROVE  Safe'
<1>1. TakeOwnership(m, f) /\ MayUse(m) /\ m \in message_owned /\ f \in frame_owned
  BY DEF MessageAdd, TakeOwnership
<1>2. /\ frames[m] = zframes[m] /\ zframes[m] \in Seq(Frames) /\ Distinct(zframes[m])
      /\ f \notin ToSet(zframes[m])
  BY <1>1, UsableMessage DEF Members
<1>. DEFINE s == Append(zframes[m], f)
<1>3. s \in Seq(Frames) /\ Distinct(s) /\ ToSet(s) = Members(m) \cup {f}
  BY <1>2, AppendMembers DEF Members
<1>4. Relists(m, s)
  BY <1>2 DEF MessageAdd, TakeOwnership, Relists
<1>. HIDE DEF s
<1>q. QED
  BY <1>1, <1>3, <1>4, JoinKeeps

\* Of the frames that leave message m some are given to the program, others, which
\* the program does not hold, are consumed; s is left.
Leaves(m, s, out, eaten) ==
  /\ MayUse(m) /\ m \in message_owned
  /\ s \in Seq(Frames) /\ Distinct(s) /\ Relists(m, s)
  /\ out \subseteq Members(m) /\ eaten \subseteq Members(m) /\ out \cap eaten = {}
  /\ ToSet(s) = Members(m) \ (out \cup eaten)
  /\ \A f \in eaten : frame_value[f] # "held"
  /\ frame_owned' = frame_owned \cup out
  /\ frame_message' = [f \in Frames |-> IF f \in out THEN Nil ELSE frame_message[f]]
  /\ frame_value' = [f \in Frames |-> IF f \in out THEN "held" ELSE frame_value[f]]
  /\ FreeZframes(eaten) /\ fault' = "none" /\ UNCHANGED <<frame, empty>>

\* pop, remove, popstr and unwrap.
LEMMA LeaveKeeps ==
  ASSUME Careful, Safe, NEW m \in Messages, NEW s, NEW out, NEW eaten, Leaves(m, s, out, eaten)
  PROVE  Safe'
<1>0. /\ MayUse(m) /\ m \in message_owned
      /\ s \in Seq(Frames) /\ Distinct(s) /\ Relists(m, s)
      /\ out \subseteq Members(m) /\ eaten \subseteq Members(m) /\ out \cap eaten = {}
      /\ ToSet(s) = Members(m) \ (out \cup eaten)
      /\ \A f \in eaten : frame_value[f] # "held"
      /\ frame_owned' = frame_owned \cup out
      /\ frame_message' = [f \in Frames |-> IF f \in out THEN Nil ELSE frame_message[f]]
      /\ frame_value' = [f \in Frames |-> IF f \in out THEN "held" ELSE frame_value[f]]
      /\ FreeZframes(eaten) /\ fault' = "none" /\ UNCHANGED <<frame, empty>>
  BY DEF Leaves
<1>1. /\ zmsg[m] = "live" /\ message_value[m] = "held" /\ Members(m) = Wrappers(m)
      /\ \A t \in Threads : sending[t] # m
      /\ \A f \in Members(m) :
           /\ f \in Frames /\ f \in frame /\ f \notin frame_owned /\ zframe[f] = "live"
           /\ frame_message[f] = m /\ frame_value[f] \in {"held", "dropped"}
  BY <1>0, UsableMessage DEF Members, Wrappers
<1>2. zframe' = [f \in Frames |-> IF f \in eaten THEN "freed" ELSE zframe[f]]
  BY <1>0 DEF FreeZframes
<1>3. TypeOK'
  BY <1>0, <1>1, <1>2, Relisted DEF Safe, TypeOK, Faults, ValueStates
<1>4. Numbered'
  <2>1. \A f \in Frames : frame_value'[f] # "unused" <=> frame_value[f] # "unused"
    BY <1>0, <1>1
  <2>q. QED
    BY <1>0, <2>1, Relisted DEF Safe, Numbered, InOrder
<1>5. ASSUME NEW n \in Messages PROVE n # m /\ n \in message_owned => Wrappers(n) \cap Members(m) = {}
  BY <1>0, <1>1 DEF Safe, MessageOK
<1>6. ASSUME NEW g \in Frames PROVE FrameOK(g)'
  <2>1. FrameOK(g) /\ sent \subseteq Threads /\ message_owned \subseteq Messages /\ Nil \notin Messages
    BY ConstantsAssumption DEF Safe, TypeOK, Messages
  <2>2. FrameSent(g)' = FrameSent(g)
    BY <1>0, Relisted DEF FrameSent
  <2>3. CASE g \in out
    BY <1>0, <1>1, <1>2, <2>1, <2>2, <2>3, Relisted DEF FrameOK
  <2>4. CASE g \in eaten
    BY <1>0, <1>1, <1>2, <2>1, <2>2, <2>4, Relisted DEF FrameOK
  <2>5. CASE g \notin out \cup eaten
    <3>1. \A n \in Messages : /\ g \in Members(n) => g \in Members(n)'
                              /\ g \in Wrappers(n) => g \in Wrappers(n)'
      <4>. SUFFICES ASSUME NEW n \in Messages
                    PROVE  /\ g \in Members(n) => g \in Members(n)'
                           /\ g \in Wrappers(n) => g \in Wrappers(n)'
        OBVIOUS
      <4>1. CASE n = m
        <5>1. Members(n) = Wrappers(n)
          BY <1>0, <1>1, <4>1
        <5>2. Members(n)' = Members(n) \ (out \cup eaten) /\ Wrappers(n)' = Members(n)'
          BY <1>0, <4>1, Relisted
        <5>q. QED
          BY <1>0, <2>5, <5>1, <5>2
      <4>2. CASE n # m
        BY <1>0, <4>2, Relisted
      <4>q. QED
        BY <1>0, <4>1, <4>2
    <3>q. QED
      BY <1>0, <1>1, <1>2, <2>1, <2>2, <2>5, <3>1, Relisted DEF FrameOK
  <2>q. QED
    BY <1>0, <2>3, <2>4, <2>5
<1>7. ASSUME NEW n \in Messages PROVE MessageOK(n)'
  <2>1. MessageOK(n)
    BY DEF Safe
  <2>2. CASE n = m
    BY <1>0, <1>1, <1>2, <2>1, <2>2, Relisted DEF MessageOK
  <2>3. CASE n # m
    <3>1. Members(n) \cap Members(m) = {}
      <4>1. CASE zmsg[n] = "live"
        <5>1. n \in message_owned /\ Members(n) = Wrappers(n)
          BY <1>0, <2>1, <4>1 DEF MessageOK, Members, Wrappers
        <5>q. QED
          BY <1>0, <1>5, <2>3, <5>1
      <4>2. CASE zmsg[n] # "live"
        <5>1. zframes[n] = <<>>
          BY <1>0, <2>1, <4>2 DEF MessageOK
        <5>q. QED
          BY <1>0, <5>1 DEF Members, ToSet
      <4>q. QED
        BY <1>0, <4>1, <4>2
    <3>2. Members(n) \subseteq Frames /\ Wrappers(n) \subseteq Frames
      BY DEF Safe, TypeOK, Members, Wrappers, ToSet
    <3>3. \A f \in Frames : f \notin Members(m) =>
            /\ zframe'[f] = zframe[f] /\ frame_message'[f] = frame_message[f]
            /\ f \in frame_owned' <=> f \in frame_owned
            /\ frame_value'[f] = frame_value[f]
      BY <1>0, <1>2
    <3>4. \A f \in Frames : frame_message[f] # n => frame_message'[f] # n
      BY <1>0, ConstantsAssumption DEF Messages
    <3>5. n \in message_owned => Wrappers(n) \cap Members(m) = {}
      BY <1>0, <1>5, <2>3
    <3>6. /\ zframes'[n] = zframes[n] /\ frames'[n] = frames[n]
          /\ Members(n)' = Members(n) /\ Wrappers(n)' = Wrappers(n)
          /\ MessageReachable(n)' = MessageReachable(n)
      BY <1>0, <2>3, Relisted
    <3>7. UNCHANGED <<message_value, message_owned, zmsg, sending, sent, frame>>
      BY <1>0, Relisted
    <3>q. QED
      BY <1>0, <2>1, <3>1, <3>2, <3>3, <3>4, <3>5, <3>6, <3>7 DEF MessageOK
  <2>q. QED
    BY <1>0, <2>2, <2>3
<1>8. ASSUME NEW t \in Threads PROVE SendOK(t)'
  BY <1>0, <1>1, <1>2, Relisted DEF Safe, SendOK, TypeOK
<1>q. QED
  BY <1>0, <1>3, <1>4, <1>6, <1>7, <1>8 DEF Safe, NoBadAccess

\* ReleaseTo, when the wrapper is handed to the program.
LEMMA Released ==
  ASSUME Safe, NEW f \in Frames, ReleaseTo(f)
  PROVE  /\ frame_owned' = frame_owned \cup {f}
         /\ frame_message' = [g \in Frames |-> IF g \in {f} THEN Nil ELSE frame_message[g]]
BY DEF Safe, TypeOK, ReleaseTo

LEMMA MessagePopKeeps ==
  ASSUME Careful, Safe, NEW m \in Messages, MessagePop(m)
  PROVE  Safe'
<1>. DEFINE h == Head(zframes[m])
            s == Tail(zframes[m])
<1>1. /\ MayUse(m) /\ m \in message_owned /\ zframes[m] # <<>>
      /\ UNCHANGED <<frame, zframe, empty, message_value, message_owned, zmsg, sendVars>>
  BY DEF MessagePop
<1>2. /\ frames[m] = zframes[m] /\ zframes[m] \in Seq(Frames) /\ Distinct(zframes[m])
      /\ UseList(m) = "none"
  BY <1>1, UsableMessage
<1>3. /\ s \in Seq(Frames) /\ Distinct(s) /\ h \in Members(m) /\ h \in Frames
      /\ ToSet(s) = Members(m) \ {h}
  BY <1>1, <1>2, TailMembers DEF Members
<1>4. /\ Relists(m, s) /\ ReleaseTo(h) /\ fault' = "none"
      /\ frame_value' = [frame_value EXCEPT ![h] = "held"]
  BY <1>1, <1>2 DEF MessagePop, Relists
<1>. HIDE DEF h, s
<1>5. /\ frame_owned' = frame_owned \cup {h}
      /\ frame_message' = [g \in Frames |-> IF g \in {h} THEN Nil ELSE frame_message[g]]
  BY <1>3, <1>4, Released
<1>6. frame_value' = [g \in Frames |-> IF g \in {h} THEN "held" ELSE frame_value[g]]
  BY <1>4 DEF Safe, TypeOK
<1>7. FreeZframes({})
  BY <1>1 DEF FreeZframes, Safe, TypeOK
<1>8. Leaves(m, s, {h}, {})
  BY <1>1, <1>3, <1>4, <1>5, <1>6, <1>7 DEF Leaves
<1>q. QED
  BY <1>8, LeaveKeeps

LEMMA MessageRemoveKeeps ==
  ASSUME Careful, Safe, NEW m \in Messages, NEW f \in Frames, MessageRemove(m, f)
  PROVE  Safe'
<1>. DEFINE s == RemoveFirst(zframes[m], f)
<1>1. /\ MayUse(m) /\ m \in message_owned /\ f \in ToSet(frames[m]) /\ frame_value[f] = "held"
      /\ UNCHANGED <<frame_value, frame, zframe, empty, message_value, message_owned, zmsg, sendVars>>
  BY DEF Careful, MessageRemove, MayUseFrame
<1>2. /\ frames[m] = zframes[m] /\ zframes[m] \in Seq(Frames) /\ Distinct(zframes[m])
      /\ UseList(m) = "none" /\ f \in Members(m) /\ f \in frame
  BY <1>1, UsableMessage DEF Members
<1>3. s \in Seq(Frames) /\ Distinct(s) /\ ToSet(s) = Members(m) \ {f}
  BY <1>2, RemoveFirstMembers DEF Members
<1>4. Relists(m, s) /\ ReleaseTo(f) /\ fault' = "none"
  BY <1>1, <1>2 DEF MessageRemove, Relists
<1>. HIDE DEF s
<1>5. /\ frame_owned' = frame_owned \cup {f}
      /\ frame_message' = [g \in Frames |-> IF g \in {f} THEN Nil ELSE frame_message[g]]
  BY <1>4, Released
<1>6. frame_value' = [g \in Frames |-> IF g \in {f} THEN "held" ELSE frame_value[g]]
  BY <1>1 DEF Safe, TypeOK
<1>7. FreeZframes({})
  BY <1>1 DEF FreeZframes, Safe, TypeOK
<1>8. Leaves(m, s, {f}, {})
  BY <1>1, <1>2, <1>3, <1>4, <1>5, <1>6, <1>7 DEF Leaves
<1>q. QED
  BY <1>8, LeaveKeeps

LEMMA MessagePopStrKeeps ==
  ASSUME Careful, Safe, NEW m \in Messages, MessagePopStr(m)
  PROVE  Safe'
<1>. DEFINE h == Head(zframes[m])
            s == Tail(zframes[m])
<1>1. /\ MayUse(m) /\ m \in message_owned /\ zframes[m] # <<>>
      /\ UNCHANGED <<frame_value, frame, frame_owned, frame_message, empty, message_value,
                     message_owned, zmsg, sendVars>>
  BY DEF MessagePopStr
<1>2. /\ frames[m] = zframes[m] /\ zframes[m] \in Seq(Frames) /\ Distinct(zframes[m])
      /\ \A set \in SUBSET Members(m) : UseMembers(m, set) = "none"
  BY <1>1, UsableMessage
<1>3. /\ s \in Seq(Frames) /\ Distinct(s) /\ h \in Members(m) /\ h \in Frames
      /\ ToSet(s) = Members(m) \ {h}
  BY <1>1, <1>2, TailMembers DEF Members
<1>4. Relists(m, s) /\ FreeZframes({h}) /\ fault' = "none" /\ frame_value[h] # "held"
  BY <1>1, <1>2, <1>3 DEF MessagePopStr, Relists, MayConsume, Careful
<1>. HIDE DEF h, s
<1>5. /\ frame_message' = [g \in Frames |-> IF g \in {} THEN Nil ELSE frame_message[g]]
      /\ frame_value' = [g \in Frames |-> IF g \in {} THEN "held" ELSE frame_value[g]]
      /\ frame_owned' = frame_owned \cup {}
  BY <1>1 DEF Safe, TypeOK
<1>6. Leaves(m, s, {}, {h})
  BY <1>1, <1>3, <1>4, <1>5 DEF Leaves
<1>q. QED
  BY <1>6, LeaveKeeps

LEMMA MessageUnwrapKeeps ==
  ASSUME Careful, Safe, NEW m \in Messages, MessageUnwrap(m)
  PROVE  Safe'
<1>. DEFINE h == Head(zframes[m])
            next == zframes[m][2]
            rest == Tail(zframes[m])
<1>1. MayUse(m) /\ m \in message_owned /\ Len(zframes[m]) >= 2 /\ UNCHANGED sendVars
  BY DEF Careful, MessageUnwrap
<1>2. /\ frames[m] = zframes[m] /\ zframes[m] \in Seq(Frames) /\ Distinct(zframes[m])
      /\ \A set \in SUBSET Members(m) : UseMembers(m, set) = "none"
  BY <1>1, UsableMessage
<1>3. /\ rest \in Seq(Frames) /\ Distinct(rest) /\ h \in Members(m) /\ h \in Frames
      /\ ToSet(rest) = Members(m) \ {h}
  BY <1>1, <1>2, TailMembers DEF Members
<1>4. rest # <<>> /\ next = Head(rest)
  <2>1. \A r \in Seq(Frames) : Len(r) >= 2 => Tail(r) # <<>> /\ r[2] = Head(Tail(r))
    OBVIOUS
  <2>q. QED
    BY <1>1, <1>2, <2>1
<1>5. /\ Tail(rest) \in Seq(Frames) /\ Distinct(Tail(rest)) /\ next \in Members(m) \ {h}
      /\ ToSet(Tail(rest)) = Members(m) \ {h, next}
  <2>. HIDE DEF rest, h, next
  <2>q. QED
    BY <1>3, <1>4, TailMembers
<1>6. /\ ReleaseTo(h) /\ frame_value' = [frame_value EXCEPT ![h] = "held"]
      /\ fault' = UseMembers(m, {next})
      /\ UNCHANGED <<frame, empty, message_value, message_owned, zmsg>>
  <2>1. /\ ReleaseTo(Head(frames[m])) /\ frame_value' = [frame_value EXCEPT ![Head(frames[m])] = "held"]
        /\ fault' = UseMembers(m, {zframes[m][2]})
        /\ UNCHANGED <<frame, empty, message_value, message_owned, zmsg>>
    <3>1. ~(Len(zframes[m]) < 2)
      BY <1>1, <1>2
    <3>q. QED
      BY <3>1, Zenon DEF MessageUnwrap
  <2>q. QED
    BY <1>2, <2>1
<1>7. fault' = "none"
  BY <1>2, <1>5, <1>6
<1>8. /\ frame_owned' = frame_owned \cup {h}
      /\ frame_message' = [g \in Frames |-> IF g \in {h} THEN Nil ELSE frame_message[g]]
      /\ frame_value' = [g \in Frames |-> IF g \in {h} THEN "held" ELSE frame_value[g]]
  <2>. HIDE DEF h
  <2>q. QED
    BY <1>3, <1>6, Released DEF Safe, TypeOK
<1>9. CASE next \in empty
  <2>1. FreeZframes({next}) /\ frame_value[next] # "held"
    BY <1>1, <1>2, <1>9 DEF MessageUnwrap, MayConsume, Careful
  <2>2. Relists(m, SubSeq(zframes[m], 3, Len(zframes[m])))
    BY <1>1, <1>2, <1>6, <1>9 DEF MessageUnwrap, Relists
  <2>3. SubSeq(zframes[m], 3, Len(zframes[m])) = Tail(rest)
    <3>1. \A r \in Seq(Frames) : Len(r) >= 2 => SubSeq(r, 3, Len(r)) = Tail(Tail(r))
      OBVIOUS
    <3>q. QED
      BY <1>1, <1>2, <3>1
  <2>. HIDE DEF h, next, rest
  <2>4. Leaves(m, Tail(rest), {h}, {next})
    BY <1>1, <1>3, <1>5, <1>6, <1>7, <1>8, <2>1, <2>2, <2>3 DEF Leaves
  <2>q. QED
    BY <2>4, LeaveKeeps
<1>10. CASE next \notin empty
  <2>1. FreeZframes({})
    BY <1>1, <1>2, <1>10 DEF MessageUnwrap
  <2>2. Relists(m, SubSeq(zframes[m], 2, Len(zframes[m])))
    BY <1>1, <1>2, <1>6, <1>10 DEF MessageUnwrap, Relists
  <2>3. SubSeq(zframes[m], 2, Len(zframes[m])) = rest
    <3>1. \A r \in Seq(Frames) : Len(r) >= 2 => SubSeq(r, 2, Len(r)) = Tail(r)
      OBVIOUS
    <3>q. QED
      BY <1>1, <1>2, <3>1
  <2>. HIDE DEF h, next, rest
  <2>4. Leaves(m, rest, {h}, {})
    BY <1>1, <1>3, <1>6, <1>7, <1>8, <2>1, <2>2, <2>3 DEF Leaves
  <2>q. QED
    BY <2>4, LeaveKeeps
<1>q. QED
  BY <1>9, <1>10

-----------------------------------------------------------------------------
(* New frames and messages                                                 *)

\* A number that is next has not been used for anything.
LEMMA Fresh ==
  ASSUME Safe, NEW k \in Nat, Room(k)
  PROVE  /\ MadeFrames \in Nat /\ NextFrames(k) \subseteq Frames /\ MadeFrames + k \in 0..MaxFrames
         /\ \A f \in NextFrames(k) :
              /\ frame_value[f] = "unused" /\ f \notin frame /\ f \notin frame_owned /\ zframe[f] = "none"
              /\ \A m \in Messages : f \notin Members(m) /\ (m \in message_owned => f \notin Wrappers(m))
              /\ \A t \in Threads : sending_frame[t] # f
         /\ \A f \in Frames : frame_value[f] # "unused" \/ f \in NextFrames(k) <=> f <= MadeFrames + k
<1>1. MadeFrames \in 0..MaxFrames /\ InOrder(MadeFrames, frame_value, Frames) /\ MaxFrames \in Nat
  BY Counted, ConstantsAssumption
<1>2. NextFrames(k) \subseteq Frames /\ MadeFrames + k \in 0..MaxFrames
  BY <1>1 DEF NextFrames, Room, Frames
<1>3. ASSUME NEW f \in NextFrames(k)
      PROVE  /\ frame_value[f] = "unused" /\ f \notin frame /\ f \notin frame_owned /\ zframe[f] = "none"
             /\ \A m \in Messages : f \notin Members(m) /\ (m \in message_owned => f \notin Wrappers(m))
             /\ \A t \in Threads : sending_frame[t] # f
  <2>1. f \in Frames /\ frame_value[f] = "unused" /\ FrameOK(f)
    BY <1>1, <1>2 DEF Safe, InOrder, NextFrames
  <2>2. f \notin frame /\ f \notin frame_owned /\ zframe[f] = "none"
    BY <2>1 DEF FrameOK
  <2>3. ASSUME NEW m \in Messages PROVE f \notin Members(m) /\ (m \in message_owned => f \notin Wrappers(m))
    BY <2>1, <2>2 DEF Safe, MessageOK
  <2>4. ASSUME NEW t \in Threads PROVE sending_frame[t] # f
    <3>1. f # Nil
      BY <2>1, ConstantsAssumption DEF Frames
    <3>q. QED
      BY <2>2, <3>1 DEF Safe, SendOK
  <2>q. QED
    BY <2>1, <2>2, <2>3, <2>4
<1>4. \A f \in Frames : frame_value[f] # "unused" \/ f \in NextFrames(k) <=> f <= MadeFrames + k
  BY <1>1 DEF InOrder, NextFrames, Frames
<1>q. QED
  BY <1>1, <1>2, <1>3, <1>4

\* ZMQ::Frame.new, recv_frame and dup make a wrapper on its own.
LEMMA MadeAloneKeeps ==
  ASSUME Safe, Room(1), NEW empties \in SUBSET Frames, AllocFrames(NextFrames(1), Nil, empties),
         fault' = "none", UNCHANGED <<messageVars, sendVars>>
  PROVE  Safe'
<1>. DEFINE new == NextFrames(1)
<1>1. /\ frame_value' = [f \in Frames |-> IF f \in new THEN "held" ELSE frame_value[f]]
      /\ frame' = frame \cup new /\ frame_owned' = frame_owned \cup new
      /\ frame_message' = [f \in Frames |-> IF f \in new THEN Nil ELSE frame_message[f]]
      /\ zframe' = [f \in Frames |-> IF f \in new THEN "live" ELSE zframe[f]]
      /\ empty' = empty \cup empties
  BY DEF AllocFrames, Safe, TypeOK
<1>2. /\ new \subseteq Frames /\ MadeFrames + 1 \in 0..MaxFrames
      /\ \A f \in new :
              /\ frame_value[f] = "unused" /\ f \notin frame /\ f \notin frame_owned /\ zframe[f] = "none"
              /\ \A m \in Messages : f \notin Members(m) /\ (m \in message_owned => f \notin Wrappers(m))
              /\ \A t \in Threads : sending_frame[t] # f
      /\ \A f \in Frames : frame_value[f] # "unused" \/ f \in new <=> f <= MadeFrames + 1
  BY Fresh
<1>. HIDE DEF new
<1>3. TypeOK'
  BY <1>1, <1>2 DEF Safe, TypeOK, messageVars, sendVars, ValueStates, Faults
<1>4. Numbered'
  <2>1. InOrder(MadeFrames + 1, frame_value', Frames)
    BY <1>1, <1>2 DEF InOrder
  <2>q. QED
    BY <1>2, <2>1 DEF Safe, Numbered, InOrder, messageVars
<1>5. ASSUME NEW g \in Frames PROVE FrameOK(g)'
  <2>1. FrameOK(g) /\ sent \subseteq Threads /\ message_owned \subseteq Messages /\ Nil \notin Messages
    BY ConstantsAssumption DEF Safe, TypeOK, Messages
  <2>q. QED
    BY <1>1, <1>2, <2>1 DEF FrameOK, FrameSent, Members, Wrappers, messageVars, sendVars
<1>6. ASSUME NEW m \in Messages PROVE MessageOK(m)'
  <2>1. MessageOK(m) /\ m # Nil
    BY ConstantsAssumption DEF Safe, Messages
  <2>2. Members(m) \subseteq Frames /\ Wrappers(m) \subseteq Frames
    BY DEF Safe, TypeOK, Members, Wrappers, ToSet
  <2>3. /\ Members(m)' = Members(m) /\ Wrappers(m)' = Wrappers(m) /\ MessageReachable(m)' = MessageReachable(m)
        /\ UNCHANGED <<message_value, message_owned, zmsg, zframes, frames, sending, sent>>
    BY DEF Members, Wrappers, MessageReachable, messageVars, sendVars
  <2>4. \A f \in Frames : f \notin new =>
          /\ frame_value'[f] = frame_value[f] /\ frame_message'[f] = frame_message[f]
          /\ zframe'[f] = zframe[f] /\ (f \in frame' <=> f \in frame) /\ (f \in frame_owned' <=> f \in frame_owned)
    BY <1>1
  <2>5. \A f \in Members(m) : f \notin new
    BY <1>2
  <2>6. m \in message_owned => \A f \in Wrappers(m) : f \notin new
    BY <1>2
  <2>7. \A f \in Frames : frame_message[f] # m => frame_message'[f] # m
    BY <1>1, <2>1
  <2>q. QED
    BY <2>1, <2>2, <2>3, <2>4, <2>5, <2>6, <2>7 DEF MessageOK
<1>7. ASSUME NEW t \in Threads PROVE SendOK(t)'
  <2>1. SendOK(t) /\ sending_frame[t] \in Frames \cup {Nil} /\ frame_owned \subseteq Frames
    BY DEF Safe, TypeOK
  <2>q. QED
    BY <1>1, <1>2, <2>1 DEF SendOK, messageVars, sendVars
<1>q. QED
  BY <1>3, <1>4, <1>5, <1>6, <1>7 DEF Safe, NoBadAccess

LEMMA FrameNewKeeps ==
  ASSUME Safe, FrameNew
  PROVE  Safe'
<1>1. Room(1) /\ UNCHANGED <<messageVars, sendVars, fault>>
  BY DEF FrameNew
<1>2. PICK empties \in SUBSET NextFrames(1) : AllocFrames(NextFrames(1), Nil, empties)
  BY DEF FrameNew
<1>3. NextFrames(1) \subseteq Frames
  BY <1>1, Fresh
<1>4. fault' = "none"
  BY <1>1 DEF Safe, NoBadAccess
<1>q. QED
  BY <1>1, <1>2, <1>3, <1>4, MadeAloneKeeps

LEMMA FrameDupKeeps ==
  ASSUME Careful, Safe, NEW f \in Frames, FrameDup(f)
  PROVE  Safe'
<1>. DEFINE empties == IF f \in empty THEN NextFrames(1) ELSE {}
<1>1. Room(1) /\ MayUseFrame(f) /\ AllocFrames(NextFrames(1), Nil, empties)
      /\ fault' = AccessFrame(f) /\ UNCHANGED <<messageVars, sendVars>>
  BY DEF FrameDup
<1>2. empties \in SUBSET Frames
  BY <1>1, Fresh
<1>3. fault' = "none"
  BY <1>1, UsableFrame
<1>. HIDE DEF empties
<1>q. QED
  BY <1>1, <1>2, <1>3, MadeAloneKeeps

\* A new frame joins message m, and so do the frames of `joined`; s is the list.
Grows(m, s, joined) ==
  /\ MayUse(m) /\ m \in message_owned /\ Room(1)
  /\ s \in Seq(Frames) /\ Distinct(s) /\ Relists(m, s)
  /\ joined \subseteq frame_owned
  /\ \A f \in joined :
       /\ frame_value[f] = "held" /\ f \in frame /\ zframe[f] = "live"
       /\ \A t \in Threads : sending_frame[t] # f
  /\ ToSet(s) = Members(m) \cup joined \cup NextFrames(1)
  /\ frame_value' = [f \in Frames |-> IF f \in NextFrames(1) THEN "dropped" ELSE frame_value[f]]
  /\ frame' = frame \cup NextFrames(1)
  /\ frame_owned' = frame_owned \ joined
  /\ frame_message' =
       [f \in Frames |-> IF f \in joined \cup NextFrames(1) THEN m ELSE frame_message[f]]
  /\ zframe' = [f \in Frames |-> IF f \in NextFrames(1) THEN "live" ELSE zframe[f]]
  /\ empty' \subseteq Frames /\ fault' = "none"

\* pushstr, addstr and wrap.
LEMMA GrowKeeps ==
  ASSUME Careful, Safe, NEW m \in Messages, NEW s, NEW joined, Grows(m, s, joined)
  PROVE  Safe'
<1>. DEFINE new == NextFrames(1)
<1>0. /\ MayUse(m) /\ m \in message_owned /\ Room(1)
      /\ s \in Seq(Frames) /\ Distinct(s) /\ Relists(m, s)
      /\ joined \subseteq frame_owned /\ joined \subseteq Frames
      /\ \A f \in joined :
           /\ frame_value[f] = "held" /\ f \in frame /\ zframe[f] = "live"
           /\ \A t \in Threads : sending_frame[t] # f
      /\ ToSet(s) = Members(m) \cup joined \cup new
      /\ frame_value' = [f \in Frames |-> IF f \in new THEN "dropped" ELSE frame_value[f]]
      /\ frame' = frame \cup new
      /\ frame_owned' = frame_owned \ joined
      /\ frame_message' = [f \in Frames |-> IF f \in joined \cup new THEN m ELSE frame_message[f]]
      /\ zframe' = [f \in Frames |-> IF f \in new THEN "live" ELSE zframe[f]]
      /\ empty' \subseteq Frames /\ fault' = "none"
  BY DEF Grows, Safe, TypeOK
<1>1. /\ zmsg[m] = "live" /\ message_value[m] = "held" /\ Members(m) = Wrappers(m)
      /\ \A t \in Threads : sending[t] # m
  BY <1>0, UsableMessage DEF Members, Wrappers
<1>2. /\ new \subseteq Frames /\ MadeFrames + 1 \in 0..MaxFrames
      /\ \A f \in new :
              /\ frame_value[f] = "unused" /\ f \notin frame /\ f \notin frame_owned /\ zframe[f] = "none"
              /\ \A n \in Messages : f \notin Members(n) /\ (n \in message_owned => f \notin Wrappers(n))
              /\ \A t \in Threads : sending_frame[t] # f
      /\ \A f \in Frames : frame_value[f] # "unused" \/ f \in new <=> f <= MadeFrames + 1
  BY <1>0, Fresh
<1>. HIDE DEF new
<1>3. /\ zframes' \in [Messages -> Seq(Frames)] /\ frames' \in [Messages -> Seq(Frames)]
      /\ Members(m)' = ToSet(s) /\ Wrappers(m)' = ToSet(s) /\ zframes'[m] = s /\ frames'[m] = s
      /\ \A n \in Messages \ {m} :
           /\ Members(n)' = Members(n) /\ Wrappers(n)' = Wrappers(n)
           /\ zframes'[n] = zframes[n] /\ frames'[n] = frames[n]
      /\ \A n \in Messages : MessageReachable(n)' = MessageReachable(n)
      /\ message_value' = message_value /\ message_owned' = message_owned /\ zmsg' = zmsg
      /\ sending' = sending /\ sending_frame' = sending_frame /\ sent' = sent
  BY <1>0, Relisted
<1>4. TypeOK'
  BY <1>0, <1>2, <1>3 DEF Safe, TypeOK, ValueStates, Faults
<1>5. Numbered'
  <2>1. InOrder(MadeFrames + 1, frame_value', Frames)
    BY <1>0, <1>2 DEF InOrder
  <2>q. QED
    BY <1>2, <1>3, <2>1 DEF Safe, Numbered, InOrder
<1>6. ASSUME NEW g \in Frames PROVE FrameOK(g)'
  <2>1. FrameOK(g) /\ sent \subseteq Threads /\ message_owned \subseteq Messages /\ Nil \notin Messages
        /\ frame_message[g] \in Messages \cup {Nil}
    BY ConstantsAssumption DEF Safe, TypeOK, Messages
  <2>2. FrameSent(g)' = FrameSent(g)
    BY <1>3 DEF FrameSent
  <2>3. ASSUME NEW n \in Messages
        PROVE  Members(n) \subseteq Members(n)' /\ Wrappers(n) \subseteq Wrappers(n)'
    <3>1. CASE n = m
      <4>1. Members(n)' = Members(n) \cup joined \cup new /\ Wrappers(n)' = Members(n)'
            /\ Members(n) = Wrappers(n)
        BY <1>0, <1>1, <1>3, <3>1
      <4>q. QED
        BY <4>1
    <3>2. CASE n # m
      BY <1>3, <3>2
    <3>q. QED
      BY <3>1, <3>2
  <2>4. CASE g \in new
    BY <1>0, <1>1, <1>2, <1>3, <2>1, <2>2, <2>4 DEF FrameOK
  <2>5. CASE g \in joined
    <3>1. g \in Members(m)' /\ g \in Wrappers(m)' /\ g \notin frame_owned' /\ frame_message'[g] = m
      BY <1>0, <1>3, <2>5
    <3>q. QED
      BY <1>0, <1>1, <1>2, <1>3, <2>1, <2>2, <2>5, <3>1 DEF FrameOK
  <2>6. CASE g \notin joined \cup new
    BY <1>0, <1>1, <1>2, <1>3, <2>1, <2>2, <2>3, <2>6 DEF FrameOK
  <2>q. QED
    BY <2>4, <2>5, <2>6
<1>7. ASSUME NEW n \in Messages PROVE MessageOK(n)'
  <2>1. MessageOK(n) /\ m # Nil
    BY ConstantsAssumption DEF Safe, Messages
  <2>2. Members(n) \subseteq Frames /\ Wrappers(n) \subseteq Frames
    BY DEF Safe, TypeOK, Members, Wrappers, ToSet
  <2>3. \A f \in Frames : f \notin new \cup joined =>
          /\ frame_value'[f] = frame_value[f] /\ frame_message'[f] = frame_message[f]
          /\ zframe'[f] = zframe[f] /\ (f \in frame' <=> f \in frame) /\ (f \in frame_owned' <=> f \in frame_owned)
    BY <1>0
  <2>4. CASE n = m
    BY <1>0, <1>1, <1>2, <1>3, <2>1, <2>2, <2>3, <2>4 DEF MessageOK
  <2>5. CASE n # m
    <3>1. \A f \in Members(n) : zframe'[f] = "live"
      BY <1>0, <1>2, <2>1, <2>2 DEF MessageOK
    <3>2. n \in message_owned => \A f \in Wrappers(n) : f \notin new \cup joined
      BY <1>0, <1>2, <2>1 DEF MessageOK
    <3>3. \A f \in Frames : frame_message[f] # n => frame_message'[f] # n
      BY <1>0, <2>5
    <3>4. /\ zframes'[n] = zframes[n] /\ frames'[n] = frames[n]
          /\ Members(n)' = Members(n) /\ Wrappers(n)' = Wrappers(n)
          /\ MessageReachable(n)' = MessageReachable(n)
          /\ UNCHANGED <<message_value, message_owned, zmsg, sending, sent>>
      BY <1>3, <2>5
    <3>q. QED
      BY <2>1, <2>2, <2>3, <3>1, <3>2, <3>3, <3>4 DEF MessageOK
  <2>q. QED
    BY <2>4, <2>5
<1>8. ASSUME NEW t \in Threads PROVE SendOK(t)'
  <2>1. SendOK(t) /\ sending_frame[t] \in Frames \cup {Nil}
    BY DEF Safe, TypeOK
  <2>2. sending_frame[t] # Nil => sending_frame[t] \notin joined \cup new
    BY <1>0, <1>2
  <2>q. QED
    BY <1>0, <1>3, <2>1, <2>2 DEF SendOK
<1>q. QED
  BY <1>0, <1>4, <1>5, <1>6, <1>7, <1>8 DEF Safe, NoBadAccess

LEMMA NewFrame ==
  ASSUME Safe, Room(1)
  PROVE  NextFrames(1) = {MadeFrames + 1} /\ MadeFrames + 1 \in Frames
<1>1. MadeFrames \in Nat /\ NextFrames(1) \subseteq Frames
  BY Fresh
<1>2. NextFrames(1) = {MadeFrames + 1}
  BY <1>1 DEF NextFrames
<1>q. QED
  BY <1>1, <1>2

LEMMA MessagePushStrKeeps ==
  ASSUME Careful, Safe, NEW m \in Messages, MessagePushStr(m)
  PROVE  Safe'
<1>. DEFINE e == MadeFrames + 1
            s == <<e>> \o zframes[m]
<1>1. /\ MayUse(m) /\ m \in message_owned /\ Room(1)
      /\ UNCHANGED <<message_value, message_owned, zmsg, sendVars>>
  BY DEF MessagePushStr
<1>2. PICK empties \in SUBSET NextFrames(1) : AllocFrames(NextFrames(1), m, empties)
  BY DEF MessagePushStr
<1>3. /\ frames[m] = zframes[m] /\ zframes[m] \in Seq(Frames) /\ Distinct(zframes[m])
      /\ UseList(m) = "none"
  BY <1>1, UsableMessage
<1>4. NextFrames(1) = {e} /\ e \in Frames /\ e \notin ToSet(zframes[m])
  BY <1>1, NewFrame, Fresh DEF Members
<1>5. Relists(m, s) /\ fault' = "none"
  BY <1>1, <1>3 DEF MessagePushStr, Relists
<1>. HIDE DEF e
<1>6. s \in Seq(Frames) /\ Distinct(s) /\ ToSet(s) = Members(m) \cup {} \cup NextFrames(1)
  BY <1>3, <1>4, ConsMembers DEF Members
<1>7. m # Nil
  BY ConstantsAssumption DEF Messages
<1>8. /\ frame_value' = [f \in Frames |-> IF f \in NextFrames(1) THEN "dropped" ELSE frame_value[f]]
      /\ frame' = frame \cup NextFrames(1)
      /\ frame_owned' = frame_owned \ {}
      /\ frame_message' = [f \in Frames |-> IF f \in {} \cup NextFrames(1) THEN m ELSE frame_message[f]]
      /\ zframe' = [f \in Frames |-> IF f \in NextFrames(1) THEN "live" ELSE zframe[f]]
      /\ empty' \subseteq Frames
  BY <1>2, <1>4, <1>7 DEF AllocFrames, Safe, TypeOK
<1>. HIDE DEF s
<1>9. Grows(m, s, {})
  BY <1>1, <1>5, <1>6, <1>8 DEF Grows
<1>q. QED
  BY <1>9, GrowKeeps

LEMMA MessageAddStrKeeps ==
  ASSUME Careful, Safe, NEW m \in Messages, MessageAddStr(m)
  PROVE  Safe'
<1>. DEFINE e == MadeFrames + 1
            s == Append(zframes[m], e)
<1>1. /\ MayUse(m) /\ m \in message_owned /\ Room(1)
      /\ UNCHANGED <<message_value, message_owned, zmsg, sendVars>>
  BY DEF MessageAddStr
<1>2. PICK empties \in SUBSET NextFrames(1) : AllocFrames(NextFrames(1), m, empties)
  BY DEF MessageAddStr
<1>3. /\ frames[m] = zframes[m] /\ zframes[m] \in Seq(Frames) /\ Distinct(zframes[m])
      /\ UseList(m) = "none"
  BY <1>1, UsableMessage
<1>4. NextFrames(1) = {e} /\ e \in Frames /\ e \notin ToSet(zframes[m])
  BY <1>1, NewFrame, Fresh DEF Members
<1>5. Relists(m, s) /\ fault' = "none"
  BY <1>1, <1>3 DEF MessageAddStr, Relists
<1>. HIDE DEF e
<1>6. s \in Seq(Frames) /\ Distinct(s) /\ ToSet(s) = Members(m) \cup {} \cup NextFrames(1)
  BY <1>3, <1>4, AppendMembers DEF Members
<1>7. m # Nil
  BY ConstantsAssumption DEF Messages
<1>8. /\ frame_value' = [f \in Frames |-> IF f \in NextFrames(1) THEN "dropped" ELSE frame_value[f]]
      /\ frame' = frame \cup NextFrames(1)
      /\ frame_owned' = frame_owned \ {}
      /\ frame_message' = [f \in Frames |-> IF f \in {} \cup NextFrames(1) THEN m ELSE frame_message[f]]
      /\ zframe' = [f \in Frames |-> IF f \in NextFrames(1) THEN "live" ELSE zframe[f]]
      /\ empty' \subseteq Frames
  BY <1>2, <1>4, <1>7 DEF AllocFrames, Safe, TypeOK
<1>. HIDE DEF s
<1>9. Grows(m, s, {})
  BY <1>1, <1>5, <1>6, <1>8 DEF Grows
<1>q. QED
  BY <1>9, GrowKeeps

LEMMA MessageWrapKeeps ==
  ASSUME Careful, Safe, NEW m \in Messages, NEW f \in Frames, MessageWrap(m, f)
  PROVE  Safe'
<1>. DEFINE e == MadeFrames + 1
            r == <<e>> \o zframes[m]
            s == <<f>> \o r
<1>1. /\ MayUse(m) /\ m \in message_owned /\ Room(1) /\ MayUseFrame(f) /\ f \in frame_owned
      /\ frame_value' = [frame_value EXCEPT ![e] = "dropped"]
      /\ frame' = frame \cup {e}
      /\ frame_owned' = frame_owned \ {f}
      /\ frame_message' = [frame_message EXCEPT ![e] = m, ![f] = m]
      /\ zframe' = [zframe EXCEPT ![e] = "live"]
      /\ empty' = empty \cup {e}
      /\ fault' = FirstFault(UseList(m), AccessFrame(f))
      /\ UNCHANGED <<message_value, message_owned, zmsg, sendVars>>
  BY DEF Careful, MessageWrap
<1>2. /\ frames[m] = zframes[m] /\ zframes[m] \in Seq(Frames) /\ Distinct(zframes[m])
      /\ UseList(m) = "none" /\ f \notin ToSet(zframes[m])
  BY <1>1, UsableMessage DEF Members
<1>3. /\ frame_value[f] = "held" /\ f \in frame /\ zframe[f] = "live" /\ AccessFrame(f) = "none"
      /\ \A t \in Threads : sending_frame[t] # f
  BY <1>1, UsableFrame
<1>4. NextFrames(1) = {e} /\ e \in Frames /\ e \notin ToSet(zframes[m]) /\ frame_value[e] = "unused"
  BY <1>1, NewFrame, Fresh DEF Members
<1>5. Relists(m, s)
  <2>1. \A q \in Seq(Frames) : <<f, e>> \o q = <<f>> \o (<<e>> \o q)
    BY <1>4
  <2>2. zframes' = [zframes EXCEPT ![m] = <<f, e>> \o zframes[m]]
        /\ frames' = [frames EXCEPT ![m] = <<f, e>> \o zframes[m]]
    BY <1>2 DEF MessageWrap
  <2>q. QED
    BY <1>1, <1>2, <2>1, <2>2 DEF Relists
<1>6. fault' = "none"
  BY <1>1, <1>2, <1>3 DEF FirstFault
<1>. HIDE DEF e
<1>7. r \in Seq(Frames) /\ Distinct(r) /\ ToSet(r) = Members(m) \cup {e}
  BY <1>2, <1>4, ConsMembers DEF Members
<1>. HIDE DEF r
<1>8. s \in Seq(Frames) /\ Distinct(s) /\ ToSet(s) = Members(m) \cup {f} \cup NextFrames(1)
  <2>1. f \notin ToSet(r)
    BY <1>2, <1>3, <1>4, <1>7 DEF Members
  <2>q. QED
    BY <1>4, <1>7, <2>1, ConsMembers
<1>. HIDE DEF s
<1>9. Grows(m, s, {f})
  <2>1. /\ frame_value' = [g \in Frames |-> IF g \in NextFrames(1) THEN "dropped" ELSE frame_value[g]]
        /\ zframe' = [g \in Frames |-> IF g \in NextFrames(1) THEN "live" ELSE zframe[g]]
        /\ frame' = frame \cup NextFrames(1)
        /\ frame_message' = [g \in Frames |-> IF g \in {f} \cup NextFrames(1) THEN m ELSE frame_message[g]]
        /\ empty' \subseteq Frames
    BY <1>1, <1>4 DEF Safe, TypeOK
  <2>q. QED
    BY <1>1, <1>3, <1>5, <1>6, <1>8, <2>1 DEF Grows
<1>q. QED
  BY <1>9, GrowKeeps

\* ZMQ::Message.new, decode and dup, and recv_message: a message of k new frames.
LEMMA AllocMessageKeeps ==
  ASSUME Safe, NEW k \in Nat, NEW empties \in SUBSET Frames, AllocMessage(k, empties),
         fault' = "none", UNCHANGED sendVars
  PROVE  Safe'
<1>0. PICK m \in Messages : m = MadeMessages + 1
  BY DEF AllocMessage
<1>. DEFINE new == NextFrames(k)
            s == [i \in 1..k |-> MadeFrames + i]
<1>1. /\ m \in Messages /\ Room(k) /\ m # Nil
      /\ frame_value' = [f \in Frames |-> IF f \in new THEN "dropped" ELSE frame_value[f]]
      /\ frame' = frame \cup new /\ frame_owned' = frame_owned
      /\ frame_message' = [f \in Frames |-> IF f \in new THEN m ELSE frame_message[f]]
      /\ zframe' = [f \in Frames |-> IF f \in new THEN "live" ELSE zframe[f]]
      /\ empty' = empty \cup empties
      /\ message_value' = [message_value EXCEPT ![m] = "held"]
      /\ message_owned' = message_owned \cup {m}
      /\ zmsg' = [zmsg EXCEPT ![m] = "live"]
      /\ zframes' = [zframes EXCEPT ![m] = s] /\ frames' = [frames EXCEPT ![m] = s]
  <2>1. m # Nil
    BY ConstantsAssumption DEF Messages
  <2>q. QED
    BY <1>0, <2>1 DEF AllocMessage, AllocFrames, Safe, TypeOK
<1>2. /\ MadeFrames \in Nat /\ new \subseteq Frames /\ MadeFrames + k \in 0..MaxFrames
      /\ \A f \in new :
              /\ frame_value[f] = "unused" /\ f \notin frame /\ f \notin frame_owned /\ zframe[f] = "none"
              /\ \A n \in Messages : f \notin Members(n) /\ (n \in message_owned => f \notin Wrappers(n))
              /\ \A t \in Threads : sending_frame[t] # f
      /\ \A f \in Frames : frame_value[f] # "unused" \/ f \in new <=> f <= MadeFrames + k
  BY <1>1, Fresh
<1>3. s \in Seq(Frames) /\ Distinct(s) /\ ToSet(s) = new
  <2>1. s \in Seq(new) /\ Distinct(s) /\ ToSet(s) = new
    BY <1>2, NewList DEF NextFrames
  <2>. HIDE DEF s, new
  <2>q. QED
    BY <1>2, <2>1
<1>4. MadeMessages \in 0..MaxMessages /\ InOrder(MadeMessages, message_value, Messages)
      /\ m \in 0..MaxMessages
  BY <1>1, Counted, ConstantsAssumption DEF Messages
<1>5. message_value[m] = "unused" /\ InOrder(m, message_value', Messages)
  BY <1>0, <1>1, <1>4 DEF InOrder, Messages, Safe, TypeOK
<1>. HIDE DEF new, s
<1>6. /\ m \notin message_owned /\ \A f \in Frames : frame_message[f] # m
      /\ \A t \in Threads : sending[t] # m
  <2>1. MessageOK(m)
    BY <1>1 DEF Safe
  <2>2. m \notin message_owned
    BY <1>5, <2>1 DEF MessageOK
  <2>q. QED
    BY <1>1, <1>5, <2>1, <2>2 DEF MessageOK, Safe, SendOK
<1>7. /\ Members(m)' = new /\ Wrappers(m)' = new /\ zframes'[m] = s /\ frames'[m] = s
      /\ \A n \in Messages \ {m} :
           /\ Members(n)' = Members(n) /\ Wrappers(n)' = Wrappers(n)
           /\ zframes'[n] = zframes[n] /\ frames'[n] = frames[n]
           /\ MessageReachable(n)' = MessageReachable(n)
      /\ sending' = sending /\ sending_frame' = sending_frame /\ sent' = sent
  <2>1. /\ zframes \in [Messages -> Seq(Frames)] /\ frames \in [Messages -> Seq(Frames)]
        /\ message_value \in [Messages -> ValueStates]
    BY DEF Safe, TypeOK
  <2>2. zframes'[m] = s /\ frames'[m] = s
    BY <1>1, <2>1
  <2>3. ASSUME NEW n \in Messages \ {m}
        PROVE  zframes'[n] = zframes[n] /\ frames'[n] = frames[n] /\ message_value'[n] = message_value[n]
    BY <1>1, <2>1
  <2>4. sending' = sending /\ sending_frame' = sending_frame /\ sent' = sent
    BY DEF sendVars
  <2>5. ASSUME NEW n \in Messages \ {m}
        PROVE  /\ Members(n)' = Members(n) /\ Wrappers(n)' = Wrappers(n)
               /\ MessageReachable(n)' = MessageReachable(n)
    BY <2>3, <2>4 DEF Members, Wrappers, MessageReachable
  <2>6. Members(m)' = new /\ Wrappers(m)' = new
    BY <1>3, <2>2 DEF Members, Wrappers
  <2>q. QED
    BY <2>2, <2>3, <2>4, <2>5, <2>6
<1>8. TypeOK'
  BY <1>1, <1>2, <1>3, <1>7 DEF Safe, TypeOK, ValueStates, Faults
<1>9. Numbered'
  <2>1. InOrder(MadeFrames + k, frame_value', Frames)
    BY <1>1, <1>2 DEF InOrder
  <2>q. QED
    BY <1>2, <1>4, <1>5, <2>1 DEF Numbered
<1>10. Members(m) = {}
  <2>1. MessageOK(m) /\ zmsg[m] # "live"
    BY <1>1, <1>6 DEF Safe, MessageOK
  <2>2. zframes[m] = <<>>
    BY <2>1 DEF MessageOK
  <2>q. QED
    BY <2>2 DEF Members, ToSet
<1>11. ASSUME NEW g \in Frames PROVE FrameOK(g)'
  <2>1. FrameOK(g) /\ sent \subseteq Threads /\ message_owned \subseteq Messages /\ Nil \notin Messages
        /\ frame_message[g] \in Messages \cup {Nil} /\ frame_message[g] # m
    BY <1>6, ConstantsAssumption DEF Safe, TypeOK, Messages
  <2>2. FrameSent(g)' = FrameSent(g)
    BY <1>7 DEF FrameSent
  <2>3. CASE g \in new
    <3>1. /\ g \in Members(m)' /\ g \in Wrappers(m)' /\ g \notin frame_owned' /\ frame_message'[g] = m
          /\ frame_value'[g] = "dropped" /\ zframe'[g] = "live"
      BY <1>1, <1>2, <1>7, <2>3
    <3>q. QED
      BY <1>1, <3>1 DEF FrameOK
  <2>4. CASE g \notin new
    <3>1. \A n \in Messages : g \in Members(n) => g \in Members(n)'
      BY <1>7, <1>10
    <3>2. \A n \in Messages \ {m} :
            /\ message_value'[n] = message_value[n] /\ Wrappers(n)' = Wrappers(n)
            /\ n \in message_owned' <=> n \in message_owned
      <4>1. message_value \in [Messages -> ValueStates]
        BY DEF Safe, TypeOK
      <4>q. QED
        BY <1>1, <1>7, <4>1
    <3>3. /\ frame_value'[g] = frame_value[g] /\ frame_message'[g] = frame_message[g]
          /\ zframe'[g] = zframe[g] /\ (g \in frame' <=> g \in frame) /\ frame_owned' = frame_owned
      BY <1>1, <2>4
    <3>4. \A n : n \in message_owned' => n \in Messages
      BY <1>1, <2>1
    <3>q. QED
      BY <2>1, <2>2, <3>1, <3>2, <3>3, <3>4 DEF FrameOK
  <2>q. QED
    BY <2>3, <2>4
<1>12. ASSUME NEW n \in Messages PROVE MessageOK(n)'
  <2>1. MessageOK(n)
    BY DEF Safe
  <2>2. Members(n) \subseteq Frames /\ Wrappers(n) \subseteq Frames
    BY DEF Safe, TypeOK, Members, Wrappers, ToSet
  <2>3. \A f \in Frames : f \notin new =>
          /\ frame_value'[f] = frame_value[f] /\ frame_message'[f] = frame_message[f]
          /\ zframe'[f] = zframe[f] /\ (f \in frame' <=> f \in frame)
    BY <1>1
  <2>4. CASE n = m
    <3>1. message_value'[m] = "held" /\ zmsg'[m] = "live" /\ m \in message_owned'
      BY <1>1 DEF Safe, TypeOK
    <3>2. \A f \in new : /\ frame_message'[f] = m /\ f \notin frame_owned' /\ f \in frame'
                         /\ frame_value'[f] = "dropped" /\ zframe'[f] = "live"
      BY <1>1, <1>2
    <3>3. Members(m)' = new /\ Wrappers(m)' = new /\ zframes'[m] = s /\ frames'[m] = s /\ Distinct(s)
      BY <1>3, <1>7
    <3>4. m \in message_owned' =>
            /\ message_value'[m] \in {"held", "dropped"} /\ zmsg'[m] = "live"
            /\ \A f \in new : /\ frame_message'[f] = m /\ f \notin frame_owned' /\ frame_value'[f] # "unused"
                               /\ f \in frame' /\ frame_value'[f] # "freed"
      BY <3>1, <3>2
    <3>q. QED
      BY <2>4, <3>1, <3>2, <3>3, <3>4 DEF MessageOK
  <2>5. CASE n # m
    <3>1. /\ message_value'[n] = message_value[n] /\ zmsg'[n] = zmsg[n]
          /\ n \in message_owned' <=> n \in message_owned
      BY <1>1, <2>5 DEF Safe, TypeOK
    <3>2. \A f \in Members(n) : f \notin new
      BY <1>2
    <3>3. n \in message_owned => \A f \in Wrappers(n) : f \notin new
      BY <1>2
    <3>4. \A f \in Frames : frame_message[f] # n => frame_message'[f] # n
      BY <1>1, <2>5
    <3>5. /\ zframes'[n] = zframes[n] /\ frames'[n] = frames[n]
          /\ Members(n)' = Members(n) /\ Wrappers(n)' = Wrappers(n)
          /\ MessageReachable(n)' = MessageReachable(n)
          /\ UNCHANGED <<frame_owned, sending, sent>>
      BY <1>1, <1>7, <2>5
    <3>q. QED
      BY <2>1, <2>2, <2>3, <3>1, <3>2, <3>3, <3>4, <3>5 DEF MessageOK
  <2>q. QED
    BY <2>4, <2>5
<1>13. ASSUME NEW t \in Threads PROVE SendOK(t)'
  <2>1. SendOK(t) /\ sending_frame[t] \in Frames \cup {Nil} /\ sending[t] \in Messages \cup {Nil}
        /\ sending[t] # m
    BY <1>6 DEF Safe, TypeOK
  <2>2. sending_frame[t] # Nil => sending_frame[t] \notin new
    BY <1>2
  <2>3. sending[t] # Nil => zmsg'[sending[t]] = zmsg[sending[t]] /\ sending[t] \in Messages
    BY <1>1, <2>1 DEF Safe, TypeOK
  <2>q. QED
    BY <1>1, <1>7, <2>1, <2>2, <2>3 DEF SendOK
<1>q. QED
  BY <1>8, <1>9, <1>11, <1>12, <1>13 DEF Safe, NoBadAccess

LEMMA MessageNewKeeps ==
  ASSUME Safe, MessageNew
  PROVE  Safe'
<1>1. PICK k \in 0..MaxLength : \E empties \in SUBSET NextFrames(k) : AllocMessage(k, empties)
  BY DEF MessageNew
<1>2. PICK empties \in SUBSET NextFrames(k) : AllocMessage(k, empties)
  BY <1>1
<1>3. k \in Nat /\ Room(k)
  BY <1>2, ConstantsAssumption DEF AllocMessage
<1>4. empties \in SUBSET Frames
  BY <1>3, Fresh
<1>5. fault' = "none" /\ UNCHANGED sendVars
  BY DEF MessageNew, Safe, NoBadAccess
<1>q. QED
  BY <1>2, <1>3, <1>4, <1>5, AllocMessageKeeps

LEMMA MessageDupKeeps ==
  ASSUME Careful, Safe, NEW m \in Messages, MessageDup(m)
  PROVE  Safe'
<1>. DEFINE k == Len(zframes[m])
            empties == {MadeFrames + i : i \in {j \in DOMAIN zframes[m] : zframes[m][j] \in empty}}
<1>1. MayUse(m) /\ m \in message_owned /\ AllocMessage(k, empties)
      /\ fault' = UseMessage(m) /\ UNCHANGED sendVars
  BY DEF MessageDup
<1>2. zframes[m] \in Seq(Frames) /\ fault' = "none"
  BY <1>1, UsableMessage DEF UseMessage, Members
<1>3. k \in Nat /\ Room(k) /\ DOMAIN zframes[m] = 1..k
  BY <1>1, <1>2 DEF AllocMessage
<1>4. empties \in SUBSET Frames
  <2>. HIDE DEF k
  <2>1. MadeFrames \in Nat /\ NextFrames(k) \subseteq Frames
    BY <1>3, Fresh
  <2>2. \A i \in 1..k : MadeFrames + i \in NextFrames(k)
    BY <1>3, <2>1 DEF NextFrames
  <2>q. QED
    BY <1>3, <2>1, <2>2
<1>. HIDE DEF k, empties
<1>q. QED
  BY <1>1, <1>2, <1>3, <1>4, AllocMessageKeeps

-----------------------------------------------------------------------------
(* Messages end                                                            *)

\* No frame is in two messages.
LEMMA Apart ==
  ASSUME Safe, NEW m \in Messages, NEW n \in Messages, n # m, zmsg[m] = "live"
  PROVE  Members(n) \cap Members(m) = {}
<1>1. \A k \in Messages : zmsg[k] = "live" =>
        k \in message_owned /\ \A f \in Members(k) : frame_message[f] = k
  BY DEF Safe, MessageOK, Members, Wrappers
<1>2. zmsg[n] # "live" => Members(n) = {}
  <2>1. zmsg[n] # "live" => zframes[n] = <<>>
    BY DEF Safe, MessageOK
  <2>q. QED
    BY <2>1 DEF Members, ToSet
<1>q. QED
  BY <1>1, <1>2

\* A frame in a message is not the wrapper's.
LEMMA NotOwned ==
  ASSUME Safe, NEW m \in Messages, NEW f \in Members(m)
  PROVE  f \in Frames /\ f \notin frame_owned /\ zframe[f] = "live" /\ zmsg[m] = "live"
<1>1. f \in Frames /\ zframe[f] = "live"
  BY DEF Safe, TypeOK, MessageOK, Members, ToSet
<1>2. zmsg[m] = "live"
  <2>1. zmsg[m] # "live" => zframes[m] = <<>>
    BY DEF Safe, MessageOK
  <2>q. QED
    BY <2>1 DEF Members, ToSet
<1>q. QED
  BY <1>1, <1>2 DEF Safe, MessageOK, Members, Wrappers

\* The zmsg of m is destroyed, with its frames.
Emptied(m) ==
  /\ zframe' = [f \in Frames |-> IF f \in Members(m) THEN "freed" ELSE zframe[f]]
  /\ zmsg' = [zmsg EXCEPT ![m] = "freed"] /\ zframes' = [zframes EXCEPT ![m] = <<>>]

LEMMA AfterEmptied ==
  ASSUME Safe, NEW m \in Messages, Emptied(m), zmsg[m] = "live"
  PROVE  /\ zframe' \in [Frames -> {"none", "live", "freed"}]
         /\ zmsg' \in [Messages -> {"none", "live", "freed"}]
         /\ zframes' \in [Messages -> Seq(Frames)]
         /\ zmsg'[m] = "freed" /\ zframes'[m] = <<>> /\ Members(m)' = {}
         /\ \A n \in Messages \ {m} :
              /\ zmsg'[n] = zmsg[n] /\ zframes'[n] = zframes[n] /\ Members(n)' = Members(n)
              /\ \A f \in Members(n) : zframe'[f] = zframe[f]
         /\ \A f \in Frames : f \notin Members(m) => zframe'[f] = zframe[f]
         /\ \A f \in frame_owned : zframe'[f] = zframe[f]
         /\ \A f \in Frames : zframe'[f] = "live" =>
              zframe[f] = "live" /\ f \notin Members(m)
<1>0. /\ zframe \in [Frames -> {"none", "live", "freed"}] /\ frame_owned \subseteq Frames
      /\ zmsg \in [Messages -> {"none", "live", "freed"}]
      /\ zframes \in [Messages -> Seq(Frames)]
  BY DEF Safe, TypeOK
<1>1. zmsg'[m] = "freed" /\ zframes'[m] = <<>> /\ Members(m)' = {}
  BY <1>0 DEF Emptied, Members, ToSet
<1>2. ASSUME NEW n \in Messages \ {m}
      PROVE  /\ zmsg'[n] = zmsg[n] /\ zframes'[n] = zframes[n] /\ Members(n)' = Members(n)
             /\ \A f \in Members(n) : zframe'[f] = zframe[f]
  <2>1. zmsg'[n] = zmsg[n] /\ zframes'[n] = zframes[n]
    BY <1>0 DEF Emptied
  <2>2. Members(n)' = Members(n)
    BY <2>1 DEF Members
  <2>3. \A f \in Members(n) : f \in Frames /\ f \notin Members(m)
    BY Apart, NotOwned
  <2>q. QED
    BY <2>1, <2>2, <2>3 DEF Emptied
<1>3. \A f \in frame_owned : f \in Frames /\ f \notin Members(m)
  BY <1>0, NotOwned
<1>4. /\ zframe' \in [Frames -> {"none", "live", "freed"}]
      /\ zmsg' \in [Messages -> {"none", "live", "freed"}]
      /\ zframes' \in [Messages -> Seq(Frames)]
  BY <1>0 DEF Emptied
<1>q. QED
  BY <1>0, <1>1, <1>2, <1>3, <1>4 DEF Emptied

LEMMA FreeMessageKeeps ==
  ASSUME Safe, NEW m \in Messages, FreeMessage(m), m \in message_owned => zmsg[m] = "live",
         \A t \in Threads : sending[t] # m, message_value[m] # "unused",
         \/ message_value' = message_value
         \/ /\ message_value' = [message_value EXCEPT ![m] = "freed"]
            /\ \A f \in Frames : frame_value[f] = "held" => frame_message[f] # m,
         UNCHANGED <<frame_value, frame, frame_owned, frame_message, empty, sendVars>>
  PROVE  Safe'
<1>1. /\ message_owned' = message_owned \ {m} /\ frames' = [frames EXCEPT ![m] = <<>>]
      /\ message_owned \subseteq Messages /\ frames \in [Messages -> Seq(Frames)]
      /\ message_value' \in [Messages -> ValueStates]
      /\ \A n \in Messages \ {m} : message_value'[n] = message_value[n]
      /\ message_value'[m] # "unused"
      /\ \A f \in Frames : frame_value[f] = "held" => frame_message[f] # m \/ message_value'[m] = message_value[m]
      /\ sending' = sending /\ sending_frame' = sending_frame /\ sent' = sent
  BY DEF FreeMessage, Safe, TypeOK, ValueStates, sendVars
<1>2. /\ zframe' \in [Frames -> {"none", "live", "freed"}]
      /\ zmsg' \in [Messages -> {"none", "live", "freed"}]
      /\ zframes' \in [Messages -> Seq(Frames)]
      /\ zmsg'[m] # "live" /\ zframes'[m] = <<>> /\ Members(m)' = {}
      /\ \A n \in Messages \ {m} :
           /\ zmsg'[n] = zmsg[n] /\ zframes'[n] = zframes[n] /\ Members(n)' = Members(n)
           /\ \A f \in Members(n) : zframe'[f] = zframe[f]
      /\ \A f \in frame_owned : zframe'[f] = zframe[f]
      /\ \A f \in Frames : zframe'[f] = "live" => zframe[f] = "live" /\ f \notin Members(m)
      /\ \A f \in Frames : frame_value[f] = "unused" => zframe'[f] = zframe[f]
      /\ fault' = "none"
  <2>1. CASE m \in message_owned
    <3>1. Emptied(m) /\ fault' = UseMessage(m) /\ zmsg[m] = "live"
      BY <2>1 DEF FreeMessage, Emptied, FreeZframes, Members
    <3>2. \A f \in Members(m) : zframe[f] = "live" /\ f \in Frames
      BY NotOwned
    <3>3. fault' = "none"
      BY <3>1, <3>2 DEF UseMessage, UseMembers, Members
    <3>4. \A f \in Frames : frame_value[f] = "unused" => f \notin Members(m)
      BY <3>2 DEF Safe, FrameOK
    <3>q. QED
      BY <3>1, <3>3, <3>4, AfterEmptied
  <2>2. CASE m \notin message_owned
    <3>1. zmsg[m] # "live" /\ zframes[m] = <<>>
      BY <2>2 DEF Safe, MessageOK
    <3>2. Members(m) = {}
      BY <3>1 DEF Members, ToSet
    <3>q. QED
      BY <2>2, <3>1, <3>2 DEF FreeMessage, Safe, TypeOK, NoBadAccess, Members
  <2>q. QED
    BY <2>1, <2>2
<1>3. /\ frames'[m] = <<>> /\ \A n \in Messages \ {m} : frames'[n] = frames[n] /\ Wrappers(n)' = Wrappers(n)
      /\ \A n \in Messages \ {m} : MessageReachable(n)' = MessageReachable(n)
  BY <1>1 DEF Wrappers, MessageReachable
<1>4. TypeOK'
  <2>1. frames' \in [Messages -> Seq(Frames)] /\ message_owned' \subseteq Messages
    BY <1>1
  <2>2. fault' \in Faults
    BY <1>2 DEF Faults
  <2>q. QED
    BY <1>1, <1>2, <2>1, <2>2 DEF Safe, TypeOK
<1>5. Numbered'
  <2>1. \A n \in Messages : message_value'[n] # "unused" <=> message_value[n] # "unused"
    BY <1>1
  <2>q. QED
    BY <2>1 DEF Safe, Numbered, InOrder
<1>6. ASSUME NEW g \in Frames PROVE FrameOK(g)'
  <2>1. FrameOK(g) /\ sent \subseteq Threads /\ Nil \notin Messages
        /\ frame_message[g] \in Messages \cup {Nil}
    BY ConstantsAssumption DEF Safe, TypeOK, Messages
  <2>2. FrameSent(g)' = FrameSent(g)
    BY <1>1 DEF FrameSent
  <2>3. zframe'[g] = "live" => g \in frame_owned \/ \E n \in Messages : g \in Members(n)'
    BY <1>2, <2>1 DEF FrameOK
  <2>4. frame_value[g] = "held" =>
          /\ frame_message[g] # Nil => message_value'[frame_message[g]] = "held"
          /\ frame_message[g] \in message_owned' =>
               /\ frame_message[g] \in Messages \ {m}
               /\ g \in Wrappers(frame_message[g])
    BY <1>1, <2>1 DEF FrameOK
  <2>5. \A n \in Messages \ {m} : Wrappers(n)' = Wrappers(n)
    BY <1>3
  <2>q. QED
    BY <1>2, <2>1, <2>2, <2>3, <2>4, <2>5 DEF FrameOK
<1>7. ASSUME NEW n \in Messages PROVE MessageOK(n)'
  <2>1. MessageOK(n)
    BY DEF Safe
  <2>2. CASE n = m
    <3>1. Distinct(<<>>)
      BY DEF Distinct
    <3>q. QED
      BY <1>1, <1>2, <2>2, <3>1 DEF MessageOK
  <2>3. CASE n # m
    <3>1. n \in message_owned' <=> n \in message_owned
      BY <1>1, <2>3
    <3>2. /\ zframes'[n] = zframes[n] /\ frames'[n] = frames[n] /\ zmsg'[n] = zmsg[n]
          /\ Members(n)' = Members(n) /\ Wrappers(n)' = Wrappers(n)
          /\ MessageReachable(n)' = MessageReachable(n) /\ message_value'[n] = message_value[n]
          /\ \A f \in Members(n) : zframe'[f] = zframe[f]
      BY <1>1, <1>2, <1>3, <2>3
    <3>q. QED
      BY <1>1, <2>1, <3>1, <3>2 DEF MessageOK
  <2>q. QED
    BY <2>2, <2>3
<1>8. ASSUME NEW t \in Threads PROVE SendOK(t)'
  <2>1. SendOK(t) /\ sending[t] # m /\ sending[t] \in Messages \cup {Nil}
    BY DEF Safe, TypeOK
  <2>q. QED
    BY <1>1, <1>2, <2>1 DEF SendOK
<1>q. QED
  BY <1>2, <1>4, <1>5, <1>6, <1>7, <1>8 DEF Safe, NoBadAccess

LEMMA MessageDestroyKeeps ==
  ASSUME Careful, Safe, NEW m \in Messages, MessageDestroy(m)
  PROVE  Safe'
<1>1. /\ MayUse(m) /\ m \in message_owned /\ FreeMessage(m) /\ message_value' = message_value
      /\ UNCHANGED <<frame_value, frame, frame_owned, frame_message, empty, sendVars>>
  BY DEF MessageDestroy
<1>2. zmsg[m] = "live" /\ message_value[m] = "held" /\ \A t \in Threads : sending[t] # m
  BY <1>1, UsableMessage
<1>q. QED
  BY <1>1, <1>2, FreeMessageKeeps

LEMMA FreeMessageGcKeeps ==
  ASSUME Safe, NEW m \in Messages, FreeMessageGc(m)
  PROVE  Safe'
<1>1. /\ FreeMessage(m) /\ message_value' = [message_value EXCEPT ![m] = "freed"]
      /\ message_value[m] = "dropped" /\ \A t \in Threads : sending[t] # m
      /\ UNCHANGED <<frame_value, frame, frame_owned, frame_message, empty, sendVars>>
  BY DEF FreeMessageGc, MessageReachable
<1>2. m \in message_owned => zmsg[m] = "live"
  BY <1>1 DEF Safe, TypeOK, MessageOK
<1>3. \A f \in Frames : frame_value[f] = "held" => frame_message[f] # m
  BY <1>1, ConstantsAssumption DEF Safe, FrameOK, Messages
<1>q. QED
  BY <1>1, <1>2, <1>3, FreeMessageKeeps

-----------------------------------------------------------------------------
(* A frame or a message is sent                                            *)

LEMMA SendFrameKeeps ==
  ASSUME Careful, Safe, NEW t \in Threads, NEW f \in Frames, SendFrame(t, f)
  PROVE  Safe'
<1>1. /\ MayUseFrame(f) /\ f \in frame_owned /\ NotSending(t) /\ f # Nil
      /\ sending_frame' = [sending_frame EXCEPT ![t] = f]
      /\ UNCHANGED <<frameVars, messageVars, sending, sent, fault>>
  BY ConstantsAssumption DEF SendFrame, Frames
<1>2. zframe[f] = "live" /\ \A u \in Threads : sending_frame[u] # f
  BY <1>1, UsableFrame
<1>3. t \notin sent /\ sending[t] = Nil
  BY <1>1 DEF Safe, SendOK, NotSending
<1>4. /\ sending_frame'[t] = f /\ \A u \in Threads \ {t} : sending_frame'[u] = sending_frame[u]
      /\ sending_frame' \in [Threads -> Frames \cup {Nil}]
  BY <1>1 DEF Safe, TypeOK
<1>5. TypeOK'
  BY <1>1, <1>4 DEF Safe, TypeOK, frameVars, messageVars
<1>6. Numbered'
  BY <1>1 DEF Safe, Numbered, InOrder, frameVars, messageVars
<1>7. ASSUME NEW g \in Frames PROVE FrameOK(g)'
  <2>1. FrameSent(g)' = FrameSent(g)
    BY <1>1, <1>3, <1>4 DEF FrameSent, Safe, TypeOK
  <2>q. QED
    BY <1>1, <2>1 DEF Safe, FrameOK, Members, Wrappers, frameVars, messageVars
<1>8. ASSUME NEW n \in Messages PROVE MessageOK(n)'
  BY <1>1 DEF Safe, MessageOK, MessageReachable, Members, Wrappers, frameVars, messageVars
<1>9. ASSUME NEW u \in Threads PROVE SendOK(u)'
  BY <1>1, <1>2, <1>3, <1>4 DEF Safe, SendOK, frameVars, messageVars
<1>q. QED
  BY <1>1, <1>5, <1>6, <1>7, <1>8, <1>9 DEF Safe, NoBadAccess

LEMMA NogvlSendFrameKeeps ==
  ASSUME Safe, NEW t \in Threads, NogvlSendFrame(t)
  PROVE  Safe'
<1>0. PICK f \in Frames : f = sending_frame[t]
  BY DEF NogvlSendFrame, Safe, TypeOK
<1>1. /\ t \notin sent /\ fault' = UseFrame(f) /\ f # Nil /\ sending[t] = Nil
      /\ UNCHANGED <<frame_value, frame, frame_owned, frame_message, empty, messageVars, sending>>
  BY <1>0, ConstantsAssumption DEF NogvlSendFrame, Frames, Safe, SendOK
<1>2. /\ f \in frame_owned /\ zframe[f] = "live" /\ f \in frame
      /\ \A u \in Threads : sending_frame[u] = f => u = t
      /\ fault' = "none"
  BY <1>0, <1>1 DEF Safe, SendOK, FrameOK, UseFrame
<1>3. \A m \in Messages : f \notin Members(m)
  BY <1>2, NotOwned
<1>4. CASE FreeZframes({f}) /\ sent' = sent \cup {t} /\ UNCHANGED sending_frame
  <2>1. /\ zframe' \in [Frames -> {"none", "live", "freed"}] /\ zframe'[f] = "freed"
        /\ \A g \in Frames \ {f} : zframe'[g] = zframe[g]
    BY <1>4 DEF FreeZframes, Safe, TypeOK
  <2>2. TypeOK'
    BY <1>1, <1>2, <1>4, <2>1 DEF Safe, TypeOK, Faults, messageVars
  <2>3. Numbered'
    BY <1>1 DEF Safe, Numbered, InOrder, messageVars
  <2>4. ASSUME NEW g \in Frames PROVE FrameOK(g)'
    <3>1. FrameSent(g) => FrameSent(g)'
      BY <1>4 DEF FrameSent
    <3>2. FrameSent(f)'
      BY <1>0, <1>4 DEF FrameSent
    <3>3. FrameOK(g)
      BY DEF Safe
    <3>4. CASE g = f
      BY <1>1, <1>2, <2>1, <3>2, <3>3, <3>4 DEF FrameOK, Members, Wrappers, messageVars
    <3>5. CASE g # f
      BY <1>1, <2>1, <3>1, <3>3, <3>5 DEF FrameOK, Members, Wrappers, messageVars
    <3>q. QED
      BY <3>4, <3>5
  <2>5. ASSUME NEW n \in Messages PROVE MessageOK(n)'
    <3>1. MessageOK(n) /\ Members(n) \subseteq Frames
      BY DEF Safe, TypeOK, Members, ToSet
    <3>2. \A g \in Members(n) : zframe'[g] = zframe[g]
      BY <1>3, <2>1, <3>1
    <3>q. QED
      BY <1>1, <1>4, <3>1, <3>2 DEF MessageOK, MessageReachable, Members, Wrappers, messageVars
  <2>6. ASSUME NEW u \in Threads PROVE SendOK(u)'
    <3>1. SendOK(u) /\ sending_frame[u] \in Frames \cup {Nil}
      BY DEF Safe, TypeOK
    <3>2. CASE u = t
      BY <1>0, <1>1, <1>2, <1>4, <2>1, <3>1, <3>2 DEF SendOK, messageVars
    <3>3. CASE u # t
      BY <1>0, <1>1, <1>2, <1>4, <2>1, <3>1, <3>3 DEF SendOK, messageVars
    <3>q. QED
      BY <3>2, <3>3
  <2>q. QED
    BY <1>2, <2>2, <2>3, <2>4, <2>5, <2>6 DEF Safe, NoBadAccess
<1>5. CASE sending_frame' = [sending_frame EXCEPT ![t] = Nil] /\ UNCHANGED <<zframe, sent>>
  <2>1. /\ sending_frame'[t] = Nil /\ \A u \in Threads \ {t} : sending_frame'[u] = sending_frame[u]
        /\ sending_frame' \in [Threads -> Frames \cup {Nil}]
    BY <1>5 DEF Safe, TypeOK
  <2>2. TypeOK'
    BY <1>1, <1>2, <1>5, <2>1 DEF Safe, TypeOK, Faults, messageVars
  <2>3. Numbered'
    BY <1>1 DEF Safe, Numbered, InOrder, messageVars
  <2>4. ASSUME NEW g \in Frames PROVE FrameOK(g)'
    <3>1. FrameSent(g)' = FrameSent(g)
      BY <1>1, <1>5, <2>1 DEF FrameSent, Safe, TypeOK
    <3>q. QED
      BY <1>1, <1>5, <3>1 DEF Safe, FrameOK, Members, Wrappers, messageVars
  <2>5. ASSUME NEW n \in Messages PROVE MessageOK(n)'
    BY <1>1, <1>5 DEF Safe, MessageOK, MessageReachable, Members, Wrappers, messageVars
  <2>6. ASSUME NEW u \in Threads PROVE SendOK(u)'
    BY <1>1, <1>5, <2>1 DEF Safe, SendOK, messageVars
  <2>q. QED
    BY <1>2, <2>2, <2>3, <2>4, <2>5, <2>6 DEF Safe, NoBadAccess
<1>q. QED
  BY <1>0, <1>4, <1>5 DEF NogvlSendFrame

LEMMA SentFrameKeeps ==
  ASSUME Careful, Safe, NEW t \in Threads, SentFrame(t)
  PROVE  Safe'
<1>0. PICK f \in Frames : f = sending_frame[t]
  BY DEF SentFrame, Safe, TypeOK
<1>1. /\ t \in sent /\ f # Nil /\ sending[t] = Nil
      /\ frame_owned' = frame_owned \ {f} /\ sent' = sent \ {t}
      /\ sending_frame' = [sending_frame EXCEPT ![t] = Nil]
      /\ UNCHANGED <<frame_value, frame, frame_message, zframe, empty, messageVars, sending, fault>>
  BY <1>0, ConstantsAssumption DEF SentFrame, Frames, Safe, SendOK, Disowned, Careful
<1>2. /\ f \in frame_owned /\ zframe[f] # "live"
      /\ \A u \in Threads : sending_frame[u] = f => u = t
  BY <1>0, <1>1 DEF Safe, SendOK
<1>3. /\ sending_frame'[t] = Nil /\ \A u \in Threads \ {t} : sending_frame'[u] = sending_frame[u]
      /\ sending_frame' \in [Threads -> Frames \cup {Nil}]
  BY <1>1 DEF Safe, TypeOK
<1>4. TypeOK'
  BY <1>1, <1>3 DEF Safe, TypeOK, messageVars
<1>5. Numbered'
  BY <1>1 DEF Safe, Numbered, InOrder, messageVars
<1>6. ASSUME NEW g \in Frames PROVE FrameOK(g)'
  <2>1. FrameOK(g) /\ sent \subseteq Threads
    BY DEF Safe, TypeOK
  <2>2. CASE g = f
    BY <1>1, <1>2, <2>1, <2>2, ConstantsAssumption DEF FrameOK, Members, Wrappers, messageVars, Safe, TypeOK, Messages
  <2>3. CASE g # f
    <3>1. FrameSent(g)' = FrameSent(g)
      BY <1>0, <1>1, <1>3, <2>1, <2>3 DEF FrameSent
    <3>q. QED
      BY <1>1, <2>1, <2>3, <3>1 DEF FrameOK, Members, Wrappers, messageVars
  <2>q. QED
    BY <2>2, <2>3
<1>7. ASSUME NEW n \in Messages PROVE MessageOK(n)'
  <2>1. MessageOK(n) /\ n # Nil /\ sent \subseteq Threads
    BY ConstantsAssumption DEF Safe, TypeOK, Messages
  <2>2. \A u \in sent : sending[u] = n => u \in sent'
    BY <1>1, <2>1
  <2>q. QED
    BY <1>1, <2>1, <2>2 DEF MessageOK, MessageReachable, Members, Wrappers, messageVars
<1>8. ASSUME NEW u \in Threads PROVE SendOK(u)'
  <2>1. SendOK(u)
    BY DEF Safe
  <2>2. CASE u = t
    BY <1>1, <1>3, <2>1, <2>2 DEF SendOK, messageVars
  <2>3. CASE u # t
    BY <1>0, <1>1, <1>2, <1>3, <2>1, <2>3 DEF SendOK, messageVars
  <2>q. QED
    BY <2>2, <2>3
<1>q. QED
  BY <1>1, <1>4, <1>5, <1>6, <1>7, <1>8 DEF Safe, NoBadAccess

LEMMA SendMessageKeeps ==
  ASSUME Careful, Safe, NEW t \in Threads, NEW m \in Messages, SendMessage(t, m)
  PROVE  Safe'
<1>1. /\ MayUse(m) /\ m \in message_owned /\ NotSending(t) /\ m # Nil
      /\ sending' = [sending EXCEPT ![t] = m]
      /\ UNCHANGED <<frameVars, messageVars, sending_frame, sent, fault>>
  BY ConstantsAssumption DEF SendMessage, Messages
<1>2. zmsg[m] = "live" /\ message_value[m] = "held" /\ \A u \in Threads : sending[u] # m
  BY <1>1, UsableMessage
<1>3. t \notin sent /\ sending_frame[t] = Nil
  BY <1>1 DEF Safe, SendOK, NotSending
<1>4. /\ sending'[t] = m /\ \A u \in Threads \ {t} : sending'[u] = sending[u]
      /\ sending' \in [Threads -> Messages \cup {Nil}] /\ sent \subseteq Threads
  BY <1>1 DEF Safe, TypeOK
<1>5. TypeOK'
  BY <1>1, <1>4 DEF Safe, TypeOK, frameVars, messageVars
<1>6. Numbered'
  BY <1>1 DEF Safe, Numbered, InOrder, frameVars, messageVars
<1>7. ASSUME NEW g \in Frames PROVE FrameOK(g)'
  BY <1>1 DEF Safe, FrameOK, FrameSent, Members, Wrappers, frameVars, messageVars
<1>8. ASSUME NEW n \in Messages PROVE MessageOK(n)'
  <2>1. MessageOK(n) /\ (MessageReachable(n)' <=> MessageReachable(n))
    <3>1. MessageOK(n) /\ n # Nil /\ sending[t] = Nil /\ message_value' = message_value
      BY <1>1, ConstantsAssumption DEF Safe, Messages, NotSending, messageVars
    <3>2. CASE n = m
      BY <1>2, <3>1, <3>2 DEF MessageReachable
    <3>3. CASE n # m
      <4>1. \A u \in Threads : sending'[u] = n <=> sending[u] = n
        BY <1>4, <3>1, <3>3
      <4>q. QED
        BY <3>1, <4>1 DEF MessageReachable
    <3>q. QED
      BY <3>2, <3>3
  <2>2. \A u \in sent : sending'[u] = sending[u]
    BY <1>3, <1>4
  <2>q. QED
    BY <1>1, <2>1, <2>2 DEF MessageOK, Members, Wrappers, frameVars, messageVars
<1>9. ASSUME NEW u \in Threads PROVE SendOK(u)'
  BY <1>1, <1>2, <1>3, <1>4 DEF Safe, SendOK, frameVars, messageVars
<1>q. QED
  BY <1>1, <1>5, <1>6, <1>7, <1>8, <1>9 DEF Safe, NoBadAccess

LEMMA NogvlSendMessageKeeps ==
  ASSUME Safe, NEW t \in Threads, NogvlSendMessage(t)
  PROVE  Safe'
<1>0. PICK m \in Messages : m = sending[t]
  BY DEF NogvlSendMessage, Safe, TypeOK
<1>1. /\ t \notin sent /\ m # Nil /\ sending_frame[t] = Nil /\ sent' = sent \cup {t}
      /\ zmsg[m] = "live" /\ m \in message_owned
      /\ \A u \in Threads : sending[u] = m => u = t
      /\ UNCHANGED <<frame_value, frame, frame_owned, frame_message, empty, message_value, message_owned,
                     frames, sending, sending_frame>>
  BY <1>0, ConstantsAssumption DEF NogvlSendMessage, Messages, Safe, SendOK
<1>2. Emptied(m) /\ fault' = UseMessage(m)
  BY <1>0 DEF NogvlSendMessage, Emptied, FreeZframes, Members
<1>3. \A f \in Members(m) : zframe[f] = "live" /\ f \in Frames /\ frame_value[f] # "unused"
  BY NotOwned DEF Safe, FrameOK
<1>4. fault' = "none"
  BY <1>1, <1>2, <1>3 DEF UseMessage, UseMembers, Members
<1>5. /\ zframe' \in [Frames -> {"none", "live", "freed"}]
      /\ zmsg' \in [Messages -> {"none", "live", "freed"}]
      /\ zframes' \in [Messages -> Seq(Frames)]
      /\ zmsg'[m] = "freed" /\ zframes'[m] = <<>> /\ Members(m)' = {}
      /\ \A n \in Messages \ {m} :
           /\ zmsg'[n] = zmsg[n] /\ zframes'[n] = zframes[n] /\ Members(n)' = Members(n)
           /\ \A f \in Members(n) : zframe'[f] = zframe[f]
      /\ \A f \in Frames : f \notin Members(m) => zframe'[f] = zframe[f]
      /\ \A f \in frame_owned : zframe'[f] = zframe[f]
      /\ \A f \in Frames : zframe'[f] = "live" => zframe[f] = "live" /\ f \notin Members(m)
  BY <1>1, <1>2, AfterEmptied
<1>6. TypeOK'
  BY <1>1, <1>4, <1>5 DEF Safe, TypeOK, Faults
<1>7. Numbered'
  BY <1>1 DEF Safe, Numbered, InOrder
<1>8. ASSUME NEW g \in Frames PROVE FrameOK(g)'
  <2>1. FrameOK(g)
    BY DEF Safe
  <2>2. FrameSent(g) => FrameSent(g)'
    BY <1>1 DEF FrameSent
  <2>3. zframe'[g] = "live" => g \in frame_owned \/ \E n \in Messages : g \in Members(n)'
    BY <1>5, <2>1 DEF FrameOK
  <2>4. frame_value[g] = "unused" => zframe'[g] = zframe[g]
    BY <1>3, <1>5
  <2>q. QED
    BY <1>1, <1>5, <2>1, <2>2, <2>3, <2>4 DEF FrameOK, Wrappers
<1>9. ASSUME NEW n \in Messages PROVE MessageOK(n)'
  <2>1. MessageOK(n) /\ (MessageReachable(n)' <=> MessageReachable(n)) /\ Wrappers(n)' = Wrappers(n)
    BY <1>1 DEF Safe, MessageReachable, Wrappers
  <2>2. CASE n = m
    <3>1. Distinct(<<>>)
      BY DEF Distinct
    <3>2. t \in sent' /\ sending'[t] = m
      BY <1>0, <1>1
    <3>q. QED
      BY <1>1, <1>5, <2>1, <2>2, <3>1, <3>2 DEF MessageOK
  <2>3. CASE n # m
    <3>1. /\ zframes'[n] = zframes[n] /\ zmsg'[n] = zmsg[n] /\ Members(n)' = Members(n)
          /\ \A f \in Members(n) : zframe'[f] = zframe[f]
      BY <1>5, <2>3
    <3>q. QED
      BY <1>1, <2>1, <3>1 DEF MessageOK
  <2>q. QED
    BY <2>2, <2>3
<1>10. ASSUME NEW u \in Threads PROVE SendOK(u)'
  <2>1. SendOK(u) /\ sending[u] \in Messages \cup {Nil}
    BY DEF Safe, TypeOK
  <2>2. CASE u = t
    BY <1>0, <1>1, <1>5, <2>1, <2>2 DEF SendOK
  <2>3. CASE u # t
    BY <1>0, <1>1, <1>5, <2>1, <2>3 DEF SendOK
  <2>q. QED
    BY <2>2, <2>3
<1>q. QED
  BY <1>4, <1>6, <1>7, <1>8, <1>9, <1>10 DEF Safe, NoBadAccess

LEMMA SentMessageKeeps ==
  ASSUME Careful, Safe, NEW t \in Threads, SentMessage(t)
  PROVE  Safe'
<1>0. PICK m \in Messages : m = sending[t]
  BY DEF SentMessage, Safe, TypeOK
<1>1. /\ t \in sent /\ m # Nil /\ sending_frame[t] = Nil
      /\ message_owned' = message_owned \ {m} /\ sent' = sent \ {t}
      /\ sending' = [sending EXCEPT ![t] = Nil]
      /\ UNCHANGED <<frameVars, message_value, zmsg, zframes, frames, sending_frame, fault>>
  BY <1>0, ConstantsAssumption DEF SentMessage, Messages, Safe, SendOK, Disowned, Careful
<1>2. /\ m \in message_owned /\ zmsg[m] # "live" /\ message_value[m] # "unused"
      /\ \A u \in Threads : sending[u] = m => u = t
  BY <1>0, <1>1 DEF Safe, SendOK, MessageOK
<1>3. /\ sending'[t] = Nil /\ \A u \in Threads \ {t} : sending'[u] = sending[u]
      /\ sending' \in [Threads -> Messages \cup {Nil}] /\ sent \subseteq Threads
  BY <1>1 DEF Safe, TypeOK
<1>4. TypeOK'
  BY <1>1, <1>3 DEF Safe, TypeOK, frameVars
<1>5. Numbered'
  BY <1>1 DEF Safe, Numbered, InOrder, frameVars
<1>6. ASSUME NEW g \in Frames PROVE FrameOK(g)'
  <2>1. FrameOK(g) /\ g # Nil
    BY ConstantsAssumption DEF Safe, Frames
  <2>2. FrameSent(g)' = FrameSent(g)
    BY <1>1, <2>1 DEF FrameSent
  <2>q. QED
    BY <1>1, <2>1, <2>2 DEF FrameOK, Members, Wrappers, frameVars
<1>7. ASSUME NEW n \in Messages PROVE MessageOK(n)'
  <2>1. MessageOK(n) /\ n # Nil
    BY ConstantsAssumption DEF Safe, Messages
  <2>2. CASE n = m
    BY <1>1, <1>2, <2>1, <2>2 DEF MessageOK, Members, frameVars
  <2>3. CASE n # m
    <3>1. \A u \in Threads : sending'[u] = n <=> sending[u] = n
      BY <1>0, <1>3, <2>1, <2>3
    <3>2. (\E u \in sent : sending[u] = n) => \E u \in sent' : sending'[u] = n
      BY <1>0, <1>1, <1>3, <2>3, <3>1
    <3>3. MessageReachable(n)' <=> MessageReachable(n)
      BY <1>1, <3>1 DEF MessageReachable
    <3>q. QED
      BY <1>1, <2>1, <2>3, <3>2, <3>3 DEF MessageOK, Members, Wrappers, frameVars
  <2>q. QED
    BY <2>2, <2>3
<1>8. ASSUME NEW u \in Threads PROVE SendOK(u)'
  <2>1. SendOK(u)
    BY DEF Safe
  <2>2. CASE u = t
    BY <1>1, <1>3, <2>1, <2>2 DEF SendOK, frameVars
  <2>3. CASE u # t
    BY <1>0, <1>1, <1>2, <1>3, <2>1, <2>3 DEF SendOK, frameVars
  <2>q. QED
    BY <2>2, <2>3
<1>q. QED
  BY <1>1, <1>4, <1>5, <1>6, <1>7, <1>8 DEF Safe, NoBadAccess

-----------------------------------------------------------------------------
(* The program as a whole                                                  *)

LEMMA InitSafe ==
  ASSUME Init
  PROVE  Safe
<1>1. TypeOK
  BY DEF Init, TypeOK, ValueStates, Faults
<1>2. Numbered
  <2>1. 0 \in 0..MaxFrames /\ 0 \in 0..MaxMessages
    BY ConstantsAssumption
  <2>2. InOrder(0, frame_value, Frames) /\ InOrder(0, message_value, Messages)
    BY ConstantsAssumption DEF Init, InOrder, Frames, Messages
  <2>q. QED
    BY <2>1, <2>2 DEF Numbered
<1>3. ASSUME NEW f \in Frames PROVE FrameOK(f)
  BY DEF Init, FrameOK
<1>4. ASSUME NEW m \in Messages PROVE MessageOK(m)
  BY ConstantsAssumption DEF Init, MessageOK, Distinct, Members, ToSet, Messages
<1>5. ASSUME NEW t \in Threads PROVE SendOK(t)
  BY DEF Init, SendOK
<1>q. QED
  BY <1>1, <1>2, <1>3, <1>4, <1>5 DEF Safe, NoBadAccess, Init

LEMMA NextSafe ==
  ASSUME Careful, Safe, [Next]_vars
  PROVE  Safe'
<1>1. CASE FrameNext
  <2>1. CASE FrameNew
    BY <2>1, FrameNewKeeps
  <2>2. ASSUME NEW f \in Frames, FrameDup(f) PROVE Safe'
    BY <2>2, FrameDupKeeps
  <2>3. ASSUME NEW f \in Frames, FrameRead(f) PROVE Safe'
    BY <2>3, FrameReadKeeps
  <2>4. ASSUME NEW f \in Frames, FrameReset(f) PROVE Safe'
    BY <2>4, FrameResetKeeps
  <2>5. ASSUME NEW f \in Frames, FrameDestroy(f) PROVE Safe'
    BY <2>5, FrameDestroyKeeps
  <2>6. ASSUME NEW f \in Frames, NEW other \in Frames, FrameCompare(f, other) PROVE Safe'
    BY <2>6, FrameCompareKeeps
  <2>q. QED
    BY <1>1, <2>1, <2>2, <2>3, <2>4, <2>5, <2>6 DEF FrameNext
<1>2. CASE MessageNext
  <2>1. CASE MessageNew
    BY <2>1, MessageNewKeeps
  <2>2. ASSUME NEW m \in Messages, MessageDup(m) PROVE Safe'
    BY <2>2, MessageDupKeeps
  <2>3. ASSUME NEW m \in Messages, MessageRead(m) PROVE Safe'
    BY <2>3, MessageReadKeeps
  <2>4. ASSUME NEW m \in Messages, MessagePushStr(m) PROVE Safe'
    BY <2>4, MessagePushStrKeeps
  <2>5. ASSUME NEW m \in Messages, MessageAddStr(m) PROVE Safe'
    BY <2>5, MessageAddStrKeeps
  <2>6. ASSUME NEW m \in Messages, MessagePop(m) PROVE Safe'
    BY <2>6, MessagePopKeeps
  <2>7. ASSUME NEW m \in Messages, MessagePopStr(m) PROVE Safe'
    BY <2>7, MessagePopStrKeeps
  <2>8. ASSUME NEW m \in Messages, MessageUnwrap(m) PROVE Safe'
    BY <2>8, MessageUnwrapKeeps
  <2>9. ASSUME NEW m \in Messages, MessageDestroy(m) PROVE Safe'
    BY <2>9, MessageDestroyKeeps
  <2>10. ASSUME NEW m \in Messages, NEW f \in Frames, MessageFrame(m, f) PROVE Safe'
    BY <2>10, MessageFrameKeeps
  <2>11. ASSUME NEW m \in Messages, NEW f \in Frames, MessagePush(m, f) PROVE Safe'
    BY <2>11, MessagePushKeeps
  <2>12. ASSUME NEW m \in Messages, NEW f \in Frames, MessageAdd(m, f) PROVE Safe'
    BY <2>12, MessageAddKeeps
  <2>13. ASSUME NEW m \in Messages, NEW f \in Frames, MessageRemove(m, f) PROVE Safe'
    BY <2>13, MessageRemoveKeeps
  <2>14. ASSUME NEW m \in Messages, NEW f \in Frames, MessageWrap(m, f) PROVE Safe'
    BY <2>14, MessageWrapKeeps
  <2>q. QED
    BY <1>2, <2>1, <2>2, <2>3, <2>4, <2>5, <2>6, <2>7, <2>8, <2>9, <2>10, <2>11, <2>12, <2>13, <2>14
    DEF MessageNext
<1>3. CASE SendNext
  <2>1. ASSUME NEW t \in Threads, NEW f \in Frames, SendFrame(t, f) PROVE Safe'
    BY <2>1, SendFrameKeeps
  <2>2. ASSUME NEW t \in Threads, NogvlSendFrame(t) PROVE Safe'
    BY <2>2, NogvlSendFrameKeeps
  <2>3. ASSUME NEW t \in Threads, SentFrame(t) PROVE Safe'
    BY <2>3, SentFrameKeeps
  <2>4. ASSUME NEW t \in Threads, NEW m \in Messages, SendMessage(t, m) PROVE Safe'
    BY <2>4, SendMessageKeeps
  <2>5. ASSUME NEW t \in Threads, NogvlSendMessage(t) PROVE Safe'
    BY <2>5, NogvlSendMessageKeeps
  <2>6. ASSUME NEW t \in Threads, SentMessage(t) PROVE Safe'
    BY <2>6, SentMessageKeeps
  <2>q. QED
    BY <1>3, <2>1, <2>2, <2>3, <2>4, <2>5, <2>6 DEF SendNext
<1>4. CASE GcNext
  <2>1. ASSUME NEW f \in Frames, DropFrame(f) PROVE Safe'
    BY <2>1, DropFrameKeeps
  <2>2. ASSUME NEW f \in Frames, FreeFrameGc(f) PROVE Safe'
    BY <2>2, FreeFrameGcKeeps
  <2>3. ASSUME NEW m \in Messages, DropMessage(m) PROVE Safe'
    BY <2>3, DropMessageKeeps
  <2>4. ASSUME NEW m \in Messages, FreeMessageGc(m) PROVE Safe'
    BY <2>4, FreeMessageGcKeeps
  <2>q. QED
    BY <1>4, <2>1, <2>2, <2>3, <2>4 DEF GcNext
<1>5. CASE UNCHANGED vars
  <2>1. UNCHANGED <<frame_value, frame, frame_owned, frame_message, zframe, empty, messageVars, sendVars, fault>>
    BY <1>5 DEF vars, frameVars
  <2>q. QED
    BY <2>1, ReadKeeps DEF Safe, TypeOK, NoBadAccess
<1>q. QED
  BY <1>1, <1>2, <1>3, <1>4, <1>5 DEF Next

\* In a careful program the rules hold at every step.
THEOREM RulesHold ==
  ASSUME Careful
  PROVE  Spec => []Safe
<1>1. Init => Safe
  BY InitSafe
<1>2. Safe /\ [Next]_vars => Safe'
  BY NextSafe
<1>q. QED
  BY <1>1, <1>2, PTL DEF Spec

\* Every variable has its type.
THEOREM FramesTyped ==
  ASSUME Careful
  PROVE  Spec => []TypeOK
<1>1. Safe => TypeOK
  BY DEF Safe
<1>q. QED
  BY <1>1, RulesHold, PTL

\* No method reads or frees what is freed, or gives czmq a frame that is not there.
THEOREM MemorySound ==
  ASSUME Careful
  PROVE  Spec => []NoBadAccess
<1>1. Safe => NoBadAccess
  BY DEF Safe
<1>q. QED
  BY <1>1, RulesHold, PTL

\* Between its wrapper and the messages, at most one will free a czmq frame.
THEOREM FreedOnce ==
  ASSUME Careful
  PROVE  Spec => []OneOwner
<1>1. Safe => OneOwner
  <2>. SUFFICES ASSUME Safe, NEW f \in Frames PROVE Cardinality(FreedBy(f)) <= 1
    BY DEF OneOwner
  <2>1. \A m, n \in Messages : zmsg[m] = "live" /\ f \in Members(m) /\ f \in Members(n) => m = n
    BY Apart
  <2>2. ASSUME NEW m \in Messages, f \in Members(m) PROVE f \notin frame_owned
    BY <2>2, NotOwned
  <2>3. \E x : FreedBy(f) \subseteq {x}
    <3>1. CASE \E m \in Messages : zmsg[m] = "live" /\ f \in Members(m)
      <4>1. PICK m \in Messages : zmsg[m] = "live" /\ f \in Members(m)
        BY <3>1
      <4>2. FreedBy(f) \subseteq {m}
        BY <2>1, <2>2, <4>1 DEF FreedBy, Members
      <4>q. QED
        BY <4>2
    <3>2. CASE ~ \E m \in Messages : zmsg[m] = "live" /\ f \in Members(m)
      <4>1. FreedBy(f) \subseteq {Nil}
        BY <3>2 DEF FreedBy, Members
      <4>q. QED
        BY <4>1
    <3>q. QED
      BY <3>1, <3>2
  <2>4. PICK x : FreedBy(f) \subseteq {x}
    BY <2>3
  <2>5. IsFiniteSet({x}) /\ Cardinality({x}) = 1
    BY FS_Singleton
  <2>6. Cardinality(FreedBy(f)) <= Cardinality({x})
    BY <2>4, <2>5, FS_Subset
  <2>q. QED
    BY <2>5, <2>6
<1>q. QED
  BY <1>1, RulesHold, PTL

\* A live czmq frame belongs to a wrapper or a message that is not collected.
THEOREM EveryFrameOwned ==
  ASSUME Careful
  PROVE  Spec => []NothingLeaks
<1>1. Safe => NothingLeaks
  <2>. SUFFICES ASSUME Safe, NEW f \in Frames, zframe[f] = "live"
                PROVE  \/ f \in frame_owned /\ f \in frame /\ frame_value[f] # "freed"
                       \/ \E m \in FreedBy(f) \ {Nil} :
                            m \in message_owned /\ message_value[m] # "freed"
    BY DEF NothingLeaks
  <2>1. CASE f \in frame_owned
    BY <2>1 DEF Safe, FrameOK
  <2>2. CASE f \notin frame_owned
    <3>1. PICK m \in Messages : f \in Members(m)
      BY <2>2 DEF Safe, FrameOK
    <3>2. zmsg[m] = "live" /\ m # Nil
      BY <3>1, NotOwned, ConstantsAssumption DEF Messages
    <3>3. m \in message_owned /\ message_value[m] # "freed"
      BY <3>2 DEF Safe, MessageOK
    <3>q. QED
      BY <3>1, <3>2, <3>3 DEF FreedBy, Members
  <2>q. QED
    BY <2>1, <2>2
<1>q. QED
  BY <1>1, RulesHold, PTL

\* The wrapper list of a message is the list of its czmq frames.
THEOREM ListsAgree ==
  ASSUME Careful
  PROVE  Spec => []ListsMirror
<1>1. Safe => ListsMirror
  BY DEF Safe, TypeOK, MessageOK, ListsMirror
<1>q. QED
  BY <1>1, RulesHold, PTL

\* A wrapper in the program's hands whose czmq frame is destroyed says so.
THEOREM GoneSaysSo ==
  ASSUME Careful
  PROVE  Spec => []DestroyedIsGone
<1>1. Safe => DestroyedIsGone
  <2>. SUFFICES ASSUME Safe, Alive, NEW f \in Frames, frame_value[f] = "held",
                       \A t \in Threads : /\ sending_frame[t] # f
                                          /\ sending[t] = Nil \/ sending[t] # frame_message[f],
                       ~FrameGone(f)
                PROVE  f \in frame /\ zframe[f] # "freed"
    BY DEF DestroyedIsGone
  <2>1. FrameOK(f) /\ ~FrameSent(f) /\ sent \subseteq Threads /\ message_owned \subseteq Messages
    BY DEF Safe, TypeOK, FrameSent
  <2>2. CASE f \in frame_owned
    BY <2>1, <2>2 DEF FrameOK
  <2>3. CASE f \notin frame_owned
    <3>. DEFINE m == frame_message[f]
    <3>1. m \in Messages /\ m # Nil /\ m \in message_owned /\ message_value[m] = "held" /\ f \in Wrappers(m)
      BY <2>1, <2>3 DEF FrameGone, FrameOK
    <3>. HIDE DEF m
    <3>2. MessageOK(m) /\ MessageReachable(m)
      BY <3>1 DEF Safe, MessageReachable
    <3>3. zmsg[m] = "live" /\ f \in frame
      <4>1. \A t \in sent : sending[t] # m
        BY <2>1, <3>1 DEF m
      <4>q. QED
        BY <3>1, <3>2, <4>1 DEF MessageOK
    <3>4. f \in Members(m)
      BY <3>1, <3>2, <3>3 DEF MessageOK, Members, Wrappers
    <3>q. QED
      BY <3>3, <3>4, NotOwned, <3>1
  <2>q. QED
    BY <2>2, <2>3
<1>q. QED
  BY <1>1, RulesHold, PTL

=============================================================================
