------------------------- MODULE FrameIterationProofs -------------------------
(***************************************************************************)
(* A walk with first and next returns the frames of a message in order,    *)
(* however long the message is and whatever is removed on the way, if      *)
(* nothing else moves the cursor of the list meanwhile.                    *)
(*                                                                         *)
(* The cursor tells how far the walk has come: the frames up to it have    *)
(* been returned, those after it have not, and zlist_remove keeps it so.   *)
(***************************************************************************)
EXTENDS FrameIteration, SequenceTheorems, TLAPS

\* Neither a collection nor to_a falls into a walk.
Undisturbed == Disturbs = {}

-----------------------------------------------------------------------------
(* The walk and the cursor                                                 *)

\* Frames are in the list once, and join it in the order of their numbers.
FramesDiffer ==
  /\ IsInjective(frames)
  /\ \A i \in DOMAIN frames : frames[i] <= made

Seen(i) == \E n \in DOMAIN visited : visited[n] = frames[i]

\* The walk has returned the frames up to the cursor, or all of them.
SeenToCursor ==
  /\ walk = "none" => visited = <<>>
  /\ walk = "on" => \A i \in DOMAIN frames : Seen(i) <=> i <= cursor
  /\ walk = "over" => \A i \in DOMAIN frames : Seen(i)

\* It has returned what is still there in the order of the list.
SeenInOrder ==
  /\ IsInjective(visited)
  /\ \A i, j \in DOMAIN frames : \A m, n \in DOMAIN visited :
       visited[m] = frames[i] /\ visited[n] = frames[j] /\ i < j => m < n

WalkInv == TypeOK /\ FramesDiffer /\ SeenToCursor /\ SeenInOrder

LEMMA InitWalkInv == Init => WalkInv
BY ConstantsAssumption
   DEF Init, WalkInv, TypeOK, FramesDiffer, SeenToCursor, SeenInOrder, IsInjective, Seen

LEMMA WalkInvInOrder == WalkInv => WalkInOrder
<1>. SUFFICES ASSUME WalkInv PROVE WalkInOrder
  OBVIOUS
<1>. DEFINE seen(i) == {n \in DOMAIN visited : visited[n] = frames[i]}
<1>1. ASSUME NEW j \in DOMAIN frames, NEW n \in seen(j), NEW i \in 1..j - 1
      PROVE  \E m \in seen(i) : m < n
  <2>1. i \in DOMAIN frames /\ i < j /\ DOMAIN frames = 1..Len(frames)
    BY DEF WalkInv, TypeOK
  <2>2. Seen(i)
    <3>1. walk # "none"
      BY DEF WalkInv, SeenToCursor
    <3>2. CASE walk = "over"
      BY <2>1, <3>2 DEF WalkInv, SeenToCursor
    <3>3. CASE walk = "on"
      <4>1. j <= cursor
        BY <3>3 DEF WalkInv, SeenToCursor, Seen
      <4>q. QED
        BY <2>1, <3>3, <4>1 DEF WalkInv, TypeOK, SeenToCursor
    <3>q. QED
      BY <3>1, <3>2, <3>3 DEF WalkInv, TypeOK
  <2>q. QED
    BY <2>1, <2>2 DEF WalkInv, SeenInOrder, Seen
<1>2. walk = "over" => \A i \in DOMAIN frames : seen(i) # {}
  BY DEF WalkInv, SeenToCursor, Seen
<1>q. QED
  BY <1>1, <1>2 DEF WalkInOrder, WalkInv, SeenInOrder

-----------------------------------------------------------------------------
(* The list                                                                *)

\* Taking the entry at a position out moves those after it up by one.
LEMMA RemoveAtProperties ==
  ASSUME NEW S, NEW s \in Seq(S), NEW at \in DOMAIN s
  PROVE  /\ RemoveAt(s, at) \in Seq(S)
         /\ Len(RemoveAt(s, at)) = Len(s) - 1
         /\ \A i \in 1..Len(s) - 1 :
              RemoveAt(s, at)[i] = s[IF i < at THEN i ELSE i + 1]
<1>. DEFINE before == SubSeq(s, 1, at - 1)
            after == SubSeq(s, at + 1, Len(s))
<1>1. /\ before \in Seq(S) /\ Len(before) = at - 1
      /\ \A i \in 1..at - 1 : before[i] = s[i]
  BY SubSeqProperties
<1>2. /\ after \in Seq(S) /\ Len(after) = Len(s) - at
      /\ \A i \in 1..Len(s) - at : after[i] = s[at + i]
  BY SubSeqProperties
<1>3. RemoveAt(s, at) = before \o after
  BY DEF RemoveAt
<1>. HIDE DEF before, after
<1>q. QED
  BY <1>1, <1>2, <1>3, ConcatProperties

\* A step of the walk returns the frame at the new cursor.
LEMMA NextInv ==
  ASSUME WalkInv, MessageNext
  PROVE  WalkInv'
<1>. USE DEF WalkInv, TypeOK
<1>1. CASE ZlistNext = 0
  <2>1. cursor = Len(frames) /\ cursor' = 0 /\ walk = "on" /\ walk' = "over"
        /\ UNCHANGED <<frames, made, visited>>
    BY <1>1 DEF MessageNext, ZlistNext
  <2>q. QED
    BY <2>1 DEF FramesDiffer, SeenToCursor, SeenInOrder, Seen, IsInjective
<1>2. CASE ZlistNext # 0
  <2>. DEFINE c == cursor + 1
  <2>1. /\ c \in DOMAIN frames /\ frames[c] \in 1..MaxFrames
        /\ walk = "on" /\ cursor' = c /\ visited' = Append(visited, frames[c])
        /\ UNCHANGED <<frames, made, walk>>
    <3>1. cursor # Len(frames) /\ ZlistNext = c
      BY <1>2 DEF ZlistNext
    <3>2. c \in 1..Len(frames)
      BY <3>1
    <3>3. c \in DOMAIN frames /\ frames[c] \in 1..MaxFrames
      BY <3>2, ConstantsAssumption, ElementOfSeq
    <3>q. QED
      BY <3>1, <3>3 DEF MessageNext
  <2>2. /\ visited' \in Seq(1..MaxFrames) /\ Len(visited') = Len(visited) + 1
        /\ \A n \in 1..Len(visited) : visited'[n] = visited[n]
        /\ visited'[Len(visited) + 1] = frames[c]
    BY <2>1, AppendProperties
  <2>3. TypeOK' /\ FramesDiffer'
    BY <2>1, <2>2 DEF FramesDiffer
  <2>4. \A n \in DOMAIN visited : visited[n] # frames[c]
    BY <2>1 DEF SeenToCursor, Seen
  <2>5. SeenToCursor'
    <3>1. \A i \in DOMAIN frames : Seen(i)' <=> Seen(i) \/ i = c
      <4>1. ASSUME NEW i \in DOMAIN frames, Seen(i)' PROVE Seen(i) \/ i = c
        <5>1. PICK n \in 1..Len(visited) + 1 : visited'[n] = frames[i]
          BY <2>1, <2>2, <4>1 DEF Seen
        <5>2. CASE n = Len(visited) + 1
          BY <2>1, <2>2, <5>1, <5>2 DEF FramesDiffer, IsInjective
        <5>3. CASE n \in 1..Len(visited)
          BY <2>2, <5>1, <5>3 DEF Seen
        <5>q. QED
          BY <5>2, <5>3
      <4>2. ASSUME NEW i \in DOMAIN frames, Seen(i) \/ i = c PROVE Seen(i)'
        BY <2>1, <2>2, <4>2 DEF Seen
      <4>q. QED
        BY <4>1, <4>2
    <3>2. \A i \in DOMAIN frames : Seen(i)' <=> i <= c
      BY <2>1, <3>1 DEF SeenToCursor
    <3>q. QED
      BY <2>1, <3>2 DEF SeenToCursor
  <2>6. IsInjective(visited')
    <3>1. \A m, n \in 1..Len(visited) : visited[m] = visited[n] => m = n
      BY DEF SeenInOrder, IsInjective
    <3>2. DOMAIN visited' = 1..Len(visited) + 1
      BY <2>2
    <3>3. ASSUME NEW m \in 1..Len(visited) + 1, NEW n \in 1..Len(visited) + 1,
                 visited'[m] = visited'[n]
          PROVE  m = n
      BY <2>2, <2>4, <3>1, <3>3
    <3>q. QED
      BY <3>2, <3>3 DEF IsInjective
  <2>7. ASSUME NEW i \in DOMAIN frames, NEW j \in DOMAIN frames,
               NEW m \in 1..Len(visited) + 1, NEW n \in 1..Len(visited) + 1,
               visited'[m] = frames[i], visited'[n] = frames[j], i < j
        PROVE  m < n
    <3>1. CASE m \in 1..Len(visited) /\ n \in 1..Len(visited)
      BY <2>2, <2>7, <3>1 DEF SeenInOrder
    <3>2. CASE m \in 1..Len(visited) /\ n = Len(visited) + 1
      BY <3>2
    <3>3. CASE m = Len(visited) + 1
      <4>1. i = c
        BY <2>1, <2>2, <2>7, <3>3 DEF FramesDiffer, IsInjective
      <4>2. n \in 1..Len(visited)
        <5>1. n # Len(visited) + 1
          BY <2>1, <2>2, <2>7, <4>1 DEF FramesDiffer, IsInjective
        <5>q. QED
          BY <5>1
      <4>3. Seen(j)
        BY <2>2, <2>7, <4>2 DEF Seen
      <4>q. QED
        BY <2>1, <2>7, <4>1, <4>3 DEF SeenToCursor
    <3>q. QED
      BY <3>1, <3>2, <3>3
  <2>8. SeenInOrder'
    BY <2>1, <2>2, <2>6, <2>7 DEF SeenInOrder
  <2>q. QED
    BY <2>3, <2>5, <2>8
<1>q. QED
  BY <1>1, <1>2

\* Removing a frame, seen or not, leaves the rest in place.
LEMMA RemoveInv ==
  ASSUME WalkInv, NEW f \in 1..MaxFrames, MessageRemove(f)
  PROVE  WalkInv'
<1>. USE DEF WalkInv, TypeOK
<1>1. PICK at \in DOMAIN frames :
        /\ frames' = RemoveAt(frames, at)
        /\ cursor' = IF cursor >= at THEN cursor - 1 ELSE cursor
  BY DEF MessageRemove, ZlistRemove
<1>. DEFINE was(i) == IF i < at THEN i ELSE i + 1
<1>2. /\ frames' \in Seq(1..MaxFrames) /\ Len(frames') = Len(frames) - 1
      /\ \A i \in DOMAIN frames' : was(i) \in DOMAIN frames /\ frames'[i] = frames[was(i)]
  <2>1. /\ frames' \in Seq(1..MaxFrames) /\ Len(frames') = Len(frames) - 1
        /\ \A i \in 1..Len(frames) - 1 : frames'[i] = frames[was(i)]
    BY <1>1, RemoveAtProperties
  <2>2. DOMAIN frames' = 1..Len(frames) - 1 /\ DOMAIN frames = 1..Len(frames)
    BY <2>1
  <2>3. \A i \in 1..Len(frames) - 1 : was(i) \in 1..Len(frames)
    BY <2>2
  <2>q. QED
    BY <2>1, <2>2, <2>3
<1>3. UNCHANGED <<made, walk, visited>>
  BY DEF MessageRemove
<1>4. TypeOK'
  BY <1>1, <1>2, <1>3
<1>5. \A i, j \in DOMAIN frames' : i < j => was(i) < was(j)
  BY <1>2
<1>6. FramesDiffer'
  <2>1. \A i, j \in DOMAIN frames' : was(i) = was(j) => i = j
    BY <1>2
  <2>q. QED
    BY <1>2, <1>3, <2>1 DEF FramesDiffer, IsInjective
<1>7. \A i \in DOMAIN frames' : Seen(i)' <=> Seen(was(i))
  BY <1>2, <1>3 DEF Seen
<1>8. \A i \in DOMAIN frames' : i <= cursor' <=> was(i) <= cursor
  BY <1>1, <1>2
<1>9. SeenToCursor'
  BY <1>2, <1>3, <1>7, <1>8 DEF SeenToCursor
<1>10. SeenInOrder'
  BY <1>2, <1>3, <1>5 DEF SeenInOrder
<1>q. QED
  BY <1>4, <1>6, <1>9, <1>10

\* A new list ends the walk.
LEMMA NewListInv ==
  ASSUME WalkInv, NEW list \in Seq(1..MaxFrames), NewList(list),
         made' \in 0..MaxFrames, IsInjective(list),
         \A i \in DOMAIN list : list[i] <= made'
  PROVE  WalkInv'
<1>1. /\ frames' = list /\ cursor' = 0 /\ walk' = "none" /\ visited' = <<>>
  BY DEF NewList
<1>2. TypeOK' /\ FramesDiffer'
  BY <1>1 DEF TypeOK, FramesDiffer
<1>3. SeenToCursor' /\ SeenInOrder'
  BY <1>1 DEF SeenToCursor, SeenInOrder, IsInjective
<1>q. QED
  BY <1>2, <1>3 DEF WalkInv

LEMMA JoinInv ==
  ASSUME WalkInv, MessagePush \/ MessageAdd
  PROVE  WalkInv'
<1>. DEFINE f == made + 1
<1>1. f \in 1..MaxFrames /\ made' = f /\ made \in Nat /\ frames \in Seq(1..MaxFrames)
  BY ConstantsAssumption DEF WalkInv, TypeOK, MessagePush, MessageAdd
<1>2. \A i \in DOMAIN frames : frames[i] < f /\ frames[i] \in Nat
  <2>. SUFFICES ASSUME NEW i \in DOMAIN frames PROVE frames[i] < f /\ frames[i] \in Nat
    OBVIOUS
  <2>1. frames[i] \in 1..MaxFrames
    BY <1>1, ConstantsAssumption, ElementOfSeq
  <2>2. frames[i] <= made
    BY DEF WalkInv, FramesDiffer
  <2>q. QED
    BY <1>1, <2>1, <2>2, ConstantsAssumption
<1>3. CASE MessagePush
  <2>. DEFINE list == <<f>> \o frames
  <2>1. /\ list \in Seq(1..MaxFrames) /\ Len(list) = Len(frames) + 1
        /\ \A i \in DOMAIN list : list[i] = IF i = 1 THEN f ELSE frames[i - 1]
    <3>1. <<f>> \in Seq(1..MaxFrames) /\ Len(<<f>>) = 1 /\ <<f>>[1] = f
      BY <1>1
    <3>q. QED
      BY <1>1, <3>1, ConcatProperties
  <2>2. IsInjective(list) /\ \A i \in DOMAIN list : list[i] <= made'
    BY <1>1, <1>2, <2>1 DEF WalkInv, FramesDiffer, IsInjective
  <2>. HIDE DEF list
  <2>3. NewList(list) /\ made' \in 0..MaxFrames
    BY <1>1, <1>3 DEF MessagePush, list
  <2>q. QED
    BY <2>1, <2>2, <2>3, NewListInv
<1>4. CASE MessageAdd
  <2>. DEFINE list == Append(frames, f)
  <2>1. /\ list \in Seq(1..MaxFrames) /\ Len(list) = Len(frames) + 1
        /\ \A i \in DOMAIN list : list[i] = IF i = Len(list) THEN f ELSE frames[i]
    BY <1>1, AppendProperties
  <2>2. IsInjective(list) /\ \A i \in DOMAIN list : list[i] <= made'
    BY <1>1, <1>2, <2>1 DEF WalkInv, FramesDiffer, IsInjective
  <2>. HIDE DEF list
  <2>3. NewList(list) /\ made' \in 0..MaxFrames
    BY <1>1, <1>4 DEF MessageAdd, list
  <2>q. QED
    BY <2>1, <2>2, <2>3, NewListInv
<1>q. QED
  BY <1>3, <1>4

LEMMA PopInv ==
  ASSUME WalkInv, MessagePop
  PROVE  WalkInv'
<1>. DEFINE list == Tail(frames)
<1>1. /\ list \in Seq(1..MaxFrames) /\ Len(list) = Len(frames) - 1
      /\ \A i \in DOMAIN list : i + 1 \in DOMAIN frames /\ list[i] = frames[i + 1]
  BY HeadTailProperties DEF WalkInv, TypeOK, MessagePop
<1>2. IsInjective(list) /\ \A i \in DOMAIN list : list[i] <= made'
  BY <1>1 DEF WalkInv, FramesDiffer, IsInjective, MessagePop
<1>. HIDE DEF list
<1>3. NewList(list) /\ made' \in 0..MaxFrames
  BY DEF MessagePop, list, WalkInv, TypeOK
<1>q. QED
  BY <1>1, <1>2, <1>3, NewListInv

LEMMA NextWalkInv ==
  ASSUME Undisturbed, WalkInv, [Next]_vars
  PROVE  WalkInv'
<1>1. CASE MessageFirst
  <2>1. /\ 1 \in DOMAIN frames /\ frames[1] \in 1..MaxFrames
        /\ cursor' = 1 /\ walk' = "on" /\ visited' = <<frames[1]>>
        /\ UNCHANGED <<frames, made>>
    <3>1. frames \in Seq(1..MaxFrames) /\ frames # <<>>
      BY <1>1 DEF MessageFirst, WalkInv, TypeOK
    <3>2. 1 \in DOMAIN frames /\ frames[1] \in 1..MaxFrames
      BY <3>1, ConstantsAssumption, EmptySeq, ElementOfSeq
    <3>q. QED
      BY <1>1, <3>2 DEF MessageFirst
  <2>2. visited' \in Seq(1..MaxFrames) /\ DOMAIN visited' = {1} /\ visited'[1] = frames[1]
    BY <2>1
  <2>3. TypeOK' /\ FramesDiffer'
    BY <2>1, <2>2 DEF WalkInv, TypeOK, FramesDiffer
  <2>4. \A i \in DOMAIN frames : Seen(i)' <=> i = 1
    BY <2>1, <2>2 DEF WalkInv, FramesDiffer, IsInjective, Seen
  <2>5. SeenToCursor'
    BY <2>1, <2>4 DEF WalkInv, TypeOK, SeenToCursor
  <2>6. SeenInOrder'
    BY <2>1, <2>2, <2>4 DEF WalkInv, FramesDiffer, SeenInOrder, IsInjective
  <2>q. QED
    BY <2>3, <2>5, <2>6 DEF WalkInv
<1>2. CASE MessageNext
  BY <1>2, NextInv
<1>3. CASE MessageLast
  <2>1. /\ cursor' = Len(frames) /\ walk' = "none" /\ visited' = <<>> /\ UNCHANGED <<frames, made>>
    BY <1>3 DEF MessageLast
  <2>q. QED
    BY <2>1 DEF WalkInv, TypeOK, FramesDiffer, SeenToCursor, SeenInOrder, IsInjective
<1>4. CASE MessagePush \/ MessageAdd
  BY <1>4, JoinInv
<1>5. CASE MessagePop
  BY <1>5, PopInv
<1>6. ASSUME NEW f \in 1..MaxFrames, MessageRemove(f) PROVE WalkInv'
  BY <1>6, RemoveInv
<1>7. CASE MarkMessage \/ MessageToA
  <2>1. walk # "on" /\ cursor' = 0 /\ UNCHANGED <<frames, made, walk, visited>>
    BY <1>7 DEF MarkMessage, MessageToA, RunThrough, Undisturbed
  <2>q. QED
    BY <2>1 DEF WalkInv, TypeOK, FramesDiffer, SeenToCursor, SeenInOrder, Seen, IsInjective
<1>8. CASE UNCHANGED vars
  BY <1>8 DEF vars, WalkInv, TypeOK, FramesDiffer, SeenToCursor, SeenInOrder, Seen, IsInjective
<1>q. QED
  BY <1>1, <1>2, <1>3, <1>4, <1>5, <1>6, <1>7, <1>8 DEF Next

\* An undisturbed walk returns the frames in order, none twice and none left out,
\* also when frames are removed on the way (message.c:286).
THEOREM WalkedInOrder ==
  ASSUME Undisturbed
  PROVE  Spec => []WalkInOrder
<1>1. WalkInv /\ [Next]_vars => WalkInv'
  BY NextWalkInv
<1>q. QED
  BY <1>1, InitWalkInv, WalkInvInOrder, PTL DEF Spec

=============================================================================
