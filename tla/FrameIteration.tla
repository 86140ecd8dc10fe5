--------------------------- MODULE FrameIteration ---------------------------
(***************************************************************************)
(* Walking the frames of a ZMQ::Message with first and next                *)
(* (ext/rbczmq/message.c). The walk has no state of its own: it goes by    *)
(* the one cursor of the zlist of wrappers, which to_a and the mark        *)
(* callback of the garbage collector move as well.                         *)
(***************************************************************************)
EXTENDS Naturals, Sequences, SequencesExt

CONSTANTS
  MaxFrames,  \* frames are numbered in the order they join the message
  MaxVisits,  \* the longest walk followed
  Disturbs    \* what may happen in the middle of a walk

Disturbances == {"mark", "to_a"}

ASSUME ConstantsAssumption ==
  /\ MaxFrames \in Nat /\ MaxVisits \in Nat
  /\ Disturbs \subseteq Disturbances

VARIABLES
  frames,   \* the wrappers in message->frames
  cursor,   \* the position of the zlist's cursor, 0 for NULL
  made,     \* how many frames have been made
  walk,     \* "none", "on" since first returned a frame, "over" since the end
  visited   \* the frames the walk has returned

vars == <<frames, cursor, made, walk, visited>>

TypeOK ==
  /\ frames \in Seq(1..MaxFrames)
  /\ cursor \in 0..Len(frames)
  /\ made \in 0..MaxFrames
  /\ walk \in {"none", "on", "over"}
  /\ visited \in Seq(1..MaxFrames)

Init ==
  /\ frames = <<>> /\ cursor = 0 /\ made = 0
  /\ walk = "none" /\ visited = <<>>

-----------------------------------------------------------------------------
(* The zlist, as message.c uses it                                         *)

\* zlist_next: one further, and from NULL to the head; NULL past the tail.
ZlistNext == IF cursor = Len(frames) THEN 0 ELSE cursor + 1

ZlistRemoveKeepsCursor(f) ==
  \E at \in DOMAIN frames :
    /\ frames[at] = f /\ frames' = RemoveAt(frames, at)
    /\ cursor' = IF cursor > Len(frames) - 1 THEN Len(frames) - 1 ELSE cursor

\* zlist_remove: a cursor on the removed item steps back to the one before.
ZlistRemove(f) ==
  \E at \in DOMAIN frames :
    /\ frames[at] = f /\ frames' = RemoveAt(frames, at)
    /\ cursor' = IF cursor >= at THEN cursor - 1 ELSE cursor

-----------------------------------------------------------------------------
(* The walk                                                                *)

MessageFirst ==
  /\ frames # <<>>
  /\ cursor' = 1
  /\ walk' = "on" /\ visited' = <<frames[1]>>
  /\ UNCHANGED <<frames, made>>

\* The program calls msg.next until it returns nil.
MessageNext ==
  /\ walk = "on" /\ Len(visited) < MaxVisits
  /\ cursor' = ZlistNext
  /\ IF ZlistNext = 0
     THEN walk' = "over" /\ UNCHANGED visited
     ELSE visited' = Append(visited, frames[ZlistNext]) /\ UNCHANGED walk
  /\ UNCHANGED <<frames, made>>

\* msg.remove in a walk, of the frame just visited or of another one.
MessageRemove(f) ==
  /\ ZlistRemove(f)
  /\ UNCHANGED <<made, walk, visited>>

\* msg.last moves the cursor, so the program gives its walk up.
MessageLast ==
  /\ frames # <<>>
  /\ cursor' = Len(frames)
  /\ walk' = "none" /\ visited' = <<>>
  /\ UNCHANGED <<frames, made>>

\* push and pushstr, add and addstr, pop and popstr set the cursor to NULL;
\* the program starts again with msg.first.
NewList(list) ==
  /\ frames' = list
  /\ cursor' = 0
  /\ walk' = "none" /\ visited' = <<>>

MessagePush ==
  /\ made < MaxFrames /\ made' = made + 1
  /\ NewList(<<made + 1>> \o frames)

MessageAdd ==
  /\ made < MaxFrames /\ made' = made + 1
  /\ NewList(Append(frames, made + 1))

MessagePop ==
  /\ frames # <<>>
  /\ NewList(Tail(frames))
  /\ UNCHANGED made

-----------------------------------------------------------------------------
(* What else moves the cursor                                              *)

\* Both go from first to the end with zlist_next, which leaves NULL.
RunThrough ==
  /\ cursor' = 0
  /\ UNCHANGED <<frames, made, walk, visited>>

\* rb_czmq_mark_message, whenever an allocation triggers a collection.
MarkMessage == (walk = "on" => "mark" \in Disturbs) /\ RunThrough

MessageToA == (walk = "on" => "to_a" \in Disturbs) /\ RunThrough

Next ==
  \/ MessageFirst \/ MessageNext \/ MessageLast
  \/ MessagePush \/ MessageAdd \/ MessagePop
  \/ \E f \in 1..MaxFrames : MessageRemove(f)
  \/ MarkMessage \/ MessageToA

Spec == Init /\ [][Next]_vars

-----------------------------------------------------------------------------
(* Properties                                                              *)

\* A walk returns the frames of the message in order, none twice and none left
\* out, and nil only after the last, also when frames are removed on the way
\* (message.c:286: next "can thus be used for iteration").
WalkInOrder ==
  LET seen(i) == {n \in DOMAIN visited : visited[n] = frames[i]}
  IN /\ IsInjective(visited)
     /\ \A j \in DOMAIN frames : \A n \in seen(j) :
          \A i \in 1..j - 1 : \E m \in seen(i) : m < n
     /\ walk = "over" => \A i \in DOMAIN frames : seen(i) # {}

=============================================================================
