---------------------------- MODULE MessageFrames ----------------------------
(***************************************************************************)
(* Who owns a frame: ZMQ::Frame and ZMQ::Message wrappers, the czmq frames *)
(* and messages below them, and the garbage collector                      *)
(* (ext/rbczmq/frame.c, message.c, and the send and receive methods of     *)
(* socket.c that create and consume them).                                 *)
(*                                                                         *)
(* A frame exists once as a czmq frame (zframe_t) and once as a wrapper,   *)
(* made together, so one number names both. A message keeps two lists, the *)
(* zmsg_t of czmq frames and a zlist of wrappers. The OWNED flags say      *)
(* which side frees what. Contents matter only as empty or not.            *)
(*                                                                         *)
(* A definition named for a fault (...KeepsOwned, ...FromGone) is a wrong  *)
(* version of the one after it, for the check that a property notices.     *)
(***************************************************************************)
EXTENDS Naturals, FiniteSets, Sequences, SequencesExt

CONSTANTS
  Threads,      \* Ruby threads that send; every other method holds the GVL
  MaxFrames,    \* frames are numbered in the order they are made
  MaxMessages,  \* and so are messages
  MaxLength,    \* the most frames in a received message
  Nil,          \* NULL
  Risky         \* what the program does although it ought not to

RiskyUses ==
  { "remove_a_stranger",       \* msg.remove(frame) of a frame not in msg
    "wrap_a_member",           \* msg.wrap(frame) of a frame in a message
    "keep_what_was_consumed",  \* hold a frame that popstr or unwrap destroys
    "unwrap_a_short_message",  \* unwrap with fewer than two frames
    "destroy_a_member",        \* frame.destroy of a frame in a message
    "outlive_the_message",     \* forget a message, hold one of its frames
    "share_while_sending",     \* use what another thread is sending
    "compare_with_gone",       \* frame <=> other when other is gone
    "interrupt_a_send" }       \* Thread#raise or Timeout ends a send early

ASSUME ConstantsAssumption ==
  /\ MaxFrames \in Nat /\ MaxMessages \in Nat /\ MaxLength \in Nat
  /\ Risky \subseteq RiskyUses
  /\ Nil \notin Nat

Frames == 1..MaxFrames
Messages == 1..MaxMessages

VARIABLES
  frame_value,    \* [Frames -> ValueStates], the Ruby object of a wrapper
  frame,          \* wrappers whose zframe pointer is not NULL
  frame_owned,    \* wrappers with ZMQ_FRAME_OWNED
  frame_message,  \* [Frames -> Messages or Nil], the raw pointer to a wrapper
  zframe,         \* [Frames -> {"none", "live", "freed"}]
  empty           \* czmq frames of size 0

VARIABLES
  message_value,  \* [Messages -> ValueStates]
  message_owned,  \* wrappers with ZMQ_MESSAGE_OWNED
  zmsg,           \* [Messages -> {"none", "live", "freed"}]
  zframes,        \* [Messages -> Seq(Frames)], the frames of the zmsg_t
  frames          \* [Messages -> Seq(Frames)], the wrappers in the zlist

VARIABLES
  sending,        \* [Threads -> Messages or Nil], argument of send_message
  sending_frame,  \* [Threads -> Frames or Nil], argument of send_frame
  sent,           \* threads whose zmsg_send or zframe_send took it
  fault           \* what went wrong with memory, or "none"

frameVars == <<frame_value, frame, frame_owned, frame_message, zframe, empty>>
messageVars == <<message_value, message_owned, zmsg, zframes, frames>>
sendVars == <<sending, sending_frame, sent>>
vars == <<frameVars, messageVars, sendVars, fault>>

ValueStates == {"unused", "held", "dropped", "freed"}
Faults == {"none", "freed_frame", "null_frame", "freed_message",
           "freed_wrapper"}

TypeOK ==
  /\ frame_value \in [Frames -> ValueStates]
  /\ frame \subseteq Frames /\ frame_owned \subseteq Frames
  /\ frame_message \in [Frames -> Messages \cup {Nil}]
  /\ zframe \in [Frames -> {"none", "live", "freed"}]
  /\ empty \subseteq Frames
  /\ message_value \in [Messages -> ValueStates]
  /\ message_owned \subseteq Messages
  /\ zmsg \in [Messages -> {"none", "live", "freed"}]
  /\ zframes \in [Messages -> Seq(Frames)]
  /\ frames \in [Messages -> Seq(Frames)]
  /\ sending \in [Threads -> Messages \cup {Nil}]
  /\ sending_frame \in [Threads -> Frames \cup {Nil}]
  /\ sent \subseteq Threads
  /\ fault \in Faults

Init ==
  /\ frame_value = [f \in Frames |-> "unused"]
  /\ frame = {} /\ frame_owned = {} /\ empty = {}
  /\ frame_message = [f \in Frames |-> Nil]
  /\ zframe = [f \in Frames |-> "none"]
  /\ message_value = [m \in Messages |-> "unused"]
  /\ message_owned = {}
  /\ zmsg = [m \in Messages |-> "none"]
  /\ zframes = [m \in Messages |-> <<>>]
  /\ frames = [m \in Messages |-> <<>>]
  /\ sending = [t \in Threads |-> Nil]
  /\ sending_frame = [t \in Threads |-> Nil]
  /\ sent = {}
  /\ fault = "none"

-----------------------------------------------------------------------------
(* Guards and faults                                                       *)

Alive == fault = "none"

MadeFrames == Cardinality({f \in Frames : frame_value[f] # "unused"})
MadeMessages == Cardinality({m \in Messages : message_value[m] # "unused"})

\* The numbers of the next k frames.
NextFrames(k) == MadeFrames + 1 .. MadeFrames + k
Room(k) == MadeFrames + k <= MaxFrames

\* frame.gone?, and the guard of every accessor, though not of the operand of
\* <=> (frame.c:316).
FrameGone(f) ==
  /\ f \notin frame_owned
  /\ frame_message[f] = Nil \/ frame_message[f] \notin message_owned

\* May the program use message m, frame f? Not while another thread sends it.
MayUse(m) ==
  /\ Alive /\ message_value[m] = "held"
  /\ "share_while_sending" \in Risky \/ \A t \in Threads : sending[t] # m

MayUseFrame(f) ==
  /\ Alive /\ frame_value[f] = "held"
  /\ \/ "share_while_sending" \in Risky
     \/ \A t \in Threads : /\ sending_frame[t] # f
                           /\ sending[t] = Nil \/ sending[t] # frame_message[f]

\* What happens when C code follows the zframe pointer of wrapper f.
UseFrame(f) ==
  IF f \notin frame THEN "null_frame"
  ELSE IF zframe[f] = "freed" THEN "freed_frame" ELSE "none"

\* What happens when an accessor of f evaluates its guard, and goes on.
GuardFrame(f) ==
  IF /\ f \notin frame_owned /\ frame_message[f] # Nil
     /\ message_value[frame_message[f]] = "freed"
  THEN "freed_wrapper" ELSE "none"

AccessFrame(f) ==
  IF GuardFrame(f) # "none" THEN GuardFrame(f)
  ELSE IF FrameGone(f) THEN "none" ELSE UseFrame(f)

\* What happens when czmq links or unlinks a frame of message m, and when it
\* reads the frames of `set` that are in m.
UseList(m) == IF zmsg[m] = "freed" THEN "freed_message" ELSE "none"

UseMembers(m, set) ==
  IF zmsg[m] = "freed" THEN "freed_message"
  ELSE IF \E f \in set : zframe[f] = "freed" THEN "freed_frame" ELSE "none"

UseMessage(m) == UseMembers(m, ToSet(zframes[m]))

FirstFault(kind1, kind2) == IF kind1 # "none" THEN kind1 ELSE kind2

FreeZframes(set) ==
  zframe' = [f \in Frames |-> IF f \in set THEN "freed" ELSE zframe[f]]

-----------------------------------------------------------------------------
(* ZMQ::Frame                                                              *)

\* rb_czmq_alloc_frame for the frames of `set`: on their own when m is Nil,
\* else linked to message m, which owns them.
AllocFrames(set, m, empties) ==
  /\ frame_value' = [f \in Frames |->
       IF f \notin set THEN frame_value[f]
       ELSE IF m = Nil THEN "held" ELSE "dropped"]
  /\ frame' = frame \cup set
  /\ frame_owned' = IF m = Nil THEN frame_owned \cup set ELSE frame_owned
  /\ frame_message' = [f \in Frames |-> IF f \in set THEN m ELSE frame_message[f]]
  /\ zframe' = [f \in Frames |-> IF f \in set THEN "live" ELSE zframe[f]]
  /\ empty' = empty \cup empties

\* ZMQ::Frame.new, and sock.recv_frame.
FrameNew ==
  /\ Alive /\ Room(1)
  /\ \E empties \in SUBSET NextFrames(1) : AllocFrames(NextFrames(1), Nil, empties)
  /\ UNCHANGED <<messageVars, sendVars, fault>>

FrameDup(f) ==
  /\ MayUseFrame(f) /\ ~FrameGone(f) /\ Room(1)
  /\ AllocFrames(NextFrames(1), Nil, IF f \in empty THEN NextFrames(1) ELSE {})
  /\ fault' = AccessFrame(f)
  /\ UNCHANGED <<messageVars, sendVars>>

\* size, data, strhex, more?, data_equals?, print: only reads. eql? and == are
\* such a read of either frame, each behind a guard of its own.
FrameRead(f) ==
  /\ MayUseFrame(f)
  /\ fault' = AccessFrame(f)
  /\ UNCHANGED <<frameVars, messageVars, sendVars>>

\* f <=> other tests f twice and other not at all, but for a NULL pointer.
FrameCompare(f, other) ==
  /\ f # other
  /\ MayUseFrame(f) /\ ~FrameGone(f) /\ MayUseFrame(other)
  /\ ~FrameGone(other) \/ "compare_with_gone" \in Risky
  /\ fault' = IF other \notin frame THEN GuardFrame(f)
              ELSE FirstFault(AccessFrame(f), UseFrame(other))
  /\ UNCHANGED <<frameVars, messageVars, sendVars>>

FrameReset(f) ==
  /\ MayUseFrame(f) /\ ~FrameGone(f)
  /\ \E empties \in {empty \cup {f}, empty \ {f}} : empty' = empties
  /\ fault' = AccessFrame(f)
  /\ UNCHANGED <<frame_value, frame, frame_owned, frame_message, zframe,
                 messageVars, sendVars>>

\* rb_czmq_free_frame: only the owner destroys the czmq frame, and the pointer
\* is cleared in any case.
FreeFrame(f) ==
  /\ IF f \in frame /\ f \in frame_owned
     THEN FreeZframes({f}) /\ frame_owned' = frame_owned \ {f}
     ELSE UNCHANGED <<zframe, frame_owned>>
  /\ frame' = frame \ {f}
  /\ fault' = IF f \in frame /\ f \in frame_owned THEN UseFrame(f) ELSE "none"

FrameDestroy(f) ==
  /\ MayUseFrame(f) /\ ~FrameGone(f)
  /\ f \in frame_owned \/ "destroy_a_member" \in Risky
  /\ FreeFrame(f)
  /\ UNCHANGED <<frame_value, frame_message, empty, messageVars, sendVars>>

-----------------------------------------------------------------------------
(* ZMQ::Message                                                            *)

\* rb_czmq_alloc_message for a zmsg_t of k new frames: ZMQ::Message.new (k is
\* 0), ZMQ::Message.decode, sock.recv_message and msg.dup.
AllocMessage(k, empties) ==
  LET m == MadeMessages + 1
      list == [i \in 1..k |-> MadeFrames + i]
  IN /\ m \in Messages /\ Room(k)
     /\ AllocFrames(NextFrames(k), m, empties)
     /\ message_value' = [message_value EXCEPT ![m] = "held"]
     /\ message_owned' = message_owned \cup {m}
     /\ zmsg' = [zmsg EXCEPT ![m] = "live"]
     /\ zframes' = [zframes EXCEPT ![m] = list]
     /\ frames' = [frames EXCEPT ![m] = list]

MessageNew ==
  /\ Alive
  /\ \E k \in 0..MaxLength : \E empties \in SUBSET NextFrames(k) :
       AllocMessage(k, empties)
  /\ UNCHANGED <<sendVars, fault>>

MessageDup(m) ==
  /\ MayUse(m) /\ m \in message_owned
  /\ AllocMessage(Len(zframes[m]),
       {MadeFrames + i : i \in {j \in DOMAIN zframes[m] : zframes[m][j] \in empty}})
  /\ fault' = UseMessage(m)
  /\ UNCHANGED sendVars

\* size, content_size, encode, print, eql?: only read a message that is owned.
MessageRead(m) ==
  /\ MayUse(m)
  /\ fault' = IF m \in message_owned THEN UseMessage(m) ELSE "none"
  /\ UNCHANGED <<frameVars, messageVars, sendVars>>

\* first, next, last and to_a hand the program the wrapper of a frame.
MessageFrame(m, f) ==
  /\ MayUse(m) /\ m \in message_owned
  /\ f \in ToSet(frames[m])
  /\ frame_value' = [frame_value EXCEPT ![f] = "held"]
  /\ fault' = IF frame_value[f] = "freed" THEN "freed_wrapper" ELSE "none"
  /\ UNCHANGED <<frame, frame_owned, frame_message, zframe, empty, messageVars,
                 sendVars>>

TakeOwnershipSwapped(m, f) ==
  /\ MayUse(m) /\ m \in message_owned
  /\ MayUseFrame(f) /\ f \in frame_owned
  /\ frame_message' = [frame_message EXCEPT ![f] = f]
  /\ frame_owned' = frame_owned \ {f}
  /\ fault' = FirstFault(UseList(m), UseFrame(f))
  /\ UNCHANGED <<frame_value, frame, zframe, empty, message_value, message_owned,
                 zmsg, sendVars>>

\* What push and add have in common.
TakeOwnership(m, f) ==
  /\ MayUse(m) /\ m \in message_owned
  /\ MayUseFrame(f) /\ f \in frame_owned
  /\ frame_message' = [frame_message EXCEPT ![f] = m]
  /\ frame_owned' = frame_owned \ {f}
  /\ fault' = FirstFault(UseList(m), UseFrame(f))
  /\ UNCHANGED <<frame_value, frame, zframe, empty, message_value, message_owned,
                 zmsg, sendVars>>

MessagePushKeepsOwned(m, f) ==
  /\ MayUse(m) /\ m \in message_owned
  /\ MayUseFrame(f) /\ f \in frame_owned
  /\ frame_message' = [frame_message EXCEPT ![f] = m]
  /\ zframes' = [zframes EXCEPT ![m] = <<f>> \o @]
  /\ frames' = [frames EXCEPT ![m] = <<f>> \o @]
  /\ fault' = FirstFault(UseList(m), UseFrame(f))
  /\ UNCHANGED <<frame_value, frame, frame_owned, zframe, empty, message_value,
                 message_owned, zmsg, sendVars>>

MessagePush(m, f) ==
  /\ TakeOwnership(m, f)
  /\ zframes' = [zframes EXCEPT ![m] = <<f>> \o @]
  /\ frames' = [frames EXCEPT ![m] = <<f>> \o @]

MessageAdd(m, f) ==
  /\ TakeOwnership(m, f)
  /\ zframes' = [zframes EXCEPT ![m] = Append(@, f)]
  /\ frames' = [frames EXCEPT ![m] = Append(@, f)]

\* pushstr and addstr make the frame, which no Ruby variable refers to.
MessagePushStr(m) ==
  /\ MayUse(m) /\ m \in message_owned /\ Room(1)
  /\ \E empties \in SUBSET NextFrames(1) : AllocFrames(NextFrames(1), m, empties)
  /\ zframes' = [zframes EXCEPT ![m] = <<MadeFrames + 1>> \o @]
  /\ frames' = [frames EXCEPT ![m] = <<MadeFrames + 1>> \o @]
  /\ fault' = UseList(m)
  /\ UNCHANGED <<message_value, message_owned, zmsg, sendVars>>

MessageAddStr(m) ==
  /\ MayUse(m) /\ m \in message_owned /\ Room(1)
  /\ \E empties \in SUBSET NextFrames(1) : AllocFrames(NextFrames(1), m, empties)
  /\ zframes' = [zframes EXCEPT ![m] = Append(@, MadeFrames + 1)]
  /\ frames' = [frames EXCEPT ![m] = Append(@, MadeFrames + 1)]
  /\ fault' = UseList(m)
  /\ UNCHANGED <<message_value, message_owned, zmsg, sendVars>>

\* The caller gets wrapper f back: it belongs to no message, Ruby frees it.
ReleaseTo(f) ==
  /\ frame_message' = [frame_message EXCEPT ![f] = Nil]
  /\ frame_owned' = frame_owned \cup {f}

MessagePopNotOwned(m) ==
  /\ MayUse(m) /\ m \in message_owned
  /\ zframes[m] # <<>>
  /\ frame_message' = [frame_message EXCEPT ![Head(frames[m])] = Nil]
  /\ frame_value' = [frame_value EXCEPT ![Head(frames[m])] = "held"]
  /\ zframes' = [zframes EXCEPT ![m] = Tail(@)]
  /\ frames' = [frames EXCEPT ![m] = Tail(@)]
  /\ fault' = UseList(m)
  /\ UNCHANGED <<frame, frame_owned, zframe, empty, message_value, message_owned, zmsg,
                 sendVars>>

MessagePop(m) ==
  /\ MayUse(m) /\ m \in message_owned
  /\ zframes[m] # <<>>
  /\ ReleaseTo(Head(frames[m]))
  /\ frame_value' = [frame_value EXCEPT ![Head(frames[m])] = "held"]
  /\ zframes' = [zframes EXCEPT ![m] = Tail(@)]
  /\ frames' = [frames EXCEPT ![m] = Tail(@)]
  /\ fault' = UseList(m)
  /\ UNCHANGED <<frame, zframe, empty, message_value, message_owned, zmsg,
                 sendVars>>

\* zmsg_remove compares pointers and finds nothing to remove for a stranger;
\* the wrapper is released all the same.
MessageRemove(m, f) ==
  /\ MayUse(m) /\ m \in message_owned /\ MayUseFrame(f)
  /\ f \in ToSet(frames[m]) \/ "remove_a_stranger" \in Risky
  /\ zframes' = [zframes EXCEPT ![m] = IF f \in frame THEN RemoveFirst(@, f) ELSE @]
  /\ frames' = [frames EXCEPT ![m] = RemoveFirst(@, f)]
  /\ ReleaseTo(f)
  /\ fault' = UseList(m)
  /\ UNCHANGED <<frame_value, frame, zframe, empty, message_value,
                 message_owned, zmsg, sendVars>>

\* May czmq destroy frame f although its wrapper stays as it is?
MayConsume(f) ==
  frame_value[f] # "held" \/ "keep_what_was_consumed" \in Risky

MessagePopStrKeepsWrapper(m) ==
  /\ MayUse(m) /\ m \in message_owned
  /\ zframes[m] # <<>> /\ MayConsume(Head(frames[m]))
  /\ FreeZframes({Head(zframes[m])})
  /\ zframes' = [zframes EXCEPT ![m] = Tail(@)]
  /\ fault' = UseMembers(m, {Head(zframes[m])})
  /\ UNCHANGED <<frame_value, frame, frame_owned, frame_message, empty,
                 message_value, message_owned, zmsg, frames, sendVars>>

\* zmsg_popstr destroys the czmq frame; the wrapper leaves the list only.
MessagePopStr(m) ==
  /\ MayUse(m) /\ m \in message_owned
  /\ zframes[m] # <<>> /\ MayConsume(Head(frames[m]))
  /\ FreeZframes({Head(zframes[m])})
  /\ zframes' = [zframes EXCEPT ![m] = Tail(@)]
  /\ frames' = [frames EXCEPT ![m] = Tail(@)]
  /\ fault' = UseMembers(m, {Head(zframes[m])})
  /\ UNCHANGED <<frame_value, frame, frame_owned, frame_message, empty,
                 message_value, message_owned, zmsg, sendVars>>

\* Push frame f and a new empty frame; f may belong to a message already.
MessageWrap(m, f) ==
  /\ MayUse(m) /\ m \in message_owned
  /\ MayUseFrame(f) /\ ~FrameGone(f) /\ Room(1)
  /\ f \in frame_owned \/ "wrap_a_member" \in Risky
  /\ LET e == MadeFrames + 1
     IN /\ frame_value' = [frame_value EXCEPT ![e] = "dropped"]
        /\ frame' = frame \cup {e}
        /\ frame_owned' = frame_owned \ {f}
        /\ frame_message' = [frame_message EXCEPT ![e] = m, ![f] = m]
        /\ zframe' = [zframe EXCEPT ![e] = "live"]
        /\ empty' = empty \cup {e}
        /\ zframes' = [zframes EXCEPT ![m] = <<f, e>> \o @]
        /\ frames' = [frames EXCEPT ![m] = <<f, e>> \o @]
  /\ fault' = FirstFault(UseList(m), AccessFrame(f))
  /\ UNCHANGED <<message_value, message_owned, zmsg, sendVars>>

\* Pop the first frame for the caller and, if the next one is empty, destroy
\* that. zframe_size aborts when there is no next one.
MessageUnwrap(m) ==
  /\ MayUse(m) /\ m \in message_owned
  /\ Len(zframes[m]) >= 2 \/ "unwrap_a_short_message" \in Risky
  /\ IF Len(zframes[m]) < 2
     THEN /\ fault' = "null_frame"
          /\ UNCHANGED <<frameVars, messageVars>>
     ELSE LET next == zframes[m][2]
              eaten == IF next \in empty THEN 2 ELSE 1
          IN /\ eaten = 2 => MayConsume(frames[m][2])
             /\ FreeZframes(IF eaten = 2 THEN {next} ELSE {})
             /\ ReleaseTo(Head(frames[m]))
             /\ frame_value' = [frame_value EXCEPT ![Head(frames[m])] = "held"]
             /\ zframes' = [zframes EXCEPT ![m] = SubSeq(@, eaten + 1, Len(@))]
             /\ frames' = [frames EXCEPT ![m] = SubSeq(@, eaten + 1, Len(@))]
             /\ fault' = UseMembers(m, {next})
             /\ UNCHANGED <<frame, empty, message_value, message_owned, zmsg>>
  /\ UNCHANGED sendVars

\* rb_czmq_free_message, but for the wrapper list.
FreeMessage(m) ==
  /\ IF m \in message_owned
     THEN /\ FreeZframes(ToSet(zframes[m]))
          /\ zmsg' = [zmsg EXCEPT ![m] = "freed"]
          /\ zframes' = [zframes EXCEPT ![m] = <<>>]
          /\ fault' = UseMessage(m)
     ELSE UNCHANGED <<zframe, zmsg, zframes, fault>>
  /\ message_owned' = message_owned \ {m}
  /\ frames' = [frames EXCEPT ![m] = <<>>]

MessageDestroy(m) ==
  /\ MayUse(m) /\ m \in message_owned
  /\ FreeMessage(m)
  /\ UNCHANGED <<frame_value, frame, frame_owned, frame_message, empty,
                 message_value, sendVars>>

-----------------------------------------------------------------------------
(* sock.send_frame and sock.send_message release the GVL for the sending   *)

NotSending(t) == sending[t] = Nil /\ sending_frame[t] = Nil

SendFrame(t, f) ==
  /\ MayUseFrame(f) /\ f \in frame_owned
  /\ NotSending(t)
  /\ sending_frame' = [sending_frame EXCEPT ![t] = f]
  /\ UNCHANGED <<frameVars, messageVars, sending, sent, fault>>

\* zframe_send destroys the frame, unless it fails or is told to REUSE it:
\* then the call is over.
NogvlSendFrame(t) ==
  /\ Alive /\ sending_frame[t] # Nil /\ t \notin sent
  /\ fault' = UseFrame(sending_frame[t])
  /\ \/ /\ FreeZframes({sending_frame[t]})
        /\ sent' = sent \cup {t}
        /\ UNCHANGED sending_frame
     \/ /\ sending_frame' = [sending_frame EXCEPT ![t] = Nil]
        /\ UNCHANGED <<zframe, sent>>
  /\ UNCHANGED <<frame_value, frame, frame_owned, frame_message, empty,
                 messageVars, sending>>

SentFrameKeepsOwned(t) ==
  /\ Alive /\ t \in sent /\ sending_frame[t] # Nil
  /\ sending_frame' = [sending_frame EXCEPT ![t] = Nil]
  /\ sent' = sent \ {t}
  /\ UNCHANGED <<frameVars, messageVars, sending, fault>>

\* What Thread#raise leaves of a set of owners: it unwinds the call where that
\* takes the GVL back, before the flag of `gone` is cleared.
Disowned(owners, gone) ==
  {owners \ {gone}} \cup (IF "interrupt_a_send" \in Risky THEN {owners} ELSE {})

\* Back with the GVL: the frame is gone.
SentFrame(t) ==
  /\ Alive /\ t \in sent /\ sending_frame[t] # Nil
  /\ \E owned \in Disowned(frame_owned, sending_frame[t]) : frame_owned' = owned
  /\ sending_frame' = [sending_frame EXCEPT ![t] = Nil]
  /\ sent' = sent \ {t}
  /\ UNCHANGED <<frame_value, frame, frame_message, zframe, empty, messageVars,
                 sending, fault>>

SendMessage(t, m) ==
  /\ MayUse(m) /\ m \in message_owned
  /\ NotSending(t)
  /\ sending' = [sending EXCEPT ![t] = m]
  /\ UNCHANGED <<frameVars, messageVars, sending_frame, sent, fault>>

\* zmsg_send sends and destroys every frame, then the zmsg_t.
NogvlSendMessage(t) ==
  /\ Alive /\ sending[t] # Nil /\ t \notin sent
  /\ LET m == sending[t]
     IN /\ FreeZframes(ToSet(zframes[m]))
        /\ zmsg' = [zmsg EXCEPT ![m] = "freed"]
        /\ zframes' = [zframes EXCEPT ![m] = <<>>]
        /\ fault' = UseMessage(m)
  /\ sent' = sent \cup {t}
  /\ UNCHANGED <<frame_value, frame, frame_owned, frame_message, empty,
                 message_value, message_owned, frames, sending, sending_frame>>

\* Back with the GVL: the message is gone.
SentMessage(t) ==
  /\ Alive /\ t \in sent /\ sending[t] # Nil
  /\ \E owned \in Disowned(message_owned, sending[t]) : message_owned' = owned
  /\ sending' = [sending EXCEPT ![t] = Nil]
  /\ sent' = sent \ {t}
  /\ UNCHANGED <<frameVars, message_value, zmsg, zframes, frames, sending_frame,
                 fault>>

-----------------------------------------------------------------------------
(* The garbage collector                                                   *)

MessageReachable(m) ==
  message_value[m] = "held" \/ \E t \in Threads : sending[t] = m

FrameReachableUnmarked(f) ==
  frame_value[f] = "held" \/ \E t \in Threads : sending_frame[t] = f

\* rb_czmq_mark_message keeps the wrappers in the list of a live message; a
\* wrapper does not keep its message.
FrameReachable(f) ==
  \/ frame_value[f] = "held"
  \/ \E t \in Threads : sending_frame[t] = f
  \/ \E m \in Messages : MessageReachable(m) /\ f \in ToSet(frames[m])

\* A wrapper waits for the collector once the program has forgotten it.
DropFrame(f) ==
  /\ Alive /\ frame_value[f] = "held"
  /\ frame_value' = [frame_value EXCEPT ![f] = "dropped"]
  /\ UNCHANGED <<frame, frame_owned, frame_message, zframe, empty, messageVars,
                 sendVars, fault>>

DropMessage(m) ==
  /\ Alive /\ message_value[m] = "held"
  /\ \/ "outlive_the_message" \in Risky
     \/ \A f \in Frames : frame_value[f] = "held" => frame_message[f] # m
  /\ message_value' = [message_value EXCEPT ![m] = "dropped"]
  /\ UNCHANGED <<frameVars, message_owned, zmsg, zframes, frames, sendVars,
                 fault>>

FreeFrameGc(f) ==
  /\ Alive /\ frame_value[f] = "dropped" /\ ~FrameReachable(f)
  /\ FreeFrame(f)
  /\ frame_value' = [frame_value EXCEPT ![f] = "freed"]
  /\ UNCHANGED <<frame_message, empty, messageVars, sendVars>>

FreeMessageGc(m) ==
  /\ Alive /\ message_value[m] = "dropped" /\ ~MessageReachable(m)
  /\ FreeMessage(m)
  /\ message_value' = [message_value EXCEPT ![m] = "freed"]
  /\ UNCHANGED <<frame_value, frame, frame_owned, frame_message, empty,
                 sendVars>>

-----------------------------------------------------------------------------
FrameNext ==
  \/ FrameNew
  \/ \E f \in Frames : \/ FrameDup(f) \/ FrameRead(f) \/ FrameReset(f)
                       \/ FrameDestroy(f)
                       \/ \E other \in Frames : FrameCompare(f, other)

MessageNext ==
  \/ MessageNew
  \/ \E m \in Messages : \/ MessageDup(m) \/ MessageRead(m)
                         \/ MessagePushStr(m) \/ MessageAddStr(m)
                         \/ MessagePop(m) \/ MessagePopStr(m)
                         \/ MessageUnwrap(m) \/ MessageDestroy(m)
  \/ \E m \in Messages, f \in Frames : \/ MessageFrame(m, f)
                                       \/ MessagePush(m, f) \/ MessageAdd(m, f)
                                       \/ MessageRemove(m, f)
                                       \/ MessageWrap(m, f)

SendNext ==
  \E t \in Threads : \/ \E f \in Frames : SendFrame(t, f)
                     \/ NogvlSendFrame(t) \/ SentFrame(t)
                     \/ \E m \in Messages : SendMessage(t, m)
                     \/ NogvlSendMessage(t) \/ SentMessage(t)

GcNext ==
  \/ \E f \in Frames : DropFrame(f) \/ FreeFrameGc(f)
  \/ \E m \in Messages : DropMessage(m) \/ FreeMessageGc(m)

Next == FrameNext \/ MessageNext \/ SendNext \/ GcNext

Spec == Init /\ [][Next]_vars

-----------------------------------------------------------------------------
(* Properties                                                              *)

\* No method reads or frees a frame, a message or a wrapper that is freed, or hands
\* czmq a frame that is not there, which aborts the process (message.c:526).
NoBadAccess == fault = "none"

\* Who will free the czmq frame f: its wrapper, and every message it is in.
FreedBy(f) ==
  {m \in Messages : zmsg[m] = "live" /\ f \in ToSet(zframes[m])}
    \cup (IF f \in frame_owned THEN {Nil} ELSE {})

\* A live czmq frame has one owner: adding it to a message takes it from Ruby
\* and taking it out gives it back, so it is freed once (frame.h:6, 11).
OneOwner ==
  Alive => \A f \in Frames : Cardinality(FreedBy(f)) <= 1

\* Nothing leaks: a live czmq frame is owned by a wrapper or a message that
\* the collector has not freed, and that frees what it owns.
NothingLeaks ==
  Alive => \A f \in Frames : zframe[f] = "live" =>
    \/ f \in frame_owned /\ f \in frame /\ frame_value[f] # "freed"
    \/ \E m \in FreedBy(f) \ {Nil} :
         /\ m \in message_owned /\ message_value[m] # "freed"

\* The wrapper list of a message mirrors its czmq frames (message.c:383), as
\* long as Ruby owns it; that is what first, pop and to_a go by.
ListsMirror ==
  \A m \in message_owned :
    zmsg[m] = "live" => frames[m] = zframes[m]

\* A wrapper whose czmq frame is destroyed, or that lost its pointer, says
\* gone?, which guards every accessor but the operand of <=> (frame.c:316, 382).
DestroyedIsGone ==
  Alive => \A f \in Frames :
    /\ frame_value[f] = "held"
    /\ f \notin frame \/ zframe[f] = "freed"
    /\ \A t \in Threads : /\ sending_frame[t] # f
                          /\ sending[t] = Nil \/ sending[t] # frame_message[f]
    => FrameGone(f)

=============================================================================
