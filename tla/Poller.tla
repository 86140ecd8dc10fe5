-------------------------------- MODULE Poller --------------------------------
(***************************************************************************)
(* ZMQ::Poller and its poll items (ext/rbczmq/poller.c, pollitem.c).       *)
(*                                                                         *)
(* A poller keeps the Ruby array of registered items, a count of them, and *)
(* a C array, the pollset, copied from the items when they have changed.   *)
(* poll runs zmq_poll on the pollset without the GVL, so other threads run *)
(* between its three parts.  Sockets here are past the pending state.      *)
(* A definition named for a fault (...NotDirty, ...OnlyCounts) is a wrong   *)
(* version of the one after it, for the check that a property notices.     *)
(***************************************************************************)
EXTENDS Naturals, FiniteSets, Sequences, SequencesExt, Selection

CONSTANTS
  Threads,       \* Ruby threads
  SocketThread,  \* the thread that made the sockets
  Sockets,       \* ZMQ::Socket objects
  IOs,           \* Ruby IO objects
  MaxItems,      \* ZMQ::Pollitem objects are numbered as they are made
  MaxLength,     \* the most entries of a poller
  MaxBuilds,     \* how often the pollset is rebuilt
  Nil,
  Risky          \* what the program does although it ought not to

RiskyUses ==
  { "share_while_polling",    \* use a poller another thread polls
    "register_twice",         \* register an item that is registered
    "watch_what_is_closed" }  \* leave or make it the item of a closed socket

Pollables == Sockets \cup IOs
Items == 1..MaxItems
Events == {"POLLIN", "POLLOUT"}

ASSUME ConstantsAssumption ==
  /\ SocketThread \in Threads
  /\ Sockets \cap IOs = {}
  /\ MaxItems \in Nat /\ MaxLength \in Nat /\ MaxBuilds \in Nat
  /\ Risky \subseteq RiskyUses
  /\ Nil \notin Nat \cup Sockets \cup IOs \cup {"ready", "none", "failed"}
  /\ \A n \in 0..MaxLength : Nil \notin [1..n -> SUBSET Events]

VARIABLES
  open,       \* the pollables that are not closed
  pollable,   \* [Items -> Pollables or Nil], Nil for an item not made yet
  events      \* [Items -> SUBSET Events]

VARIABLES
  pollables,  \* Seq(Items), the Ruby array
  poll_size,  \* what the poller believes its length to be
  pollset,    \* Seq(Items), the items the C array was copied from
  revents,    \* what zmq_poll wrote there, [1..k -> SUBSET Events], or Nil
  builds,     \* how often the C array was allocated, which names it
  dirty,
  readables,  \* Seq(Pollables)
  writables,
  verbose

VARIABLES
  poll_args,  \* [Threads -> the array a poll call works on, or Nil]
  poll_rc,    \* [Threads -> what zmq_poll returned, or Nil]
  polled,     \* what the last zmq_poll found ready, a set of <<pollable, event>>
  fault       \* what went wrong with memory, or "none"

itemVars == <<open, pollable, events>>
registerVars == <<pollables, poll_size, dirty>>
pollsetVars == <<pollset, revents, builds>>
resultVars == <<readables, writables>>
callVars == <<poll_args, poll_rc, polled>>
vars == <<itemVars, registerVars, pollsetVars, resultVars, verbose, callVars,
          fault>>

Faults == {"none", "freed_pollset", "past_the_pollset", "unset_revents",
           "closed_socket"}

TypeOK ==
  /\ open \subseteq Pollables
  /\ pollable \in [Items -> Pollables \cup {Nil}]
  /\ events \in [Items -> SUBSET Events]
  /\ pollables \in Seq(Items) /\ pollset \in Seq(Items)
  /\ poll_size \in 0..MaxLength
  /\ revents = Nil \/ revents \in [1..Len(pollset) -> SUBSET Events]
  /\ builds \in 0..MaxBuilds
  /\ dirty \in BOOLEAN /\ verbose \in BOOLEAN
  /\ readables \in Seq(Pollables) /\ writables \in Seq(Pollables)
  /\ poll_args \in [Threads -> 0..MaxBuilds \cup {Nil}]
  /\ poll_rc \in [Threads -> {"ready", "none", "failed", Nil}]
  /\ polled \subseteq Pollables \X Events
  /\ fault \in Faults

Init ==
  /\ open = Pollables
  /\ pollable = [i \in Items |-> Nil] /\ events = [i \in Items |-> {}]
  /\ pollables = <<>> /\ poll_size = 0 /\ dirty = FALSE /\ verbose = FALSE
  /\ pollset = <<>> /\ revents = Nil /\ builds = 0
  /\ readables = <<>> /\ writables = <<>>
  /\ poll_args = [t \in Threads |-> Nil] /\ poll_rc = [t \in Threads |-> Nil]
  /\ polled = {} /\ fault = "none"

-----------------------------------------------------------------------------
(* Guards                                                                  *)

Made == {i \in Items : pollable[i] # Nil}
NextItem == Cardinality(Made) + 1
Watched == {pollable[i] : i \in ToSet(pollables)}

\* May thread t call a method of the poller?
MayUse(t) ==
  /\ fault = "none" /\ poll_args[t] = Nil
  /\ "share_while_polling" \in Risky \/ \A u \in Threads : poll_args[u] = Nil

\* Can thread t make a poll item for p?  Else ZMQ::Pollitem.new raises.
CanWrap(t, p) == p \in open /\ (p \in Sockets => t = SocketThread)

-----------------------------------------------------------------------------
(* Poll items                                                              *)

\* rb_czmq_pollitem_s_new.
MakeItem(t, p, evts) ==
  /\ CanWrap(t, p) /\ NextItem \in Items
  /\ pollable' = [pollable EXCEPT ![NextItem] = p]
  /\ events' = [events EXCEPT ![NextItem] = evts]
  /\ UNCHANGED open

PollitemNew(t, p, evts) ==
  /\ fault = "none" /\ poll_args[t] = Nil
  /\ MakeItem(t, p, evts)
  /\ UNCHANGED <<registerVars, pollsetVars, resultVars, verbose, callVars, fault>>

\* The program closes a socket or an IO; a poll item keeps its raw pointer.
Close(t, p) ==
  /\ fault = "none" /\ poll_args[t] = Nil
  /\ CanWrap(t, p)
  /\ p \notin Watched \/ "watch_what_is_closed" \in Risky
  /\ open' = open \ {p}
  /\ UNCHANGED <<pollable, events, registerVars, pollsetVars, resultVars, verbose,
                 callVars, fault>>

-----------------------------------------------------------------------------
(* Registration                                                            *)

AddItemNotDirty(i) ==
  /\ Len(pollables) < MaxLength /\ poll_size < MaxLength
  /\ i \notin ToSet(pollables) \/ "register_twice" \in Risky
  /\ pollables' = Append(pollables, i)
  /\ poll_size' = poll_size + 1
  /\ UNCHANGED dirty

AddItem(i) ==
  /\ Len(pollables) < MaxLength /\ poll_size < MaxLength
  /\ i \notin ToSet(pollables) \/ "register_twice" \in Risky
  /\ pollables' = Append(pollables, i)
  /\ poll_size' = poll_size + 1
  /\ dirty' = TRUE

\* Passing verbosity on raises for the item of a closed socket.
RegisterItem(t, i) ==
  /\ MayUse(t) /\ i \in Made
  /\ \/ pollable[i] \in open
     \/ "watch_what_is_closed" \in Risky /\ ~(verbose /\ pollable[i] \in Sockets)
  /\ AddItem(i)
  /\ UNCHANGED <<itemVars, pollsetVars, resultVars, verbose, callVars, fault>>

\* register of a socket or an IO makes the item first.
RegisterPollable(t, p) ==
  /\ MayUse(t)
  /\ MakeItem(t, p, Events)
  /\ AddItem(NextItem)
  /\ UNCHANGED <<pollsetVars, resultVars, verbose, callVars, fault>>

\* The first position whose item is about p, one that is counted.
FirstMatch(p, pos) ==
  /\ pos \in DOMAIN pollables /\ pos <= poll_size
  /\ pollable[pollables[pos]] = p
  /\ \A k \in 1..pos - 1 : pollable[pollables[k]] # p

\* rb_ary_delete takes out every entry equal to the item.
Without(i) == EntriesAt(pollables, {k \in DOMAIN pollables : pollables[k] # i})

DeleteMatchNotDirty(p) ==
  \E pos \in DOMAIN pollables :
    /\ FirstMatch(p, pos)
    /\ pollables' = Without(pollables[pos])
    /\ poll_size' = poll_size - 1
    /\ UNCHANGED dirty

\* The first match and its equals go, and one is counted.  Without a match
\* nothing changes.
DeleteMatch(p) ==
  \E pos \in DOMAIN pollables :
    /\ FirstMatch(p, pos)
    /\ pollables' = Without(pollables[pos])
    /\ poll_size' = poll_size - 1
    /\ dirty' = TRUE

\* remove of an item, which need not be registered itself.
RemoveItem(t, i) ==
  /\ MayUse(t) /\ i \in Made
  /\ DeleteMatch(pollable[i])
  /\ UNCHANGED <<itemVars, pollsetVars, resultVars, verbose, callVars, fault>>

\* remove of a socket or an IO makes an item to compare with, and drops it.
RemovePollable(t, p) ==
  /\ MayUse(t) /\ CanWrap(t, p)
  /\ DeleteMatch(p)
  /\ UNCHANGED <<itemVars, pollsetVars, resultVars, verbose, callVars, fault>>

SetVerbose(t) ==
  /\ MayUse(t)
  /\ \E level \in BOOLEAN : verbose' = level
  /\ UNCHANGED <<itemVars, registerVars, pollsetVars, resultVars, callVars, fault>>

-----------------------------------------------------------------------------
(* poll                                                                    *)

RebuildPollsetKeepsRevents ==
  /\ builds < MaxBuilds /\ builds' = builds + 1
  /\ pollset' = SubSeq(pollables, 1, poll_size)
  /\ dirty' = FALSE
  /\ UNCHANGED revents

\* rb_czmq_poller_rebuild_pollset: the old array is freed.  It raises when it
\* gets past the end of the Ruby array.
RebuildPollset ==
  /\ builds < MaxBuilds /\ builds' = builds + 1
  /\ revents' = Nil
  /\ pollset' = SubSeq(pollables, 1, poll_size)
  /\ dirty' = FALSE

\* Up to the release of the GVL.
Poll(t) ==
  /\ MayUse(t)
  /\ poll_size > 0 /\ poll_size <= Len(pollables)
  /\ IF dirty THEN RebuildPollset ELSE UNCHANGED <<pollsetVars, dirty>>
  /\ poll_args' = [poll_args EXCEPT ![t] = builds']
  /\ readables' = <<>> /\ writables' = <<>>
  /\ UNCHANGED <<itemVars, pollables, poll_size, verbose, poll_rc, polled, fault>>

\* The rebuild raises half way: there is a new array, and it stays dirty.
PollRaises(t) ==
  /\ MayUse(t)
  /\ dirty /\ poll_size > Len(pollables)
  /\ builds < MaxBuilds /\ builds' = builds + 1
  /\ pollset' = <<>> /\ revents' = Nil
  /\ UNCHANGED <<itemVars, registerVars, resultVars, verbose, callVars, fault>>

\* zmq_poll, which the thread may be in while everyone else runs.  It reports
\* some of the events asked for, or none in time, or fails (a signal came).
NogvlPoll(t) ==
  /\ fault = "none" /\ poll_args[t] # Nil /\ poll_rc[t] = Nil
  /\ IF poll_args[t] # builds
     THEN fault' = "freed_pollset" /\ UNCHANGED <<revents, poll_rc, polled>>
     ELSE IF \E i \in ToSet(pollset) : pollable[i] \notin open
     THEN fault' = "closed_socket" /\ UNCHANGED <<revents, poll_rc, polled>>
     ELSE /\ revents' \in {r \in [DOMAIN pollset -> SUBSET Events] :
                             \A k \in DOMAIN pollset : r[k] \subseteq events[pollset[k]]}
          /\ polled' = UNION {{pollable[pollset[k]]} \X revents'[k] : k \in DOMAIN pollset}
          /\ \E rc \in IF polled' # {} THEN {"ready"} ELSE {"none", "failed"} :
               poll_rc' = [poll_rc EXCEPT ![t] = rc]
          /\ UNCHANGED fault
  /\ UNCHANGED <<itemVars, registerVars, pollset, builds, resultVars, verbose,
                 poll_args>>

SelectablesOffByOne(event) ==
  EntriesAt([k \in DOMAIN pollables |-> pollable[pollables[k]]],
            {k \in DOMAIN pollables : k < poll_size /\ event \in revents[k]})

\* The pollables of the entries the array reports the event for, in order.  It
\* raises when it gets past the end of the Ruby array, with these in place.
Selectables(event) ==
  EntriesAt([k \in DOMAIN pollables |-> pollable[pollables[k]]],
            {k \in DOMAIN pollables : k <= poll_size /\ event \in revents[k]})

\* rb_czmq_poller_rebuild_selectables goes by what the poller holds now, not
\* by the array that was polled.
RebuildSelectables ==
  /\ readables' = Selectables("POLLIN")
  /\ writables' = Selectables("POLLOUT")

\* Back with the GVL.
PollReturn(t) ==
  /\ fault = "none" /\ poll_rc[t] # Nil
  /\ IF poll_rc[t] # "ready" THEN UNCHANGED <<resultVars, fault>>
     ELSE IF revents = Nil
     THEN fault' = "unset_revents" /\ UNCHANGED resultVars
     ELSE IF poll_size > Len(pollset)
     THEN fault' = "past_the_pollset" /\ UNCHANGED resultVars
     ELSE RebuildSelectables /\ UNCHANGED fault
  /\ poll_args' = [poll_args EXCEPT ![t] = Nil]
  /\ poll_rc' = [poll_rc EXCEPT ![t] = Nil]
  /\ UNCHANGED <<itemVars, registerVars, pollsetVars, verbose, polled>>

-----------------------------------------------------------------------------
Next ==
  \E t \in Threads :
    \/ \E p \in Pollables :
         \/ \E evts \in SUBSET Events \ {{}} : PollitemNew(t, p, evts)
         \/ Close(t, p) \/ RegisterPollable(t, p) \/ RemovePollable(t, p)
    \/ \E i \in Items : RegisterItem(t, i) \/ RemoveItem(t, i)
    \/ SetVerbose(t) \/ Poll(t) \/ PollRaises(t) \/ NogvlPoll(t) \/ PollReturn(t)

Spec == Init /\ [][Next]_vars

-----------------------------------------------------------------------------
(* Properties                                                              *)

\* zmq_poll and what reads its answer stay within the array that was built for
\* the call, and never look at a socket that is closed.
NoBadPoll == fault = "none"

\* The pollset is the registered items whenever poll would not rebuild it: no
\* change of the registration goes unnoticed (poller.c:34).
PollsetFresh == ~dirty => pollset = pollables

\* Between polls, readables and writables are what the last poll found ready,
\* also after items come and go (poller.c:250, 270).
ReadablesAsPolled ==
  fault = "none" /\ (\A t \in Threads : poll_args[t] = Nil) =>
    polled = (ToSet(readables) \X {"POLLIN"}) \cup (ToSet(writables) \X {"POLLOUT"})

=============================================================================
