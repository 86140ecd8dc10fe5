------------------------------- MODULE Beacon -------------------------------
(***************************************************************************)
(* ZMQ::Beacon (ext/rbczmq/beacon.c): a wrapper around a zbeacon_t that    *)
(* any thread may use and the collector frees, and the ZMQ::Socket objects *)
(* that beacon.pipe makes, one at each call, all of them around the one    *)
(* socket that the zbeacon_t talks to its agent through.                   *)
(***************************************************************************)
EXTENDS Naturals, FiniteSets

CONSTANTS
  Threads, Main,  \* a careful program leaves the beacon to Main
  GC,             \* the free callback of a beacon that was forgotten
  Pipes,          \* the wrappers that beacon.pipe may make
  Risky           \* what the program does although nothing guards it

RiskyUses == {"share", "use_what_was_destroyed", "keep_only_the_pipe"}

NoThread == "no_thread"

ASSUME ConstantsAssumption ==
  /\ Main \in Threads /\ GC \notin Threads /\ NoThread \notin Threads
  /\ Risky \subseteq RiskyUses

Actors == Threads \cup {GC}

VARIABLES
  held,           \* the program refers to the beacon
  pointer,        \* beacon->beacon: "set" or "NULL"
  zbeacon,        \* what it points to: "live" or "freed"
  at,             \* where each actor is
  asked,          \* some thread has called beacon.destroy
  owner,          \* sock->thread of each pipe, or NoThread
  closed,         \* pipes with the DESTROYED flag
  kept,           \* pipes the program refers to
  fault           \* the first step that aborts or uses freed memory

beaconVars == <<held, pointer, zbeacon, asked>>
pipeVars == <<owner, closed, kept>>
vars == <<beaconVars, pipeVars, at, fault>>

Made == {p \in Pipes : owner[p] # NoThread}

\* "destroy" and "command" are on the way to czmq, "destroying", "commanding" and
\* "receiving" inside.
Places == {"ruby", "destroy", "destroying", "command", "commanding", "receiving", "over"}

TypeOK ==
  /\ held \in BOOLEAN /\ asked \in BOOLEAN
  /\ pointer \in {"set", "NULL"} /\ zbeacon \in {"live", "freed"}
  /\ at \in [Actors -> Places]
  /\ owner \in [Pipes -> Threads \cup {NoThread}]
  /\ closed \in SUBSET Made /\ kept \in SUBSET Made
  /\ fault \in {"none", "NULL_beacon", "freed_beacon", "destroyed_twice",
                "two_in_the_pipe", "freed_pipe"}
  /\ at[GC] # "ruby" => ~held
  \* outside of destroy the pointer is honest
  /\ fault = "none" /\ (\A a \in Actors : at[a] # "destroying") =>
       (pointer = "set" <=> zbeacon = "live")

Init ==
  /\ held = TRUE /\ pointer = "set" /\ zbeacon = "live" /\ asked = FALSE
  /\ at = [a \in Actors |-> "ruby"]
  /\ owner = [p \in Pipes |-> NoThread] /\ closed = {} /\ kept = {}
  /\ fault = "none"

-----------------------------------------------------------------------------
Alive == fault = "none"
Goes(a, place) == at' = [at EXCEPT ![a] = place]
Fails(what) == fault' = what /\ UNCHANGED at

\* The zbeacon_t and the pipes have one socket between them.
InPipe == {"commanding", "receiving", "destroying"}
PipeInUse(a) == \E b \in Actors \ {a} : at[b] \in InPipe

\* The program takes up the beacon, or one of its pipes.
MayUse(t) ==
  /\ at[t] = "ruby"
  /\ t = Main \/ "share" \in Risky
  /\ asked => "use_what_was_destroyed" \in Risky

-----------------------------------------------------------------------------
(* Destroying                                                              *)

\* beacon.destroy may be called again, as the tests do.
BeaconDestroy(t) ==
  /\ Alive /\ held /\ at[t] = "ruby" /\ (t = Main \/ "share" \in Risky)
  /\ asked' = TRUE
  /\ Goes(t, "destroy")
  /\ UNCHANGED <<held, pointer, zbeacon, pipeVars, fault>>

\* The test of the pointer, without the GVL.
NogvlBeaconDestroy(a) ==
  /\ Alive /\ at[a] = "destroy"
  /\ CASE pointer = "NULL" -> Goes(a, "over") /\ UNCHANGED fault
       [] pointer = "set" /\ zbeacon = "freed" -> Fails("destroyed_twice")
       [] pointer = "set" /\ zbeacon = "live" /\ PipeInUse(a) -> Fails("two_in_the_pipe")
       [] OTHER -> Goes(a, "destroying") /\ UNCHANGED fault
  /\ UNCHANGED <<beaconVars, pipeVars>>

ZbeaconDestroyKeepsPointer(a) ==
  /\ Alive /\ at[a] = "destroying"
  /\ zbeacon' = "freed" /\ Goes(a, "over")
  /\ UNCHANGED <<held, pointer, asked, pipeVars, fault>>

\* zbeacon_destroy stops the agent, frees, and then the pointer is cleared.
ZbeaconDestroy(a) ==
  /\ Alive /\ at[a] = "destroying"
  /\ IF zbeacon = "freed" THEN Fails("destroyed_twice")
     ELSE Goes(a, "over") /\ UNCHANGED fault
  /\ zbeacon' = "freed" /\ pointer' = "NULL"
  /\ UNCHANGED <<held, asked, pipeVars>>

\* A method is over. The free callback runs but once.
Return(t) ==
  /\ Alive /\ at[t] = "over" /\ t # GC
  /\ Goes(t, "ruby")
  /\ UNCHANGED <<beaconVars, pipeVars, fault>>

Forget ==
  /\ Alive /\ held /\ held' = FALSE
  /\ kept \ closed = {} \/ "keep_only_the_pipe" \in Risky
  /\ UNCHANGED <<pointer, zbeacon, asked, pipeVars, at, fault>>

\* Running methods keep their receiver; a pipe does not keep its beacon.
Unreachable == ~held /\ \A t \in Threads : at[t] \in {"ruby", "receiving"}

FreeBeaconGcOnlyFrees ==
  /\ Alive /\ Unreachable /\ at[GC] = "ruby"
  /\ Goes(GC, "over")
  /\ UNCHANGED <<beaconVars, pipeVars, fault>>

FreeBeaconGc ==
  /\ Alive /\ Unreachable /\ at[GC] = "ruby"
  /\ Goes(GC, "destroy")
  /\ UNCHANGED <<beaconVars, pipeVars, fault>>

-----------------------------------------------------------------------------
(* Using it                                                                *)

\* interval=, noecho, publish, silence, subscribe, unsubscribe.
BeaconCommand(t) ==
  /\ Alive /\ held /\ MayUse(t)
  /\ Goes(t, "command")
  /\ UNCHANGED <<beaconVars, pipeVars, fault>>

\* No method tests the pointer; zbeacon_... asserts that it is not NULL.
UsesBeacon(a, place) ==
  CASE pointer = "NULL"                          -> Fails("NULL_beacon")
    [] pointer = "set" /\ zbeacon = "freed"      -> Fails("freed_beacon")
    [] pointer = "set" /\ zbeacon = "live" /\ place \in InPipe /\ PipeInUse(a) ->
         Fails("two_in_the_pipe")
    [] OTHER                                     -> Goes(a, place) /\ UNCHANGED fault

NogvlCommand(t) ==
  /\ Alive /\ at[t] = "command"
  /\ UsesBeacon(t, "commanding")
  /\ UNCHANGED <<beaconVars, pipeVars>>

CommandReturn(t) ==
  /\ Alive /\ at[t] = "commanding"
  /\ Goes(t, "over")
  /\ UNCHANGED <<beaconVars, pipeVars, fault>>

BeaconHostname(t) ==
  /\ Alive /\ held /\ MayUse(t)
  /\ UsesBeacon(t, "over")
  /\ UNCHANGED <<beaconVars, pipeVars>>

\* The new wrapper has neither a context nor a reference to the beacon.
BeaconPipe(t, p) ==
  /\ Alive /\ held /\ MayUse(t) /\ p \notin Made
  /\ UsesBeacon(t, "over")
  /\ IF fault' = "none"
     THEN owner' = [owner EXCEPT ![p] = t] /\ kept' = kept \cup {p}
     ELSE UNCHANGED <<owner, kept>>
  /\ UNCHANGED <<beaconVars, closed>>

-----------------------------------------------------------------------------
(* Using a pipe                                                            *)

\* recv and the like: open, bound, and on the thread that called beacon.pipe.
PipeRecv(t, p) ==
  /\ Alive /\ MayUse(t) /\ p \in kept \ closed /\ owner[p] = t
  /\ CASE zbeacon = "freed"                  -> Fails("freed_pipe")
       [] zbeacon = "live" /\ PipeInUse(t)   -> Fails("two_in_the_pipe")
       [] OTHER                              -> Goes(t, "receiving") /\ UNCHANGED fault
  /\ UNCHANGED <<beaconVars, pipeVars>>

PipeRecvReturn(t) ==
  /\ Alive /\ at[t] = "receiving"
  /\ IF zbeacon = "freed" THEN Fails("freed_pipe") ELSE Goes(t, "ruby") /\ UNCHANGED fault
  /\ UNCHANGED <<beaconVars, pipeVars>>

\* A wrapper whose context is nil is flagged, its socket left to the beacon
\* (context.c:98: zbeacon "is responsible for closing this socket").
PipeClose(t, p) ==
  /\ Alive /\ at[t] = "ruby" /\ p \in kept \ closed /\ owner[p] = t
  /\ closed' = closed \cup {p}
  /\ UNCHANGED <<beaconVars, owner, kept, at, fault>>

\* So is one the program forgot, by its free callback, once no call has it.
PipeForget(p) ==
  /\ Alive /\ p \in kept /\ at[owner[p]] # "receiving"
  /\ kept' = kept \ {p} /\ closed' = closed \cup {p}
  /\ UNCHANGED <<beaconVars, owner, at, fault>>

-----------------------------------------------------------------------------
CallStep(a) ==
  \/ NogvlBeaconDestroy(a) \/ ZbeaconDestroy(a)
  \/ NogvlCommand(a) \/ CommandReturn(a) \/ Return(a)

Next ==
  \/ \E a \in Actors : CallStep(a)
  \/ \E t \in Threads :
       \/ BeaconDestroy(t) \/ BeaconCommand(t) \/ BeaconHostname(t) \/ PipeRecvReturn(t)
       \/ \E p \in Pipes : BeaconPipe(t, p) \/ PipeRecv(t, p) \/ PipeClose(t, p)
  \/ Forget \/ FreeBeaconGc
  \/ \E p \in Pipes : PipeForget(p)

Spec == Init /\ [][Next]_vars

\* czmq's calls return and the GVL goes round; what is dead is collected.
FairSpec ==
  /\ Spec
  /\ \A a \in Actors : WF_vars(CallStep(a))
  /\ WF_vars(FreeBeaconGc)

-----------------------------------------------------------------------------
(* Properties                                                              *)

\* A zbeacon_t is destroyed once, by destroy, a second destroy or the collector;
\* nobody is in it, or in the one socket behind all its pipes, while somebody else
\* is; and a method called after its end is given NULL, on which czmq aborts, but
\* never a freed zbeacon_t (beacon.c:11-14, 27, 301).
DestroyedOnce == fault \notin {"destroyed_twice", "two_in_the_pipe", "freed_beacon"}

\* A beacon the program has forgotten is destroyed, by the collector if need be and
\* by no more than one of destroy and the collector (beacon.c:27).
ForgottenBeaconDestroyed == ~held ~> zbeacon = "freed"

=============================================================================
