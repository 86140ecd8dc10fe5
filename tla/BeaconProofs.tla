----------------------------- MODULE BeaconProofs -----------------------------
(***************************************************************************)
(* What a program gets that leaves a beacon to one thread and keeps it as  *)
(* long as it keeps a pipe of it, though it may destroy it again or use it *)
(* after that: the zbeacon_t is destroyed once, by one actor that has it   *)
(* to itself, although the collector destroys it too and czmq works        *)
(* without the GVL.                                                        *)
(***************************************************************************)
EXTENDS Beacon, TLAPS

\* One thread has the beacon, and keeps it while it has a pipe of it open. It may
\* use what it has destroyed.
OneThread == Risky \subseteq {"use_what_was_destroyed"}

-----------------------------------------------------------------------------
(* Types, whatever the program does                                        *)

\* The pointer is cleared in the step that frees what it points to.
PointerHonest == pointer = "set" <=> zbeacon = "live"

Typed == TypeOK /\ PointerHonest

LEMMA InitTyped == Init => Typed
BY ConstantsAssumption
   DEF Init, Typed, TypeOK, PointerHonest, Actors, Places, Made, NoThread

\* Where an actor can go leaves the types as they are.
LEMMA NextTyped ==
  ASSUME Typed, [Next]_vars
  PROVE  Typed'
<1>. USE ConstantsAssumption
     DEF Typed, TypeOK, PointerHonest, Actors, Places, Made, beaconVars, pipeVars, Goes, Fails
<1>1. ASSUME NEW a \in Actors, NogvlBeaconDestroy(a) PROVE Typed'
  BY <1>1 DEF NogvlBeaconDestroy
<1>2. ASSUME NEW a \in Actors, ZbeaconDestroy(a) PROVE Typed'
  BY <1>2 DEF ZbeaconDestroy
<1>3. ASSUME NEW a \in Actors, NogvlCommand(a) PROVE Typed'
  BY <1>3 DEF NogvlCommand, UsesBeacon
<1>4. ASSUME NEW a \in Actors, CommandReturn(a) \/ Return(a) PROVE Typed'
  BY <1>4 DEF CommandReturn, Return
<1>5. ASSUME NEW t \in Threads, BeaconDestroy(t) \/ BeaconCommand(t) PROVE Typed'
  BY <1>5 DEF BeaconDestroy, BeaconCommand
<1>6. ASSUME NEW t \in Threads, BeaconHostname(t) PROVE Typed'
  BY <1>6 DEF BeaconHostname, UsesBeacon
<1>7. ASSUME NEW t \in Threads, PipeRecvReturn(t) PROVE Typed'
  BY <1>7 DEF PipeRecvReturn
<1>8. ASSUME NEW t \in Threads, NEW p \in Pipes, BeaconPipe(t, p) PROVE Typed'
  <2>1. at' \in [Actors -> Places] /\ at'[GC] = at[GC] /\ fault' \in {fault, "none", "NULL_beacon", "freed_beacon", "two_in_the_pipe"}
    BY <1>8 DEF BeaconPipe, UsesBeacon
  <2>2. owner' \in [Pipes -> Threads \cup {NoThread}] /\ Made \subseteq Made'
    BY <1>8 DEF BeaconPipe
  <2>3. kept' \in SUBSET Made'
    BY <1>8, <2>2 DEF BeaconPipe, NoThread
  <2>q. QED
    BY <1>8, <2>1, <2>2, <2>3 DEF BeaconPipe
<1>9. ASSUME NEW t \in Threads, NEW p \in Pipes, PipeRecv(t, p) PROVE Typed'
  BY <1>9 DEF PipeRecv
<1>10. ASSUME NEW t \in Threads, NEW p \in Pipes, PipeClose(t, p) PROVE Typed'
  BY <1>10 DEF PipeClose
<1>11. ASSUME NEW p \in Pipes, PipeForget(p) PROVE Typed'
  BY <1>11 DEF PipeForget
<1>12. CASE Forget
  BY <1>12 DEF Forget
<1>13. CASE FreeBeaconGc
  BY <1>13 DEF FreeBeaconGc, Unreachable
<1>14. CASE UNCHANGED vars
  BY <1>14 DEF vars
<1>q. QED
  BY <1>1, <1>2, <1>3, <1>4, <1>5, <1>6, <1>7, <1>8, <1>9, <1>10, <1>11, <1>12, <1>13, <1>14
     DEF Next, CallStep

\* A beacon, its pipes and the actors around it have their types, and the pointer is
\* NULL just when the zbeacon_t is gone, whatever the program does (beacon.c:11).
THEOREM BeaconTyped == Spec => []TypeOK
<1>1. Typed => TypeOK
  BY DEF Typed
<1>2. Typed /\ [Next]_vars => Typed'
  BY NextTyped
<1>q. QED
  BY <1>1, <1>2, InitTyped, PTL DEF Spec

-----------------------------------------------------------------------------
(* One at a time                                                           *)

\* The other threads have nothing to do with the beacon.
MainAlone == \A t \in Threads \ {Main} : at[t] = "ruby"

\* Pipes were made by Main, and one that is still open keeps the program holding
\* the beacon.
PipesOfMain ==
  /\ \A p \in Made : owner[p] = Main
  /\ ~held => kept \ closed = {}
  /\ at[Main] = "receiving" => held /\ kept \ closed # {}

\* The collector begins when Main is done for good.
CollectorLast ==
  /\ at[GC] \in {"ruby", "destroy", "destroying", "over"}
  /\ at[GC] # "ruby" => ~held /\ at[Main] = "ruby"

\* Whoever is about to free the zbeacon_t has it.
FreedByHolder == at[Main] = "destroying" \/ at[GC] = "destroying" => zbeacon = "live"

OneAtATime ==
  /\ MainAlone /\ PipesOfMain /\ CollectorLast /\ FreedByHolder
  /\ DestroyedOnce

LEMMA InitOneAtATime == Init => OneAtATime
BY ConstantsAssumption
   DEF Init, OneAtATime, MainAlone, PipesOfMain, CollectorLast, FreedByHolder,
       DestroyedOnce, Actors, Made

\* Main has the zbeacon_t, or its remains, to itself.
LEMMA MainHasIt ==
  ASSUME Typed, OneAtATime, held \/ at[Main] # "ruby"
  PROVE  ~PipeInUse(Main)
BY DEF OneAtATime, CollectorLast, MainAlone, PipeInUse, InPipe, Actors

\* So has whoever destroys it.
LEMMA DestroyerHasIt ==
  ASSUME Typed, OneAtATime, NEW a \in Actors, at[a] \in {"destroy", "destroying"}
  PROVE  a \in {Main, GC} /\ ~PipeInUse(a)
<1>1. a \in {Main, GC}
  BY DEF OneAtATime, MainAlone, Actors
<1>2. \A b \in Actors \ {a} : at[b] = "ruby"
  BY <1>1 DEF OneAtATime, MainAlone, CollectorLast, Actors
<1>q. QED
  BY <1>1, <1>2 DEF PipeInUse, InPipe

LEMMA NextOneAtATime ==
  ASSUME OneThread, Typed, OneAtATime, [Next]_vars
  PROVE  OneAtATime'
<1>. USE ConstantsAssumption
     DEF Typed, TypeOK, PointerHonest, Actors, Places, Made, beaconVars, pipeVars, Goes, Fails,
         OneAtATime, MainAlone, PipesOfMain, CollectorLast, FreedByHolder,
         DestroyedOnce, OneThread, MayUse, Alive
<1>1. ASSUME NEW a \in Actors, NogvlBeaconDestroy(a) PROVE OneAtATime'
  <2>1. at[a] = "destroy" /\ UNCHANGED <<beaconVars, pipeVars>>
    BY <1>1 DEF NogvlBeaconDestroy
  <2>2. a \in {Main, GC} /\ ~PipeInUse(a)
    BY <2>1, DestroyerHasIt
  <2>3. \/ at' = [at EXCEPT ![a] = "over"] /\ zbeacon = "freed"
        \/ at' = [at EXCEPT ![a] = "destroying"] /\ zbeacon = "live"
    BY <1>1, <2>2 DEF NogvlBeaconDestroy
  <2>4. fault' = "none"
    BY <1>1, <2>2 DEF NogvlBeaconDestroy
  <2>q. QED
    BY <2>1, <2>2, <2>3, <2>4
<1>2. ASSUME NEW a \in Actors, ZbeaconDestroy(a) PROVE OneAtATime'
  <2>1. a \in {Main, GC} /\ zbeacon = "live"
    BY <1>2 DEF ZbeaconDestroy
  <2>q. QED
    BY <1>2, <2>1 DEF ZbeaconDestroy
<1>3. ASSUME NEW a \in Actors, NogvlCommand(a) PROVE OneAtATime'
  <2>1. a = Main /\ at[Main] = "command"
    BY <1>3 DEF NogvlCommand
  <2>2. ~PipeInUse(a)
    BY <2>1, MainHasIt
  <2>q. QED
    BY <1>3, <2>1, <2>2 DEF NogvlCommand, UsesBeacon
<1>4. ASSUME NEW a \in Actors, CommandReturn(a) \/ Return(a) PROVE OneAtATime'
  BY <1>4 DEF CommandReturn, Return
<1>5. ASSUME NEW t \in Threads, BeaconDestroy(t) \/ BeaconCommand(t) PROVE OneAtATime'
  BY <1>5 DEF BeaconDestroy, BeaconCommand
<1>6. ASSUME NEW t \in Threads, BeaconHostname(t) PROVE OneAtATime'
  <2>1. t = Main /\ "over" \notin InPipe
    BY <1>6 DEF BeaconHostname, InPipe
  <2>q. QED
    BY <1>6, <2>1 DEF BeaconHostname, UsesBeacon
<1>7. ASSUME NEW t \in Threads, PipeRecvReturn(t) PROVE OneAtATime'
  <2>1. t = Main
    BY <1>7 DEF PipeRecvReturn
  <2>q. QED
    BY <1>7, <2>1 DEF PipeRecvReturn
<1>8. ASSUME NEW t \in Threads, NEW p \in Pipes, BeaconPipe(t, p) PROVE OneAtATime'
  <2>1. t = Main /\ held /\ at[Main] = "ruby" /\ "over" \notin InPipe
    BY <1>8 DEF BeaconPipe, InPipe
  <2>2. /\ fault' \in {"none", "NULL_beacon"} /\ UNCHANGED <<beaconVars, closed>>
        /\ at' = [at EXCEPT ![Main] = "over"] \/ at' = at
        /\ owner' = [owner EXCEPT ![p] = Main] \/ owner' = owner
    BY <1>8, <2>1 DEF BeaconPipe, UsesBeacon
  <2>q. QED
    BY <2>1, <2>2
<1>9. ASSUME NEW t \in Threads, NEW p \in Pipes, PipeRecv(t, p) PROVE OneAtATime'
  <2>1. held /\ t = Main
    BY <1>9 DEF PipeRecv
  <2>2. ~PipeInUse(t)
    BY <2>1, MainHasIt
  <2>q. QED
    BY <1>9, <2>1, <2>2 DEF PipeRecv
<1>10. ASSUME NEW t \in Threads, NEW p \in Pipes, PipeClose(t, p) PROVE OneAtATime'
  BY <1>10 DEF PipeClose
<1>11. ASSUME NEW p \in Pipes, PipeForget(p) PROVE OneAtATime'
  BY <1>11 DEF PipeForget
<1>12. CASE Forget
  BY <1>12 DEF Forget
<1>13. CASE FreeBeaconGc
  BY <1>13 DEF FreeBeaconGc, Unreachable
<1>14. CASE UNCHANGED vars
  BY <1>14 DEF vars
<1>q. QED
  BY <1>1, <1>2, <1>3, <1>4, <1>5, <1>6, <1>7, <1>8, <1>9, <1>10, <1>11, <1>12, <1>13, <1>14
     DEF Next, CallStep

\* With one thread using the beacon, and the beacon kept while a pipe is open, the
\* zbeacon_t is destroyed once, by destroy or by the collector, which are never in it
\* with somebody else, and a method called too late is given no freed one, but NULL
\* (beacon.c:11-14, 27, 301).
THEOREM BeaconDestroyedOnce ==
  ASSUME OneThread
  PROVE  Spec => []DestroyedOnce
<1>1. Typed /\ OneAtATime /\ [Next]_vars => Typed' /\ OneAtATime'
  BY NextTyped, NextOneAtATime
<1>2. OneAtATime => DestroyedOnce
  BY DEF OneAtATime
<1>q. QED
  BY <1>1, <1>2, InitTyped, InitOneAtATime, PTL DEF Spec

=============================================================================
