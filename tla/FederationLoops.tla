----------------------------- MODULE FederationLoops -----------------------------
(* The goroutines the engine runs for one federation: the polling loop with    *)
(* its event worker, which share a quit channel and are followed as one, and  *)
(* the watchdog. Engine.mu is held for a map operation at a time, never over  *)
(* two, so handlers, ticks and Stop interleave between them. What a tick does *)
(* to objects is FederationReplication, to the primary FederationFailover.    *)
(* A quit channel is named by the goroutine that listens to it. Goroutines are *)
(* numbered, the loops first; numbers are reused, and how many there are is a *)
(* bound.                                                                     *)
EXTENDS Naturals

CONSTANTS NumLoops, NumWatchdogs, Handlers

ASSUME LoopAssumption == {NumLoops, NumWatchdogs} \subseteq Nat \ {0}

VARIABLES
  fed,          \* the record: its AutoFailover, "none" before it is created
  fedQuit,      \* Engine.fedQuit of the federation (and triggers, eventTasks)
  watchdogQuit, \* Engine.watchdogQuit
  threads,      \* the goroutines, and whether their quit channel is closed
  handlers,     \* requests under way, with the policy they have read
  cancelled,    \* engineCtx is done
  stopped       \* Stop: not called, between its two steps, or past them

loopVars == <<fed, fedQuit, watchdogQuit, threads, handlers, cancelled, stopped>>

Policies == {"on", "off"}
LoopIds == 1..NumLoops
WatchdogIds == (NumLoops + 1)..(NumLoops + NumWatchdogs)
Threads == LoopIds \cup WatchdogIds
NoQuit == 0

NoThread == [at |-> "off", closed |-> FALSE]
Started == [at |-> "tick", closed |-> FALSE]
Alive == {g \in Threads : threads[g].at # "off"}
IsNext(g, ids) ==
  LET free == ids \ (Alive \cup {fedQuit, watchdogQuit})
  IN g \in free /\ \A k \in free : g <= k
Closed(f, g) == IF g = NoQuit THEN f ELSE [f EXCEPT ![g].closed = TRUE]
Moved(g, at) == [threads EXCEPT ![g].at = at]
Goes(g, at) == threads' = Moved(g, at)
NoHandler == [at |-> "idle", seen |-> "off"]
Turn(h, at, seen) == handlers' = [handlers EXCEPT ![h] = [at |-> at, seen |-> seen]]

(* Start, which returns before the server accepts requests.                   *)
LoopInit ==
  /\ fed \in {"none"} \cup Policies
  /\ fedQuit = IF fed = "none" THEN NoQuit ELSE 1
  /\ watchdogQuit = IF fed = "on" THEN NumLoops + 1 ELSE NoQuit
  /\ threads = [g \in Threads |-> IF g \in {fedQuit, watchdogQuit} THEN Started ELSE NoThread]
  /\ handlers = [h \in Handlers |-> NoHandler]
  /\ cancelled = FALSE /\ stopped = "no"

--------------------------------------------------------------------------------
(* Handlers.                                                                  *)
Engine == <<fedQuit, watchdogQuit, threads, cancelled, stopped>>

(* The create, update and resync handlers call EnsureLoop once the store has   *)
(* what they write.                                                           *)
CreateFederation(h) ==
  /\ handlers[h].at = "idle" /\ fed = "none"
  /\ fed' \in Policies /\ Turn(h, "ensure", "off") /\ UNCHANGED Engine
UpdateFederation(h) ==
  /\ handlers[h].at = "idle" /\ fed \in Policies
  /\ fed' \in Policies /\ Turn(h, "ensure", "off") /\ UNCHANGED Engine
ResyncFederation(h) ==
  /\ handlers[h].at = "idle" /\ fed \in Policies
  /\ Turn(h, "ensure", "off") /\ UNCHANGED fed /\ UNCHANGED Engine

(* A failover writes the policy back that it has read; the epoch, which may    *)
(* refuse it, is FederationFailover's.                                        *)
FailoverRead(h) ==
  /\ handlers[h].at = "idle" /\ fed \in Policies
  /\ Turn(h, "promote", fed) /\ UNCHANGED fed /\ UNCHANGED Engine
FailoverWrite(h) ==
  /\ handlers[h].at = "promote"
  /\ \/ fed \in Policies /\ fed' = handlers[h].seen /\ Turn(h, "ensure", "off")
     \/ Turn(h, "idle", "off") /\ UNCHANGED fed
  /\ UNCHANGED Engine

DeleteFederation(h) ==
  /\ handlers[h].at = "idle" /\ fed \in Policies
  /\ fed' = "gone" /\ Turn(h, "remove", "off") /\ UNCHANGED Engine

(* RemoveLoop, for the handler and for a tick that finds no record.           *)
Removed(f) == Closed(Closed(f, fedQuit), watchdogQuit)
RemoveLoop(h) ==
  /\ handlers[h].at = "remove" /\ Turn(h, "idle", "off")
  /\ threads' = Removed(threads) /\ fedQuit' = NoQuit /\ watchdogQuit' = NoQuit
  /\ UNCHANGED <<fed, cancelled, stopped>>

EnsureLoop(h) ==
  /\ handlers[h].at = "ensure"
  /\ Turn(h, IF stopped # "no" THEN "idle" ELSE IF fedQuit = NoQuit THEN "spawn" ELSE "get", "off")
  /\ UNCHANGED fed /\ UNCHANGED Engine

(* Mutant: what EnsureLoop saw is not looked at again under the lock.         *)
spawnBlindly(h) ==
  /\ handlers[h].at = "spawn" /\ Turn(h, "get", "off")
  /\ \E g \in LoopIds :
       IsNext(g, LoopIds) /\ fedQuit' = g /\ threads' = [threads EXCEPT ![g] = Started]
  /\ UNCHANGED <<fed, watchdogQuit, cancelled, stopped>>

(* spawnLoop gives up if another goroutine was faster; otherwise it starts one *)
(* on the engine's context, which may be done already.                        *)
spawnLoop(h) ==
  /\ handlers[h].at = "spawn" /\ Turn(h, "get", "off")
  /\ IF fedQuit # NoQuit
     THEN UNCHANGED <<fedQuit, threads>>
     ELSE \E g \in LoopIds : IsNext(g, LoopIds) /\
            fedQuit' = g /\ threads' = [threads EXCEPT ![g] = Started]
  /\ UNCHANGED <<fed, watchdogQuit, cancelled, stopped>>

(* The watchdog is fitted to the policy in three steps: the policy, the map,   *)
(* the start or stop.                                                         *)
ReadPolicy(h) ==
  /\ handlers[h].at = "get"
  /\ IF fed = "gone" THEN Turn(h, "idle", "off") ELSE Turn(h, "look", fed)
  /\ UNCHANGED fed /\ UNCHANGED Engine
LookForWatchdog(h) ==
  /\ handlers[h].at = "look"
  /\ IF (handlers[h].seen = "on") = (watchdogQuit = NoQuit)
     THEN Turn(h, "reconcile", handlers[h].seen)
     ELSE Turn(h, "idle", "off")
  /\ UNCHANGED fed /\ UNCHANGED Engine
spawnWatchdog(h) ==
  /\ handlers[h].at = "reconcile" /\ handlers[h].seen = "on" /\ Turn(h, "idle", "off")
  /\ IF watchdogQuit # NoQuit
     THEN UNCHANGED <<watchdogQuit, threads>>
     ELSE \E g \in WatchdogIds : IsNext(g, WatchdogIds) /\
            watchdogQuit' = g /\ threads' = [threads EXCEPT ![g] = Started]
  /\ UNCHANGED <<fed, fedQuit, cancelled, stopped>>
stopWatchdog(h) ==
  /\ handlers[h].at = "reconcile" /\ handlers[h].seen = "off" /\ Turn(h, "idle", "off")
  /\ threads' = Closed(threads, watchdogQuit) /\ watchdogQuit' = NoQuit
  /\ UNCHANGED <<fed, fedQuit, cancelled, stopped>>

--------------------------------------------------------------------------------
(* Goroutines.                                                                *)
Requests == <<handlers, cancelled, stopped>>
Quits == <<fedQuit, watchdogQuit>>

(* tickFederation, whose pass ends by its deadline.                           *)
LoopTick(g) ==
  /\ g \in LoopIds /\ threads[g].at = "tick"
  /\ Goes(g, IF fed = "gone" THEN "drop" ELSE "wait")
  /\ UNCHANGED fed /\ UNCHANGED Quits /\ UNCHANGED Requests
LoopDrop(g) ==
  /\ g \in LoopIds /\ threads[g].at = "drop"
  /\ threads' = Removed(Moved(g, "wait")) /\ fedQuit' = NoQuit /\ watchdogQuit' = NoQuit
  /\ UNCHANGED fed /\ UNCHANGED Requests

(* Mutant: the watchdog leaves the policy to EnsureLoop.                      *)
TrustingTick(g) ==
  /\ g \in WatchdogIds /\ threads[g].at = "tick"
  /\ Goes(g, IF fed = "gone" THEN "drop" ELSE "probe")
  /\ UNCHANGED fed /\ UNCHANGED Quits /\ UNCHANGED Requests

(* tickWatchdog: without a record, or without the policy, it stops itself -    *)
(* that is, whichever watchdog is registered by then.                         *)
WatchdogTick(g) ==
  /\ g \in WatchdogIds /\ threads[g].at = "tick"
  /\ Goes(g, IF fed = "on" THEN "probe" ELSE "drop")
  /\ UNCHANGED fed /\ UNCHANGED Quits /\ UNCHANGED Requests
WatchdogDrop(g) ==
  /\ g \in WatchdogIds /\ threads[g].at = "drop"
  /\ threads' = Closed(Moved(g, "wait"), watchdogQuit) /\ watchdogQuit' = NoQuit
  /\ UNCHANGED <<fed, fedQuit>> /\ UNCHANGED Requests

(* The probe, and a promotion that writes the policy of its copy.             *)
Probed(g) ==
  /\ threads[g].at = "probe" /\ Goes(g, "wait")
  /\ (fed \in Policies /\ fed' = "on") \/ UNCHANGED fed
  /\ UNCHANGED Quits /\ UNCHANGED Requests

(* The select of either loop: a tick or a trigger, the quit channel, the       *)
(* context.                                                                   *)
Wakes(g) ==
  /\ threads[g].at = "wait" /\ Goes(g, "tick")
  /\ UNCHANGED fed /\ UNCHANGED Quits /\ UNCHANGED Requests
Returns(g) ==
  /\ threads[g].at = "wait" /\ (threads[g].closed \/ cancelled)
  /\ threads' = [threads EXCEPT ![g] = NoThread]
  /\ UNCHANGED fed /\ UNCHANGED Quits /\ UNCHANGED Requests

--------------------------------------------------------------------------------
(* A signal cancels the engine's context; Stop does, and then closes what is   *)
(* registered. What a request registers afterwards is in new maps.            *)
Interrupted ==
  /\ ~cancelled /\ cancelled' = TRUE
  /\ UNCHANGED <<fed, fedQuit, watchdogQuit, threads, handlers, stopped>>
StopCancels ==
  /\ stopped = "no" /\ stopped' = "closing" /\ cancelled' = TRUE
  /\ UNCHANGED <<fed, fedQuit, watchdogQuit, threads, handlers>>
StopCloses ==
  /\ stopped = "closing" /\ stopped' = "yes"
  /\ threads' = Removed(threads) /\ fedQuit' = NoQuit /\ watchdogQuit' = NoQuit
  /\ UNCHANGED <<fed, handlers, cancelled>>

LoopHandler(h) ==
  \/ CreateFederation(h) \/ UpdateFederation(h) \/ ResyncFederation(h)
  \/ FailoverRead(h) \/ FailoverWrite(h) \/ DeleteFederation(h) \/ RemoveLoop(h)
  \/ EnsureLoop(h) \/ spawnLoop(h) \/ ReadPolicy(h) \/ LookForWatchdog(h)
  \/ spawnWatchdog(h) \/ stopWatchdog(h)

Works(g) ==
  LoopTick(g) \/ LoopDrop(g) \/ WatchdogTick(g) \/ WatchdogDrop(g) \/ Probed(g) \/ Wakes(g)

LoopNext ==
  \/ \E h \in Handlers : LoopHandler(h)
  \/ \E g \in Threads : Works(g) \/ Returns(g)
  \/ Interrupted \/ StopCancels \/ StopCloses

LoopSpec == LoopInit /\ [][LoopNext]_loopVars

--------------------------------------------------------------------------------
LoopTypeOK ==
  /\ fed \in {"none", "gone"} \cup Policies
  /\ fedQuit \in LoopIds \cup {NoQuit} /\ watchdogQuit \in WatchdogIds \cup {NoQuit}
  /\ threads \in [Threads -> [at : {"off", "tick", "drop", "probe", "wait"},
                              closed : BOOLEAN]]
  /\ handlers \in [Handlers ->
       [at : {"idle", "ensure", "spawn", "get", "look", "reconcile", "promote", "remove"},
        seen : Policies]]
  /\ cancelled \in BOOLEAN /\ stopped \in {"no", "closing", "yes"}

(* spawnLoop's and spawnWatchdog's second look, RemoveLoop and Stop: whatever  *)
(* handlers and ticks interleave, there is one loop and at most one watchdog  *)
(* that has not been told to quit, the one that RemoveLoop and Stop will reach;*)
(* and with no request under way a federation has its loop.                   *)
OneLoopEach ==
  /\ \A g \in Alive : threads[g].closed \/ g \in {fedQuit, watchdogQuit}
  /\ fed \in Policies /\ ~cancelled /\ (\A h \in Handlers : handlers[h].at = "idle")
       => fedQuit \in Alive /\ ~threads[fedQuit].closed

(* "this self-defence handles the edge where the policy reconciler race-loses  *)
(* to a concurrent edit", "this self-cleans the race", and Stop: a goroutine   *)
(* that is not wanted any more returns, even if it was started afterwards.    *)
Unwanted(g) == cancelled \/ fed = "gone" \/ (g \in WatchdogIds /\ fed = "off")
NoLoopLeft ==
  \A g \in Threads : (g \in Alive /\ Unwanted(g)) ~> (g \notin Alive \/ ~Unwanted(g))

(* EnsureLoop "reconciles the watchdog goroutine to the federation's current   *)
(* Policy.AutoFailover setting": with no request under way, a policy that is  *)
(* on has its watchdog.                                                       *)
(* The code does not keep it (README, known disagreements).                   *)
WatchdogFollowsPolicy ==
  fed = "on" /\ ~cancelled /\ (\A h \in Handlers : handlers[h].at = "idle")
    => watchdogQuit \in Alive
================================================================================
