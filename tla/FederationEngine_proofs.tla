------------------------ MODULE FederationEngine_proofs ------------------------
(* The federation engine, goroutines and failovers. FederationLoops: one loop  *)
(* and at most one watchdog per federation, for any number of goroutines and  *)
(* of requests under way. FederationTakeover: what outlives a failover is the *)
(* only danger to what the new primary's clients write.                       *)
EXTENDS FederationLoops, FederationTakeover, TLAPS


(* The registered loop is running and has not been told to quit, unless the    *)
(* engine is ending; a record without one has a request that will start it;    *)
(* and what removes the loop - RemoveLoop, a tick without a record, Stop - only*)
(* does so when the record is gone or the engine is ending.                    *)
Registered == \A g \in Threads :
  threads[g].at # "off" => threads[g].closed \/ g \in {fedQuit, watchdogQuit}
Running == ~cancelled /\ fedQuit # NoQuit
             => threads[fedQuit].at # "off" /\ ~threads[fedQuit].closed
OnItsWay == ~cancelled /\ fed \in Policies
             => fedQuit # NoQuit \/ \E h \in Handlers : handlers[h].at \in {"ensure", "spawn"}
RemovedWhenGone ==
  /\ \A h \in Handlers : handlers[h].at = "remove" => fed = "gone"
  /\ \A g \in LoopIds : threads[g].at = "drop" => fed = "gone"
  /\ stopped # "no" => cancelled
NothingYet == fed = "none" => \A h \in Handlers : handlers[h].at = "idle"

LoopInv == LoopTypeOK /\ Registered /\ Running /\ OnItsWay /\ RemovedWhenGone /\ NothingYet

ThreadStates ==
  [Threads -> [at : {"off", "tick", "drop", "probe", "wait"}, closed : BOOLEAN]]
HandlerStates ==
  [Handlers ->
    [at : {"idle", "ensure", "spawn", "get", "look", "reconcile", "promote", "remove"},
     seen : Policies]]

LEMMA Numbers ==
  /\ NumLoops \in Nat \ {0} /\ NumWatchdogs \in Nat \ {0}
  /\ NoQuit \notin Threads /\ LoopIds \cap WatchdogIds = {}
  /\ 1 \in LoopIds /\ NumLoops + 1 \in WatchdogIds
BY LoopAssumption DEF NoQuit, Threads, LoopIds, WatchdogIds

LEMMA LoopInvInit == LoopInit => LoopInv
<1> SUFFICES ASSUME LoopInit PROVE LoopInv
  OBVIOUS
<1>1. fedQuit \in LoopIds \cup {NoQuit} /\ watchdogQuit \in WatchdogIds \cup {NoQuit}
  BY Numbers DEF LoopInit
<1>2. fed \in {"none"} \cup Policies /\ (fed \in Policies <=> fedQuit # NoQuit)
  BY Numbers DEF LoopInit, NoQuit, Policies
<1>3. \A g \in Threads : threads[g] = IF g \in {fedQuit, watchdogQuit} THEN Started ELSE NoThread
  BY DEF LoopInit
<1>4. LoopTypeOK
  BY <1>1, <1>2, <1>3 DEF LoopInit, LoopTypeOK, Policies, Started, NoThread, NoHandler
<1> QED BY <1>1, <1>2, <1>3, <1>4, Numbers
        DEF LoopInit, LoopInv, Registered, Running, OnItsWay, RemovedWhenGone, NothingYet,
            Started, NoThread, NoHandler, Threads

--------------------------------------------------------------------------------
(* A request moves on and the goroutines do not.                               *)
LEMMA HandlerMoves ==
  ASSUME LoopInv, NEW h \in Handlers,
         NEW at \in {"idle", "ensure", "spawn", "get", "look", "reconcile", "promote"},
         NEW seen \in Policies, Turn(h, at, seen), UNCHANGED Engine,
         fed' = fed \/ (fed' \in Policies /\ fed # "gone"), fed' # "none",
         (fed' \in Policies /\ fedQuit = NoQuit /\ ~cancelled)
           => at \in {"ensure", "spawn"} \/ (handlers[h].at \notin {"ensure", "spawn"} /\ fed' = fed)
  PROVE  LoopInv'
<1>1. /\ \A k \in Handlers : handlers'[k] = IF k = h THEN [at |-> at, seen |-> seen] ELSE handlers[k]
      /\ DOMAIN handlers' = Handlers
  BY DEF Turn, LoopInv, LoopTypeOK
<1>2. UNCHANGED <<fedQuit, watchdogQuit, threads, cancelled, stopped>>
  BY DEF Engine
<1>3. LoopTypeOK'
  BY <1>2 DEF LoopInv, LoopTypeOK, Turn, Policies
<1>4. Registered' /\ Running'
  BY <1>2 DEF LoopInv, Registered, Running
<1>5. OnItsWay'
  BY <1>1, <1>2 DEF LoopInv, OnItsWay
<1>6. RemovedWhenGone'
  BY <1>1, <1>2 DEF LoopInv, RemovedWhenGone, Policies
<1> QED BY <1>3, <1>4, <1>5, <1>6 DEF LoopInv, NothingYet

LEMMA HandlerSteps ==
  ASSUME LoopInv, NEW h \in Handlers,
         \/ CreateFederation(h) \/ UpdateFederation(h) \/ ResyncFederation(h)
         \/ FailoverRead(h) \/ FailoverWrite(h) \/ EnsureLoop(h) \/ ReadPolicy(h)
         \/ LookForWatchdog(h)
  PROVE  LoopInv'
<1>t. fed \in {"none", "gone"} \cup Policies /\ handlers[h].seen \in Policies /\ "off" \in Policies
  BY DEF LoopInv, LoopTypeOK, Policies
<1>n. handlers[h].at # "idle" => fed # "none"
  BY DEF LoopInv, NothingYet
<1>g. "none" \notin Policies /\ "gone" \notin Policies
  BY DEF Policies
<1>w. ~cancelled /\ fed \in Policies /\ fedQuit = NoQuit
        => \E k \in Handlers : handlers[k].at \in {"ensure", "spawn"}
  BY DEF LoopInv, OnItsWay
<1>1. CASE CreateFederation(h)
  BY <1>1, <1>t, <1>n, <1>g, HandlerMoves DEF CreateFederation
<1>2. CASE UpdateFederation(h)
  BY <1>2, <1>t, <1>n, <1>g, HandlerMoves DEF UpdateFederation
<1>3. CASE ResyncFederation(h)
  BY <1>3, <1>t, <1>n, <1>g, HandlerMoves DEF ResyncFederation
<1>4. CASE FailoverRead(h)
  BY <1>4, <1>t, <1>n, <1>g, HandlerMoves DEF FailoverRead
<1>5. CASE FailoverWrite(h)
  <2>1. CASE fed \in Policies /\ fed' = handlers[h].seen /\ Turn(h, "ensure", "off")
    BY <1>5, <2>1, <1>t, <1>n, <1>g, HandlerMoves DEF FailoverWrite
  <2>2. CASE Turn(h, "idle", "off") /\ UNCHANGED fed
    BY <1>5, <2>2, <1>t, <1>n, <1>g, HandlerMoves DEF FailoverWrite
  <2> QED BY <1>5, <2>1, <2>2 DEF FailoverWrite
<1>6. CASE EnsureLoop(h)
  <2>1. stopped # "no" => cancelled
    BY DEF LoopInv, RemovedWhenGone
  <2>2. CASE stopped # "no"
    BY <1>6, <2>1, <2>2, <1>t, <1>n, <1>g, HandlerMoves DEF EnsureLoop
  <2>3. CASE stopped = "no" /\ fedQuit = NoQuit
    BY <1>6, <2>3, <1>t, <1>n, <1>g, HandlerMoves DEF EnsureLoop
  <2>4. CASE stopped = "no" /\ fedQuit # NoQuit
    BY <1>6, <2>4, <1>t, <1>n, <1>g, HandlerMoves DEF EnsureLoop
  <2> QED BY <2>2, <2>3, <2>4
<1>7. CASE ReadPolicy(h)
  <2>1. CASE fed = "gone"
    BY <1>7, <2>1, <1>t, <1>n, <1>g, HandlerMoves DEF ReadPolicy
  <2>2. CASE fed \in Policies
    BY <1>7, <2>2, <1>t, <1>n, <1>g, HandlerMoves DEF ReadPolicy
  <2> QED BY <1>7, <2>1, <2>2, <1>t, <1>n DEF ReadPolicy
<1>8. CASE LookForWatchdog(h)
  BY <1>8, <1>t, <1>n, <1>g, HandlerMoves DEF LookForWatchdog
<1> QED BY <1>1, <1>2, <1>3, <1>4, <1>5, <1>6, <1>7, <1>8

(* Handlers that register or close what they find.                             *)
LEMMA TurnKeeps ==
  ASSUME LoopInv, NEW h \in Handlers, NEW at \in {"idle", "get"}, Turn(h, at, "off"),
         fed # "none"
  PROVE  /\ handlers' \in HandlerStates
         /\ \A k \in Handlers : k # h => handlers'[k] = handlers[k]
         /\ handlers'[h].at = at
BY DEF LoopInv, LoopTypeOK, HandlerStates, Turn, Policies

LEMMA ClosedKeeps ==
  ASSUME NEW f \in ThreadStates,
         NEW q \in Threads \cup {NoQuit}
  PROVE  /\ Closed(f, q) \in ThreadStates
         /\ \A g \in Threads :
              /\ Closed(f, q)[g].at = f[g].at
              /\ Closed(f, q)[g].closed <=> (f[g].closed \/ g = q)
<1>1. CASE q = NoQuit
  BY <1>1, Numbers DEF Closed, ThreadStates
<1>2. CASE q # NoQuit
  BY <1>2, Numbers DEF Closed, ThreadStates
<1> QED BY <1>1, <1>2

LEMMA RemovedKeeps ==
  ASSUME LoopInv,
         NEW f \in ThreadStates
  PROVE  /\ Removed(f) \in ThreadStates
         /\ \A g \in Threads :
              /\ Removed(f)[g].at = f[g].at
              /\ Removed(f)[g].closed <=> (f[g].closed \/ g = fedQuit \/ g = watchdogQuit)
<1>1. fedQuit \in Threads \cup {NoQuit} /\ watchdogQuit \in Threads \cup {NoQuit}
  BY DEF LoopInv, LoopTypeOK, Threads
<1> DEFINE m == Closed(f, fedQuit)
<1>2. /\ m \in ThreadStates
      /\ \A g \in Threads : m[g].at = f[g].at /\ (m[g].closed <=> (f[g].closed \/ g = fedQuit))
  BY <1>1, ClosedKeeps
<1>3. Removed(f) = Closed(m, watchdogQuit)
  BY DEF Removed
<1> HIDE DEF m
<1>4. /\ Closed(m, watchdogQuit) \in ThreadStates
      /\ \A g \in Threads :
           /\ Closed(m, watchdogQuit)[g].at = m[g].at
           /\ Closed(m, watchdogQuit)[g].closed <=> (m[g].closed \/ g = watchdogQuit)
  BY <1>1, <1>2, ClosedKeeps
<1> QED BY <1>2, <1>3, <1>4

(* RemoveLoop, LoopDrop and StopCloses: everything that runs is closed.        *)
LEMMA AllClosed ==
  ASSUME LoopInv,
         NEW f \in ThreadStates,
         \A g \in Threads :
           /\ f[g].closed <=> threads[g].closed
           /\ f[g].at = "off" <=> threads[g].at = "off"
           /\ f[g].at = "drop" => threads[g].at = "drop",
         threads' = Removed(f), fedQuit' = NoQuit, watchdogQuit' = NoQuit, fed' = fed,
         fed = "gone" \/ cancelled', cancelled => cancelled'
  PROVE  /\ threads' \in ThreadStates
         /\ Registered' /\ Running' /\ OnItsWay'
         /\ \A g \in LoopIds : threads'[g].at = "drop" => fed' = "gone"
<1>1. /\ threads' \in ThreadStates
      /\ \A g \in Threads :
           /\ threads'[g].at = f[g].at
           /\ threads'[g].closed <=> (f[g].closed \/ g = fedQuit \/ g = watchdogQuit)
  BY RemovedKeeps
<1>2. Registered'
  BY <1>1 DEF LoopInv, Registered
<1>3. Running' /\ OnItsWay'
  BY DEF Running, OnItsWay, Policies
<1>4. \A g \in LoopIds : threads'[g].at = "drop" => fed' = "gone"
  BY <1>1 DEF LoopInv, RemovedWhenGone, Threads
<1> QED BY <1>1, <1>2, <1>3, <1>4

LEMMA RemoveSteps ==
  ASSUME LoopInv, NEW h \in Handlers, DeleteFederation(h) \/ RemoveLoop(h)
  PROVE  LoopInv'
<1>1. CASE DeleteFederation(h)
  <2>1. /\ fed' = "gone" /\ Turn(h, "remove", "off") /\ fed # "none"
        /\ UNCHANGED <<fedQuit, watchdogQuit, threads, cancelled, stopped>>
    BY <1>1 DEF DeleteFederation, Engine, Policies
  <2>2. LoopTypeOK'
    BY <2>1 DEF LoopInv, LoopTypeOK, Turn, Policies
  <2>3. Registered' /\ Running' /\ OnItsWay' /\ RemovedWhenGone' /\ NothingYet'
    BY <2>1 DEF LoopInv, Registered, Running, OnItsWay, RemovedWhenGone, NothingYet, Policies
  <2> QED BY <2>2, <2>3 DEF LoopInv
<1>2. CASE RemoveLoop(h)
  <2>1. /\ fed = "gone" /\ threads' = Removed(threads) /\ fedQuit' = NoQuit
        /\ watchdogQuit' = NoQuit /\ UNCHANGED <<fed, cancelled, stopped>>
        /\ Turn(h, "idle", "off")
    BY <1>2 DEF RemoveLoop, LoopInv, RemovedWhenGone
  <2>2. threads \in ThreadStates
    BY DEF LoopInv, LoopTypeOK, ThreadStates
  <2>3. /\ threads' \in ThreadStates
        /\ Registered' /\ Running' /\ OnItsWay'
        /\ \A g \in LoopIds : threads'[g].at = "drop" => fed' = "gone"
    BY <2>1, <2>2, AllClosed
  <2>4. LoopTypeOK'
    BY <2>1, <2>3, TurnKeeps DEF LoopInv, LoopTypeOK, ThreadStates, HandlerStates
  <2>5. RemovedWhenGone' /\ NothingYet'
    BY <2>1, <2>3 DEF LoopInv, RemovedWhenGone, NothingYet
  <2> QED BY <2>3, <2>4, <2>5 DEF LoopInv
<1> QED BY <1>1, <1>2

(* spawnLoop registers the loop it starts, on a number that nobody uses.       *)
LEMMA SpawnLoopStep ==
  ASSUME LoopInv, NEW h \in Handlers, spawnLoop(h) PROVE LoopInv'
<1>1. /\ Turn(h, "get", "off") /\ handlers[h].at = "spawn" /\ fed # "none"
      /\ UNCHANGED <<fed, watchdogQuit, cancelled, stopped>>
  BY DEF spawnLoop, LoopInv, NothingYet
<1>2. \/ UNCHANGED <<fedQuit, threads>> /\ fedQuit # NoQuit
      \/ \E g \in LoopIds :
           /\ g \notin Alive /\ fedQuit = NoQuit
           /\ fedQuit' = g /\ threads' = [threads EXCEPT ![g] = Started]
  BY DEF spawnLoop, IsNext
<1>3. LoopTypeOK'
  <2>1. handlers' \in HandlerStates
    BY <1>1, TurnKeeps
  <2>2. Started \in [at : {"off", "tick", "drop", "probe", "wait"}, closed : BOOLEAN]
    BY DEF Started
  <2>3. fedQuit' \in LoopIds \cup {NoQuit} /\ threads' \in ThreadStates
    BY <1>2, <2>2 DEF LoopInv, LoopTypeOK, ThreadStates
  <2> QED BY <1>1, <2>1, <2>3 DEF LoopInv, LoopTypeOK, ThreadStates, HandlerStates
<1>4. fedQuit' # NoQuit /\ \A k \in Handlers : handlers'[k].at = "remove" => fed' = "gone"
  BY <1>1, <1>2, TurnKeeps, Numbers DEF LoopInv, RemovedWhenGone, Threads
<1>5. CASE UNCHANGED <<fedQuit, threads>>
  BY <1>1, <1>3, <1>4, <1>5
     DEF LoopInv, Registered, Running, OnItsWay, RemovedWhenGone, NothingYet
<1>6. ASSUME NEW g \in LoopIds, fedQuit = NoQuit,
             fedQuit' = g, threads' = [threads EXCEPT ![g] = Started]
      PROVE  LoopInv'
  <2>1. \A k \in Threads : threads'[k] = IF k = g THEN Started ELSE threads[k]
    BY <1>6 DEF LoopInv, LoopTypeOK
  <2>2. Registered'
    BY <1>1, <1>6, <2>1, Numbers DEF LoopInv, Registered
  <2>3. Running'
    BY <1>6, <2>1 DEF Running, Started, Threads
  <2>4. OnItsWay' /\ NothingYet'
    BY <1>1, <1>4 DEF OnItsWay, NothingYet
  <2>5. RemovedWhenGone'
    BY <1>1, <1>4, <2>1 DEF LoopInv, RemovedWhenGone, Started, Threads
  <2> QED BY <1>3, <2>2, <2>3, <2>4, <2>5 DEF LoopInv
<1> QED BY <1>2, <1>5, <1>6

(* The watchdog's registration and its end leave the loop alone.               *)
LEMMA WatchdogSteps ==
  ASSUME LoopInv, NEW h \in Handlers, spawnWatchdog(h) \/ stopWatchdog(h)
  PROVE  LoopInv'
<1>1. /\ Turn(h, "idle", "off") /\ handlers[h].at = "reconcile" /\ fed # "none"
      /\ UNCHANGED <<fed, fedQuit, cancelled, stopped>>
  BY DEF spawnWatchdog, stopWatchdog, LoopInv, NothingYet
<1>2. handlers' \in HandlerStates /\ (OnItsWay /\ NothingYet)'
      /\ \A k \in Handlers : handlers'[k].at = "remove" => fed' = "gone"
  BY <1>1, TurnKeeps DEF LoopInv, OnItsWay, NothingYet, RemovedWhenGone
<1>3. threads \in ThreadStates /\ fedQuit \in LoopIds \cup {NoQuit}
      /\ watchdogQuit \in WatchdogIds \cup {NoQuit}
  BY DEF LoopInv, LoopTypeOK, ThreadStates
<1>4. ASSUME threads' \in ThreadStates, watchdogQuit' \in WatchdogIds \cup {NoQuit}, Registered',
             \A g \in LoopIds :
               /\ threads'[g].at = threads[g].at
               /\ threads'[g].closed <=> threads[g].closed
      PROVE  LoopInv'
  <2>1. LoopTypeOK'
    BY <1>1, <1>2, <1>4 DEF LoopInv, LoopTypeOK, ThreadStates, HandlerStates
  <2>2. Running' /\ RemovedWhenGone'
    BY <1>1, <1>2, <1>3, <1>4 DEF LoopInv, Running, RemovedWhenGone
  <2> QED BY <1>2, <1>4, <2>1, <2>2 DEF LoopInv
<1>5. CASE UNCHANGED <<watchdogQuit, threads>>
  BY <1>1, <1>3, <1>4, <1>5 DEF LoopInv, Registered
<1>6. ASSUME NEW g \in WatchdogIds, watchdogQuit = NoQuit, watchdogQuit' = g,
             threads' = [threads EXCEPT ![g] = Started]
      PROVE  LoopInv'
  <2>1. Started \in [at : {"off", "tick", "drop", "probe", "wait"}, closed : BOOLEAN]
    BY DEF Started
  <2>2. threads' \in ThreadStates /\ \A k \in Threads :
          threads'[k] = IF k = g THEN Started ELSE threads[k]
    BY <1>3, <1>6, <2>1 DEF ThreadStates
  <2>3. Registered'
    BY <1>1, <1>6, <2>2, Numbers DEF LoopInv, Registered
  <2>4. \A k \in LoopIds : threads'[k] = threads[k]
    BY <2>2, Numbers DEF Threads
  <2> QED BY <1>4, <1>6, <2>2, <2>3, <2>4
<1>7. CASE threads' = Closed(threads, watchdogQuit) /\ watchdogQuit' = NoQuit
  <2>1. /\ threads' \in ThreadStates
        /\ \A g \in Threads :
             /\ threads'[g].at = threads[g].at
             /\ threads'[g].closed <=> (threads[g].closed \/ g = watchdogQuit)
    BY <1>3, <1>7, ClosedKeeps DEF Threads
  <2>2. Registered'
    BY <1>1, <1>7, <2>1 DEF LoopInv, Registered
  <2>3. watchdogQuit \notin LoopIds /\ LoopIds \subseteq Threads
    BY <1>3, Numbers DEF Threads
  <2> QED BY <1>4, <1>7, <2>1, <2>2, <2>3
<1> QED BY <1>5, <1>6, <1>7 DEF spawnWatchdog, stopWatchdog, IsNext

--------------------------------------------------------------------------------
(* A goroutine goes on, as a tick, a probe or a wait.                          *)
LEMMA GoroutineMoves ==
  ASSUME LoopInv, NEW g \in Threads, NEW at \in {"tick", "drop", "probe", "wait"}, Goes(g, at),
         threads[g].at # "off", at = "drop" /\ g \in LoopIds => fed = "gone",
         UNCHANGED Quits, UNCHANGED Requests,
         fed' = fed \/ (fed \in Policies /\ fed' \in Policies)
  PROVE  LoopInv'
<1>1. /\ threads' \in ThreadStates
      /\ \A k \in Threads :
           /\ threads'[k].at = IF k = g THEN at ELSE threads[k].at
           /\ threads'[k].closed = threads[k].closed
  BY DEF LoopInv, LoopTypeOK, ThreadStates, Goes, Moved
<1>2. UNCHANGED <<fedQuit, watchdogQuit, handlers, cancelled, stopped>>
  BY DEF Quits, Requests
<1>3. LoopTypeOK'
  BY <1>1, <1>2 DEF LoopInv, LoopTypeOK, ThreadStates
<1>4. Registered' /\ OnItsWay' /\ NothingYet'
  BY <1>1, <1>2 DEF LoopInv, Registered, OnItsWay, NothingYet, Policies
<1>5. Running'
  BY <1>1, <1>2 DEF LoopInv, LoopTypeOK, Running, Threads
<1>6. RemovedWhenGone'
  <2>1. fed = "gone" => fed' = "gone"
    BY DEF Policies
  <2> QED BY <1>1, <1>2, <2>1 DEF LoopInv, RemovedWhenGone, Threads
<1> QED BY <1>3, <1>4, <1>5, <1>6 DEF LoopInv

LEMMA GoroutineSteps ==
  ASSUME LoopInv, NEW g \in Threads,
         LoopTick(g) \/ WatchdogTick(g) \/ Probed(g) \/ Wakes(g)
  PROVE  LoopInv'
<1>1. CASE LoopTick(g)
  BY <1>1, GoroutineMoves DEF LoopTick
<1>2. CASE WatchdogTick(g)
  BY <1>2, GoroutineMoves, Numbers DEF WatchdogTick
<1>3. CASE Probed(g)
  BY <1>3, GoroutineMoves DEF Probed, Policies
<1>4. CASE Wakes(g)
  BY <1>4, GoroutineMoves DEF Wakes
<1> QED BY <1>1, <1>2, <1>3, <1>4

LEMMA MovedKeeps ==
  ASSUME LoopInv, NEW g \in Threads, threads[g].at = "drop"
  PROVE  /\ Moved(g, "wait") \in ThreadStates
         /\ \A k \in Threads :
              /\ Moved(g, "wait")[k].closed = threads[k].closed
              /\ Moved(g, "wait")[k].at = IF k = g THEN "wait" ELSE threads[k].at
BY DEF LoopInv, LoopTypeOK, ThreadStates, Moved

LEMMA DropSteps ==
  ASSUME LoopInv, NEW g \in Threads, LoopDrop(g) \/ WatchdogDrop(g)
  PROVE  LoopInv'
<1> DEFINE f == Moved(g, "wait")
<1>1. threads[g].at = "drop" /\ fed' = fed /\ UNCHANGED <<handlers, cancelled, stopped>>
  BY DEF LoopDrop, WatchdogDrop, Requests
<1>2. f \in ThreadStates /\ \A k \in Threads :
        f[k].closed = threads[k].closed /\ f[k].at = IF k = g THEN "wait" ELSE threads[k].at
  BY <1>1, MovedKeeps
<1>3. NothingYet'
  BY <1>1 DEF LoopInv, NothingYet
<1>4. CASE LoopDrop(g)
  <2>1. fed = "gone" /\ threads' = Removed(f) /\ fedQuit' = NoQuit /\ watchdogQuit' = NoQuit
    BY <1>4 DEF LoopDrop, LoopInv, RemovedWhenGone
  <2> HIDE DEF f
  <2>2. /\ threads' \in ThreadStates
        /\ Registered' /\ Running' /\ OnItsWay'
        /\ \A k \in LoopIds : threads'[k].at = "drop" => fed' = "gone"
    BY <1>1, <1>2, <2>1, AllClosed
  <2>3. LoopTypeOK' /\ RemovedWhenGone'
    BY <1>1, <2>1, <2>2 DEF LoopInv, LoopTypeOK, RemovedWhenGone, ThreadStates
  <2> QED BY <1>3, <2>2, <2>3 DEF LoopInv
<1>5. CASE WatchdogDrop(g)
  <2>1. threads' = Closed(f, watchdogQuit) /\ watchdogQuit' = NoQuit /\ fedQuit' = fedQuit
    BY <1>5 DEF WatchdogDrop
  <2> HIDE DEF f
  <2>2. watchdogQuit \in WatchdogIds \cup {NoQuit} /\ fedQuit \in LoopIds \cup {NoQuit}
    BY DEF LoopInv, LoopTypeOK
  <2>3. /\ threads' \in ThreadStates
        /\ \A k \in Threads :
             /\ threads'[k].at = IF k = g THEN "wait" ELSE threads[k].at
             /\ threads'[k].closed <=> (threads[k].closed \/ k = watchdogQuit)
    <3>1. watchdogQuit \in Threads \cup {NoQuit}
      BY <2>2 DEF Threads
    <3>2. /\ Closed(f, watchdogQuit) \in ThreadStates
          /\ \A k \in Threads :
               /\ Closed(f, watchdogQuit)[k].at = f[k].at
               /\ Closed(f, watchdogQuit)[k].closed <=> (f[k].closed \/ k = watchdogQuit)
      BY <1>2, <3>1, ClosedKeeps
    <3> QED BY <1>2, <2>1, <3>2
  <2>4. LoopTypeOK'
    BY <1>1, <2>1, <2>3 DEF LoopInv, LoopTypeOK, ThreadStates
  <2>5. Registered'
    BY <1>1, <2>1, <2>3 DEF LoopInv, Registered
  <2>6. watchdogQuit \notin LoopIds /\ LoopIds \subseteq Threads
    BY <2>2, Numbers DEF Threads
  <2>7. Running'
    BY <1>1, <2>1, <2>2, <2>3, <2>6 DEF LoopInv, Running
  <2>8. OnItsWay' /\ RemovedWhenGone'
    BY <1>1, <2>1, <2>3, <2>6 DEF LoopInv, OnItsWay, RemovedWhenGone
  <2> QED BY <1>3, <2>4, <2>5, <2>7, <2>8 DEF LoopInv
<1> QED BY <1>4, <1>5

LEMMA ReturnsStep ==
  ASSUME LoopInv, NEW g \in Threads, Returns(g) PROVE LoopInv'
<1>1. /\ threads' = [threads EXCEPT ![g] = NoThread] /\ (threads[g].closed \/ cancelled)
      /\ UNCHANGED <<fed, fedQuit, watchdogQuit, handlers, cancelled, stopped>>
  BY DEF Returns, Quits, Requests
<1>2. NoThread \in [at : {"off", "tick", "drop", "probe", "wait"}, closed : BOOLEAN]
  BY DEF NoThread
<1>3. threads' \in ThreadStates /\ \A k \in Threads :
        threads'[k] = IF k = g THEN NoThread ELSE threads[k]
  BY <1>1, <1>2 DEF LoopInv, LoopTypeOK, ThreadStates
<1>4. LoopTypeOK'
  BY <1>1, <1>3 DEF LoopInv, LoopTypeOK, ThreadStates
<1>5. Registered' /\ OnItsWay' /\ NothingYet'
  BY <1>1, <1>3 DEF LoopInv, Registered, OnItsWay, NothingYet, NoThread
<1>6. Running'
  BY <1>1, <1>3 DEF LoopInv, LoopTypeOK, Running, Threads
<1>7. RemovedWhenGone'
  BY <1>1, <1>3 DEF LoopInv, RemovedWhenGone, NoThread, Threads
<1> QED BY <1>4, <1>5, <1>6, <1>7 DEF LoopInv

LEMMA EndSteps ==
  ASSUME LoopInv, Interrupted \/ StopCancels \/ StopCloses PROVE LoopInv'
<1>1. CASE Interrupted \/ StopCancels
  <2>1. cancelled' /\ cancelled' \in BOOLEAN /\ stopped' \in {"no", "closing", "yes"}
        /\ UNCHANGED <<fed, fedQuit, watchdogQuit, threads, handlers>>
    BY <1>1 DEF Interrupted, StopCancels, LoopInv, LoopTypeOK
  <2> QED BY <2>1 DEF LoopInv, LoopTypeOK, Registered, Running, OnItsWay, RemovedWhenGone, NothingYet
<1>2. CASE StopCloses
  <2>1. /\ threads' = Removed(threads) /\ fedQuit' = NoQuit /\ watchdogQuit' = NoQuit
        /\ cancelled /\ stopped' = "yes" /\ UNCHANGED <<fed, handlers, cancelled>>
    BY <1>2 DEF StopCloses, LoopInv, RemovedWhenGone
  <2>2. threads \in ThreadStates
    BY DEF LoopInv, LoopTypeOK, ThreadStates
  <2>3. /\ threads' \in ThreadStates
        /\ Registered' /\ Running' /\ OnItsWay'
        /\ \A g \in LoopIds : threads'[g].at = "drop" => fed' = "gone"
    BY <2>1, <2>2, AllClosed
  <2>4. LoopTypeOK' /\ RemovedWhenGone' /\ NothingYet'
    BY <2>1, <2>3 DEF LoopInv, LoopTypeOK, RemovedWhenGone, NothingYet, ThreadStates
  <2> QED BY <2>3, <2>4 DEF LoopInv
<1> QED BY <1>1, <1>2

LEMMA LoopInvStep == LoopInv /\ [LoopNext]_loopVars => LoopInv'
<1> SUFFICES ASSUME LoopInv, [LoopNext]_loopVars PROVE LoopInv'
  OBVIOUS
<1>1. ASSUME NEW h \in Handlers, LoopHandler(h) PROVE LoopInv'
  BY <1>1, HandlerSteps, RemoveSteps, SpawnLoopStep, WatchdogSteps DEF LoopHandler
<1>2. ASSUME NEW g \in Threads, Works(g) \/ Returns(g) PROVE LoopInv'
  BY <1>2, GoroutineSteps, DropSteps, ReturnsStep DEF Works
<1>3. CASE UNCHANGED loopVars
  BY <1>3 DEF loopVars, LoopInv, LoopTypeOK, Registered, Running, OnItsWay, RemovedWhenGone,
              NothingYet
<1> QED BY <1>1, <1>2, <1>3, EndSteps DEF LoopNext

(* EnsureLoop, spawnLoop's second look under the lock, RemoveLoop, Stop and the*)
(* goroutines' own deregistration: for any number of requests and goroutines, *)
(* only the registered loop and watchdog have not been told to quit, and an    *)
(* idle engine has the loop of its federation.                                *)
THEOREM OneLoop == LoopSpec => []OneLoopEach
<1>1. LoopInv => OneLoopEach
  <2> SUFFICES ASSUME LoopInv PROVE OneLoopEach
    OBVIOUS
  <2>1. \A g \in Alive : threads[g].closed \/ g \in {fedQuit, watchdogQuit}
    BY DEF Alive, LoopInv, Registered
  <2>2. fed \in Policies /\ ~cancelled /\ (\A h \in Handlers : handlers[h].at = "idle")
          => fedQuit \in Alive /\ ~threads[fedQuit].closed
    BY DEF Alive, LoopInv, LoopTypeOK, OnItsWay, Running, Threads
  <2> QED BY <2>1, <2>2 DEF OneLoopEach
<1> QED BY LoopInvInit, LoopInvStep, <1>1, PTL DEF LoopSpec

--------------------------------------------------------------------------------
(* tickFederation and tickWatchdog stop "themselves" by name: they close       *)
(* whatever is registered by then, which another request may have replaced.    *)
(* The goroutine that asked is told to quit all the same - it was registered,  *)
(* or whoever took its place in the maps had told it.                          *)
DropsItself ==
  [][\A g \in Threads :
       threads[g].at = "drop" /\ threads'[g].at # "drop" => threads'[g].closed]_loopVars

LEMMA DropStep ==
  LoopInv /\ [LoopNext]_loopVars =>
    \A g \in Threads :
      threads[g].at = "drop" /\ threads'[g].at # "drop" => threads'[g].closed
<1> SUFFICES ASSUME LoopInv, [LoopNext]_loopVars, NEW g \in Threads,
                    threads[g].at = "drop", threads'[g].at # "drop"
             PROVE  threads'[g].closed
  OBVIOUS
<1>1. threads \in ThreadStates /\ watchdogQuit \in WatchdogIds \cup {NoQuit}
      /\ fedQuit \in LoopIds \cup {NoQuit}
  BY DEF LoopInv, LoopTypeOK, ThreadStates
<1>2. threads[g].closed \/ g = fedQuit \/ g = watchdogQuit
  BY DEF LoopInv, Registered
<1>3. ASSUME threads' = threads \/ threads' = Removed(threads) \/
             threads' = Closed(threads, watchdogQuit)
      PROVE  FALSE
  <2>1. watchdogQuit \in Threads \cup {NoQuit}
    BY <1>1 DEF Threads
  <2> QED BY <1>1, <1>3, <2>1, RemovedKeeps, ClosedKeeps
<1>4. ASSUME NEW k \in Threads, threads' = [threads EXCEPT ![k] = Started], k \notin Alive
      PROVE  FALSE
  BY <1>1, <1>4 DEF Alive, ThreadStates
<1>5. ASSUME NEW h \in Handlers, LoopHandler(h) PROVE FALSE
  <2>1. CASE RemoveLoop(h) \/ stopWatchdog(h)
    BY <1>3, <2>1 DEF RemoveLoop, stopWatchdog
  <2>2. CASE spawnLoop(h)
    BY <1>3, <1>4, <2>2 DEF spawnLoop, IsNext, Threads
  <2>3. CASE spawnWatchdog(h)
    BY <1>3, <1>4, <2>3 DEF spawnWatchdog, IsNext, Threads
  <2>4. CASE /\ ~RemoveLoop(h) /\ ~stopWatchdog(h) /\ ~spawnLoop(h) /\ ~spawnWatchdog(h)
    <3>1. threads' = threads
      BY <1>5, <2>4 DEF LoopHandler, CreateFederation, UpdateFederation, ResyncFederation,
         FailoverRead, FailoverWrite, DeleteFederation, EnsureLoop, ReadPolicy, LookForWatchdog,
         Engine
    <3> QED BY <1>3, <3>1
  <2> QED BY <2>1, <2>2, <2>3, <2>4
<1>6. ASSUME NEW k \in Threads, Works(k) \/ Returns(k) PROVE threads'[g].closed
  <2>1. CASE k # g
    <3>1. CASE LoopTick(k) \/ WatchdogTick(k) \/ Probed(k) \/ Wakes(k) \/ Returns(k)
      BY <1>1, <2>1, <3>1 DEF LoopTick, WatchdogTick, Probed, Wakes, Returns, Goes, Moved,
         ThreadStates
    <3> DEFINE f == Moved(k, "wait")
    <3>2. CASE LoopDrop(k) \/ WatchdogDrop(k)
      <4>1. threads[k].at = "drop" /\ (threads' = Removed(f) \/ threads' = Closed(f, watchdogQuit))
        BY <3>2 DEF LoopDrop, WatchdogDrop
      <4>2. f \in ThreadStates /\ f[g].at = threads[g].at
        BY <2>1, <4>1, MovedKeeps
      <4>3. watchdogQuit \in Threads \cup {NoQuit}
        BY <1>1 DEF Threads
      <4> HIDE DEF f
      <4> QED BY <4>1, <4>2, <4>3, RemovedKeeps, ClosedKeeps
    <3> QED BY <1>6, <3>1, <3>2 DEF Works
  <2>2. CASE k = g
    <3> DEFINE f == Moved(g, "wait")
    <3>1. f \in ThreadStates /\ f[g].closed = threads[g].closed
      BY MovedKeeps
    <3>2. CASE LoopDrop(g)
      <4>1. threads' = Removed(f)
        BY <3>2 DEF LoopDrop
      <4> HIDE DEF f
      <4> QED BY <1>2, <3>1, <4>1, RemovedKeeps
    <3>3. CASE WatchdogDrop(g)
      <4>1. threads' = Closed(f, watchdogQuit) /\ g # fedQuit
        BY <1>1, <3>3, Numbers DEF WatchdogDrop
      <4>2. watchdogQuit \in Threads \cup {NoQuit}
        BY <1>1 DEF Threads
      <4> HIDE DEF f
      <4> QED BY <1>2, <3>1, <4>1, <4>2, ClosedKeeps
    <3> QED BY <1>6, <2>2, <3>2, <3>3
            DEF Works, LoopTick, WatchdogTick, Probed, Wakes, Returns
  <2> QED BY <2>1, <2>2
<1>7. CASE Interrupted \/ StopCancels \/ StopCloses \/ UNCHANGED loopVars
  BY <1>3, <1>7 DEF Interrupted, StopCancels, StopCloses, loopVars
<1> QED BY <1>5, <1>6, <1>7 DEF LoopNext

(* A goroutine that found no record is told to quit by the time it has asked   *)
(* for it: whatever requests and Stop do in between, and however many there are.*)
THEOREM DroppersAreTold == LoopSpec => DropsItself
<1> QED BY LoopInvInit, LoopInvStep, DropStep, PTL DEF LoopSpec, DropsItself

--------------------------------------------------------------------------------
(* FederationTakeover.                                                         *)

(* A pass or a task that has the epoch of the record has its primary too, and   *)
(* its target is another; what it was queued or begun with is never newer.     *)
Elsewhere(dst, e) == e <= fb.epoch /\ (e = fb.epoch => dst # fb.primary)
PassElsewhere ==
  tick # Resting =>
    /\ tick.snap.epoch <= fb.epoch
    /\ tick.snap.epoch = fb.epoch => tick.snap.primary = fb.primary
    /\ tick.snap.primary \notin tick.left
    /\ tick.at # "pick" => tick.dst # tick.snap.primary
TasksElsewhere ==
  /\ \A k \in eventTasks : Elsewhere(k.dst, k.epoch)
  /\ event # Resting => Elsewhere(event.task.dst, event.task.epoch)
PrimaryApart == fb.primary \notin fb.replicas

TkInv == TkTypeOK /\ PrimaryApart /\ PassElsewhere /\ TasksElsewhere /\ DamageIsLate

LEMMA TkInvInit == TkInit => TkInv
<1> SUFFICES ASSUME TkInit PROVE TkInv
  OBVIOUS
<1>1. PICK p \in Targets : \E reps \in SUBSET (Targets \ {p}) :
        fb = [epoch |-> 0, primary |-> p, replicas |-> reps,
               lastSync |-> [t \in Targets |-> 0]]
  BY DEF TkInit
<1>2. NoObject \in Object
  BY DEF NoObject, Object
<1>3. TkTypeOK
  <2>1. fb \in Federation
    BY <1>1 DEF Federation
  <2>2. bucket \in [Targets -> Object]
    BY <1>2 DEF TkInit
  <2> QED BY <2>1, <2>2 DEF TkInit, TkTypeOK
<1>4. DamageIsLate
  <2>1. fb.primary = p
    BY <1>1
  <2> QED BY <2>1 DEF TkInit, DamageIsLate, NoObject
<1> QED BY <1>1, <1>3, <1>4 DEF TkInit, TkInv, PrimaryApart, PassElsewhere, TasksElsewhere

(* What the record keeps when only a watermark in it changes.                  *)
LEMMA HealthKeeps ==
  ASSUME TkTypeOK, NEW t \in Targets, NEW w \in Nat, UpdateReplicaHealth(t, w)
  PROVE  /\ fb' \in Federation
         /\ fb'.epoch = fb.epoch /\ fb'.primary = fb.primary
         /\ fb'.replicas = fb.replicas
BY DEF TkTypeOK, UpdateReplicaHealth, Federation

(* The steps of clients, and of time.                                          *)
LEMMA ClientSteps == ASSUME TkInv, Writers \/ Advance PROVE TkInv'
<1>t. /\ bucket \in [Targets -> Object] /\ fb.primary \in Targets
      /\ NoObject \in Object /\ NoObject.ver = 0
  BY DEF TkInv, TkTypeOK, Federation, NoObject, Object
<1>1. CASE Upload
  <2>1. [ver |-> versions', mtime |-> time] \in Object /\ versions' \in Nat
    BY <1>1 DEF Upload, TkInv, TkTypeOK, Object
  <2>2. TkTypeOK' /\ DamageIsLate'
    BY <1>1, <1>t, <2>1 DEF Upload, Workers, TkInv, TkTypeOK, DamageIsLate
  <2> QED BY <1>1, <2>2 DEF Upload, Workers, TkInv, PrimaryApart, PassElsewhere,
                            TasksElsewhere, Elsewhere
<1>2. CASE DeleteObject
  <2>1. bucket[fb.primary].ver \in Nat
    BY <1>t DEF Object
  <2>2. TkTypeOK' /\ DamageIsLate'
    BY <1>2, <1>t, <2>1 DEF DeleteObject, Workers, TkInv, TkTypeOK, DamageIsLate
  <2> QED BY <1>2, <2>2 DEF DeleteObject, Workers, TkInv, PrimaryApart, PassElsewhere,
                            TasksElsewhere, Elsewhere
<1>3. CASE Advance
  BY <1>3 DEF Advance, Workers, TkInv, TkTypeOK, PrimaryApart, PassElsewhere,
              TasksElsewhere, Elsewhere, DamageIsLate
<1> QED BY <1>1, <1>2, <1>3 DEF Writers

(* A promotion leaves every pass and task of before an epoch behind.           *)
LEMMA PromoteStep == ASSUME TkInv, NEW r \in Targets, Promote(r) PROVE TkInv'
<1>1. /\ r \in fb.replicas /\ fb' = Swapped(r, (fb.replicas \ {r}) \cup {fb.primary})
      /\ shown' = bucket[r].ver
      /\ UNCHANGED <<time, bucket, versions, bus, tick, eventTasks, event, late>>
  BY DEF Promote, Takes, Workers
<1>2. /\ fb'.epoch = fb.epoch + 1 /\ fb'.primary = r
      /\ fb'.replicas = (fb.replicas \ {r}) \cup {fb.primary} /\ fb' \in Federation
  BY <1>1 DEF Swapped, TkInv, TkTypeOK, Federation
<1>3. TkTypeOK' /\ DamageIsLate'
  BY <1>1, <1>2 DEF TkInv, TkTypeOK, DamageIsLate, Object
<1>4. PrimaryApart'
  BY <1>1, <1>2 DEF TkInv, PrimaryApart
<1>5. fb.epoch \in Nat
  BY DEF TkInv, TkTypeOK, Federation
<1>6. PassElsewhere'
  <2>1. tick # Resting => tick.snap.epoch \in Nat
    BY DEF TkInv, TkTypeOK, Pass, Federation
  <2> QED BY <1>1, <1>2, <1>5, <2>1 DEF TkInv, PassElsewhere
<1>7. TasksElsewhere'
  <2>1. /\ \A k \in eventTasks : k.epoch \in Nat
        /\ event # Resting => event.task.epoch \in Nat
    BY DEF TkInv, TkTypeOK, Run, DeleteTask
  <2> QED BY <1>1, <1>2, <1>5, <2>1 DEF TkInv, TasksElsewhere, Elsewhere
<1> QED BY <1>3, <1>4, <1>6, <1>7 DEF TkInv

--------------------------------------------------------------------------------
(* A pass moves on, and nothing else does.                                     *)
LEMMA PassMoves ==
  ASSUME TkInv, Reads, tick' \in {Resting} \cup Pass, PassElsewhere' PROVE TkInv'
BY DEF Reads, Besides, TkInv, TkTypeOK, PrimaryApart, TasksElsewhere, Elsewhere, DamageIsLate

LEMMA PassReads ==
  ASSUME TkInv, NEW t \in Targets,
         \/ TickStart \/ TickDone \/ PickReplica(t) \/ ListObjects \/ Examine
         \/ CopyRead \/ RecordSuccess
  PROVE  TkInv'
<1>t. /\ fb \in Federation /\ time \in Nat /\ bucket \in [Targets -> Object]
      /\ NoObject \in Object /\ tick \in {Resting} \cup Pass /\ Resting.at = "idle"
  BY DEF TkInv, TkTypeOK, NoObject, Object, Resting
<1>s. ASSUME tick \in Pass
      PROVE  /\ tick # Resting /\ tick.snap \in Federation /\ tick.left \subseteq Targets
             /\ tick.dst \in Targets /\ tick.snap.primary \in Targets
             /\ tick.snap.lastSync[tick.dst] \in Nat
             /\ PassElsewhere
  BY <1>s, <1>t DEF TkInv, Pass, Federation
<1>1. CASE TickStart
  <2>1. Between(fb, fb.replicas) \in Pass /\ fb.epoch <= fb.epoch
    BY <1>t DEF Between, Pass, Federation
  <2>2. PassElsewhere'
    BY <1>1, <2>1 DEF TickStart, Reads, PassElsewhere, Between, TkInv, PrimaryApart
  <2> QED BY <1>1, <2>1, <2>2, PassMoves DEF TickStart
<1>2. CASE TickDone
  BY <1>2, PassMoves DEF TickDone, PassElsewhere
<1>3. CASE PickReplica(t)
  <2>1. tick \in Pass /\ Reads /\ t \in tick.left
        /\ tick' = [tick EXCEPT !.at = "list", !.dst = t, !.left = @ \ {t}]
    BY <1>3, <1>t DEF PickReplica
  <2>2. tick' \in Pass /\ PassElsewhere'
    BY <1>s, <2>1 DEF Pass, PassElsewhere, Reads
  <2> QED BY <2>1, <2>2, PassMoves
<1>4. CASE ListObjects
  <2>1. tick \in Pass /\ Reads
        /\ tick' = [tick EXCEPT !.at = "examine", !.obj = bucket[tick.snap.primary]]
        /\ tick.at # "pick"
    BY <1>4, <1>t DEF ListObjects
  <2>2. tick' \in Pass /\ PassElsewhere'
    BY <1>s, <1>t, <2>1 DEF Pass, PassElsewhere, Reads
  <2> QED BY <2>1, <2>2, PassMoves
<1>5. CASE Examine
  <2>1. tick \in Pass /\ Reads /\ tick.at # "pick"
        /\ \E at \in {"read", "done"} : tick' = [tick EXCEPT !.at = at]
    BY <1>5, <1>t DEF Examine
  <2>2. tick' \in Pass /\ PassElsewhere'
    BY <1>s, <2>1 DEF Pass, PassElsewhere, Reads
  <2> QED BY <2>1, <2>2, PassMoves
<1>6. CASE CopyRead
  <2>1. tick \in Pass /\ Reads /\ tick.at # "pick"
        /\ \/ tick' = [tick EXCEPT !.at = "put", !.obj = bucket[tick.snap.primary]]
           \/ tick' = [tick EXCEPT !.at = "write", !.obj = NoObject,
                                   !.upd = tick.snap.lastSync[tick.dst]]
    BY <1>6, <1>t DEF CopyRead
  <2>2. tick' \in Pass /\ PassElsewhere'
    BY <1>s, <1>t, <2>1 DEF Pass, PassElsewhere, Reads
  <2> QED BY <2>1, <2>2, PassMoves
<1>7. CASE RecordSuccess
  <2>1. tick \in Pass /\ Reads /\ tick.at # "pick"
        /\ tick' = [tick EXCEPT !.at = "write", !.upd = time, !.obj = NoObject]
    BY <1>7, <1>t DEF RecordSuccess
  <2>2. tick' \in Pass /\ PassElsewhere'
    BY <1>s, <1>t, <2>1 DEF Pass, PassElsewhere, Reads
  <2> QED BY <2>1, <2>2, PassMoves
<1> QED BY <1>1, <1>2, <1>3, <1>4, <1>5, <1>6, <1>7

(* A copy lands on the primary only when the pass is of an earlier epoch.      *)
LEMMA PassWrites == ASSUME TkInv, CopyPut \/ TickWrite PROVE TkInv'
<1>t. /\ tick \in Pass /\ tick # Resting /\ tick.at # "pick" /\ tick.dst \in Targets
      /\ tick.snap \in Federation /\ tick.left \subseteq Targets /\ tick.upd \in Nat
      /\ tick.snap.primary \in Targets /\ tick.obj.ver \in Nat
  BY DEF TkInv, TkTypeOK, CopyPut, TickWrite, Pass, Federation, Resting, Object
<1>1. CASE CopyPut
  <2>1. /\ tick' = [tick EXCEPT !.at = "done"]
        /\ bucket' = [bucket EXCEPT ![tick.dst] = [ver |-> tick.obj.ver, mtime |-> time]]
        /\ late' = (late \/ tick.snap.epoch # fb.epoch)
        /\ UNCHANGED <<time, versions, bus, eventTasks, event, shown, fb>>
    BY <1>1 DEF CopyPut, Besides
  <2>2. tick' \in Pass /\ bucket' \in [Targets -> Object] /\ late' \in BOOLEAN
    BY <1>t, <2>1 DEF TkInv, TkTypeOK, Pass, Object
  <2>3. TkTypeOK'
    BY <2>1, <2>2 DEF TkInv, TkTypeOK
  <2>4. PassElsewhere'
    BY <1>t, <2>1 DEF TkInv, PassElsewhere, Pass
  <2>5. ~late' => tick.dst # fb.primary
    BY <1>t, <2>1 DEF TkInv, PassElsewhere
  <2>6. DamageIsLate'
    BY <2>1, <2>5 DEF TkInv, TkTypeOK, DamageIsLate, Federation
  <2> QED BY <2>1, <2>3, <2>4, <2>6 DEF TkInv, PrimaryApart, TasksElsewhere, Elsewhere
<1>2. CASE TickWrite
  <2>1. /\ tick' = Between(tick.snap, tick.left) /\ UpdateReplicaHealth(tick.dst, tick.upd)
        /\ UNCHANGED <<time, versions, bus, eventTasks, event, shown, bucket, late>>
    BY <1>2 DEF TickWrite, Besides
  <2>2. /\ fb' \in Federation /\ fb'.epoch = fb.epoch /\ fb'.primary = fb.primary
        /\ fb'.replicas = fb.replicas
    BY <1>t, <2>1, HealthKeeps DEF TkInv
  <2>3. tick' \in Pass
    BY <1>t, <2>1 DEF Between, Pass, NoObject, Object
  <2>4. TkTypeOK'
    BY <2>1, <2>2, <2>3 DEF TkInv, TkTypeOK
  <2>5. PassElsewhere'
    BY <1>t, <2>1, <2>2 DEF TkInv, PassElsewhere, Between
  <2> QED BY <2>1, <2>2, <2>4, <2>5
          DEF TkInv, PrimaryApart, TasksElsewhere, Elsewhere, DamageIsLate
<1> QED BY <1>1, <1>2

--------------------------------------------------------------------------------
(* Tasks are queued for the record's replicas, with its epoch.                 *)
LEMMA QueueSteps ==
  ASSUME TkInv, (\E e \in bus : RouteEvent(e)) \/ (\E k \in eventTasks : TakeTask(k))
  PROVE  TkInv'
<1>t. /\ fb \in Federation /\ fb.epoch \in Nat /\ fb.primary \notin fb.replicas
      /\ eventTasks \subseteq DeleteTask
  BY DEF TkInv, TkTypeOK, PrimaryApart, Federation
<1>1. ASSUME NEW e \in bus, RouteEvent(e) PROVE TkInv'
  <2>1. /\ bus' = bus \ {e}
        /\ UNCHANGED <<time, bucket, versions, fb, tick, event, shown, late>>
    BY <1>1 DEF RouteEvent, Rest
  <2>2. e.ver \in Nat
    BY DEF TkInv, TkTypeOK
  <2>3. \A k \in eventTasks' : k \in DeleteTask /\ Elsewhere(k.dst, k.epoch)
    <3>1. ASSUME NEW t \in fb.replicas
          PROVE  LET k == [dst |-> t, epoch |-> fb.epoch, lastSync |-> fb.lastSync[t],
                           ver |-> e.ver]
                 IN  k \in DeleteTask /\ Elsewhere(k.dst, k.epoch)
      BY <1>t, <2>2 DEF DeleteTask, Federation, Elsewhere
    <3>2. \A k \in eventTasks : k \in DeleteTask /\ Elsewhere(k.dst, k.epoch)
      BY <1>t DEF TkInv, TasksElsewhere
    <3> QED BY <1>1, <3>1, <3>2 DEF RouteEvent
  <2>4. TkTypeOK'
    BY <2>1, <2>3 DEF TkInv, TkTypeOK
  <2>5. TasksElsewhere'
    BY <2>1, <2>3 DEF TkInv, TasksElsewhere, Elsewhere
  <2> QED BY <2>1, <2>4, <2>5 DEF TkInv, PrimaryApart, PassElsewhere, DamageIsLate
<1>2. ASSUME NEW k \in eventTasks, TakeTask(k) PROVE TkInv'
  <2>1. /\ eventTasks' = eventTasks \ {k} /\ event' = [at |-> "run", task |-> k, upd |-> 0]
        /\ UNCHANGED <<time, bucket, versions, fb, bus, tick, shown, late>>
    BY <1>2 DEF TakeTask, Rest
  <2>2. event' \in Run
    BY <1>t, <2>1 DEF Run
  <2>3. TkTypeOK' /\ TasksElsewhere'
    BY <2>1, <2>2 DEF TkInv, TkTypeOK, TasksElsewhere, Elsewhere
  <2> QED BY <2>1, <2>3 DEF TkInv, PrimaryApart, PassElsewhere, DamageIsLate
<1> QED BY <1>1, <1>2

(* A delete lands on the primary only when its task is of an earlier epoch.    *)
LEMMA EventSteps == ASSUME TkInv, EventDelete \/ DeleteRead \/ DeleteWrite PROVE TkInv'
<1>t. /\ event \in Run /\ event # Resting /\ event.task \in DeleteTask /\ event.upd \in Nat
      /\ event.task.dst \in Targets /\ event.task.lastSync \in Nat
      /\ Elsewhere(event.task.dst, event.task.epoch)
  BY DEF TkInv, TkTypeOK, TasksElsewhere, EventDelete, DeleteRead, DeleteWrite, Run, DeleteTask, Resting
<1>1. CASE EventDelete
  <2>1. /\ event' = [event EXCEPT !.at = "deleted"]
        /\ bucket' = [bucket EXCEPT ![event.task.dst] = NoObject]
        /\ late' = (late \/ event.task.epoch # fb.epoch)
        /\ UNCHANGED <<time, versions, fb, bus, eventTasks, tick, shown>>
    BY <1>1 DEF EventDelete, Rest
  <2>2. event' \in Run /\ event'.task = event.task
    BY <1>t, <2>1 DEF Run
  <2>3. bucket' \in [Targets -> Object] /\ late' \in BOOLEAN
    BY <2>1 DEF TkInv, TkTypeOK, NoObject, Object
  <2>4. TkTypeOK' /\ TasksElsewhere'
    BY <1>t, <2>1, <2>2, <2>3 DEF TkInv, TkTypeOK, TasksElsewhere, Elsewhere
  <2>5. DamageIsLate'
    BY <1>t, <2>1 DEF TkInv, TkTypeOK, DamageIsLate, Elsewhere, Federation
  <2> QED BY <2>1, <2>4, <2>5 DEF TkInv, PrimaryApart, PassElsewhere
<1>2. CASE DeleteRead
  <2>1. UNCHANGED <<time, versions, bucket, fb, bus, eventTasks, tick, shown, late>>
    BY <1>2 DEF DeleteRead, Rest
  <2>2. event' \in Run /\ event'.task = event.task
    BY <1>2, <1>t DEF DeleteRead, Run, TkInv, TkTypeOK, Federation
  <2>3. TkTypeOK' /\ TasksElsewhere'
    BY <1>t, <2>1, <2>2 DEF TkInv, TkTypeOK, TasksElsewhere, Elsewhere
  <2> QED BY <2>1, <2>3 DEF TkInv, PrimaryApart, PassElsewhere, DamageIsLate
<1>3. CASE DeleteWrite
  <2>1. /\ event' = Resting /\ UpdateReplicaHealth(event.task.dst, event.upd)
        /\ UNCHANGED <<time, versions, bucket, bus, eventTasks, tick, shown, late>>
    BY <1>3 DEF DeleteWrite, Rest
  <2>2. /\ fb' \in Federation /\ fb'.epoch = fb.epoch /\ fb'.primary = fb.primary
        /\ fb'.replicas = fb.replicas
    BY <1>t, <2>1, HealthKeeps DEF TkInv
  <2> QED BY <2>1, <2>2 DEF TkInv, TkTypeOK, PrimaryApart, PassElsewhere, TasksElsewhere,
                            Elsewhere, DamageIsLate
<1> QED BY <1>1, <1>2, <1>3

LEMMA TkInvNext == ASSUME TkInv, TkNext \/ UNCHANGED tkVars PROVE TkInv'
<1>1. CASE UNCHANGED tkVars
  BY <1>1 DEF tkVars, TkInv, TkTypeOK, PrimaryApart, PassElsewhere, TasksElsewhere,
              Elsewhere, DamageIsLate
<1>2. CASE Writers \/ Advance
  BY <1>2, ClientSteps
<1>3. CASE \E r \in Targets : Promote(r)
  BY <1>3, PromoteStep
<1>4. CASE PollingLoop
  <2>1. fb.primary \in Targets
    BY DEF TkInv, TkTypeOK, Federation
  <2> QED BY <1>4, <2>1, PassReads, PassWrites DEF PollingLoop
<1>5. CASE EventWorker
  BY <1>5, QueueSteps, EventSteps DEF EventWorker
<1> QED BY <1>1, <1>2, <1>3, <1>4, <1>5 DEF TkNext

(* Only a pass or a task that began before the last failover changes what the   *)
(* clients of the promoted bucket have written: for any targets, any number of *)
(* failovers, versions and deletes, and whether deletes are published or not.  *)
THEOREM DamageComesLate == TkSpec => []DamageIsLate
<1>1. TkSpec => []TkInv
  BY TkInvInit, TkInvNext, PTL DEF TkSpec
<1>2. TkInv => DamageIsLate
  BY DEF TkInv
<1> QED BY <1>1, <1>2, PTL
================================================================================
