------------------------- MODULE FederationReplication -------------------------
(***************************************************************************)
(* The data plane of one federated bucket: how internal/federation/engine.go *)
(* mirrors the objects of a primary bucket to its replica buckets.           *)
(*                                                                           *)
(* Four kinds of actor interleave:                                           *)
(*   - users, who upload and delete objects on the primary, through basement *)
(*     or past it (presigned URLs, other S3 clients);                        *)
(*   - the polling goroutine (runFederation), which ticks: snapshot the      *)
(*     record, list the primary page by page, HEAD each listed object on the *)
(*     replica, copy what differs with a few workers, record the outcome;    *)
(*   - the webhook bus, which turns a delete made through basement (or a     *)
(*     synthetic test event) into one queued task per replica;               *)
(*   - the event worker (runEventWorker), which drains that queue.           *)
(*                                                                           *)
(* The primary is fixed here; FederationFailover models its replacement.     *)
(* An object is a version number and a modification time: two copies have    *)
(* the same ETag iff they have the same version.                             *)
(*                                                                           *)
(* Time passes at any point: a tick may last longer than LastSyncSlack, and a *)
(* delete event may be handled long after its delete. The history variables   *)
(* touched and late, which no guard reads, record the objects this harms.     *)
(***************************************************************************)
EXTENDS Integers, Sequences, FiniteSets

CONSTANTS
  NumReplicas,   \* the replica buckets are 1..NumReplicas, in the record's order
  NumKeys,       \* object names are 1..NumKeys, in listing order
  PageSize,      \* objects per ListObjects page (1000)
  ScanCap,       \* listed objects after which a tick stops paging (400)
  MaxBatch,      \* MaxBatchPerTick (100)
  Workers,       \* concurrent copies of one batch (4)
  Slack,         \* LastSyncSlack (2 s)
  TickDeadline,  \* bound of one tick's context (1000 s)
  QueueCap,      \* capacity of the event-task channel (128)
  EventKinds,    \* the webhook events that reach the engine
  Bypass,        \* do users also delete past basement?
  LatePuts,      \* may a PUT that was given up on still reach the replica?
  StoreFaults,   \* may writing the record to disk fail?
  Blur,          \* how far a stored mtime may lie behind the engine's clock
  MaxClock, MaxVersion, MaxFaults   \* bounds of the model

ASSUME ReplicationAssumption ==
  /\ NumReplicas \in Nat \ {0} /\ NumKeys \in Nat \ {0} /\ PageSize \in Nat \ {0} /\ ScanCap \in Nat
  /\ MaxBatch \in Nat \ {0} /\ Workers \in Nat \ {0}
  /\ Slack \in Nat /\ TickDeadline \in Nat /\ QueueCap \in Nat
  /\ EventKinds \subseteq {"put", "delete"}
  /\ LatePuts \in BOOLEAN /\ StoreFaults \in BOOLEAN /\ Bypass \in BOOLEAN
  /\ Blur \in Nat /\ MaxClock \in Nat /\ MaxVersion \in Nat /\ MaxFaults \in Nat

VARIABLES
  clock,      \* the engine's clock; 0 is the zero time.Time
  primary,    \* primary[k]: the object stored under k, or NoObject
  replica,    \* replica[r][k]: likewise on replica r
  versions,   \* how many versions users have uploaded so far
  rec,        \* rec[r]: the persisted health fields of replica r
  failures,   \* failures[r]: the engine's consecutive-failure counter
  faults,     \* backend errors the model may still inject
  bus,        \* webhook envelopes not yet routed
  tasks,      \* the event-task channel
  strays,     \* PUTs given up on that the backend may still apply
  tpc, since, floor, left, cur,           \* the tick: where, start, snapshot
  cursor, page, scanned, truncated,       \* its listing
  todo, flying, failed, abandoned, upd,   \* its batch, and the update to write
  epc, etask, ever, eupd,                 \* the event worker
  touched,    \* objects stored, or spoilt on cur, since the pass listed them
  late        \* objects that changed, or were spoilt, after their slack ran out

storeVars == <<rec, failures>>
eventVars == <<epc, etask, ever, eupd>>
listVars == <<cursor, page, scanned, truncated>>
batchVars == <<todo, flying, failed, abandoned>>
tickVars == <<tpc, since, floor, left, cur, listVars, batchVars, upd>>
history == <<touched, late>>
vars == <<clock, primary, replica, versions, storeVars, faults, bus, tasks,
          strays, tickVars, eventVars, history>>

--------------------------------------------------------------------------------
Keys == 1..NumKeys
Replicas == 1..NumReplicas
Object == [ver : Nat, mtime : Nat]
NoObject == [ver |-> 0, mtime |-> 0]
Empty == [k \in Keys |-> NoObject]
Present(bucket) == {k \in Keys : bucket[k].ver > 0}

(* The modification times a backend may stamp on an object stored now: they  *)
(* are truncated to the second and come from another clock.                  *)
Stamps == {t \in (clock - Blur)..clock : t > 0}

Health == {"none", "in-sync", "lagging", "broken"}
Record == [lastSync : Nat, health : Health, lag : Nat]
NewRecord == [lastSync |-> 0, health |-> "none", lag |-> 0]
Task == [kind : {"put", "delete"}, key : Keys, r : Replicas, lastSync : Nat]
BrokenFailureThreshold == 3

Envelope == [kind : {"put", "delete"}, key : Keys, at : Nat]

NoTask == [kind |-> "put", key |-> 1, r |-> 1, lastSync |-> 0]
NoFlight == [k \in Keys |-> 0]

Init ==
  /\ clock = 1
  /\ primary = Empty
  /\ replica = [r \in Replicas |-> Empty]
  /\ versions = 0
  /\ rec = [r \in Replicas |-> NewRecord]
  /\ failures = [r \in Replicas |-> 0]
  /\ faults = MaxFaults
  /\ bus = {} /\ tasks = <<>> /\ strays = {}
  /\ tpc = "idle" /\ since = 0 /\ left = {} /\ cur = 1
  /\ floor = [r \in Replicas |-> 0]
  /\ cursor = 0 /\ page = Empty /\ scanned = 0 /\ truncated = FALSE
  /\ todo = {} /\ flying = NoFlight /\ failed = {} /\ abandoned = {} /\ upd = NewRecord
  /\ epc = "idle" /\ etask = NoTask /\ ever = 0 /\ eupd = NewRecord
  /\ touched = {} /\ late = {}

--------------------------------------------------------------------------------
(* History. A watermark vouches for the objects the LastSync prefilter of      *)
(* computeDiff skips; an object's slack has run out when one stamped now would. *)
SkippedBy(watermark, obj) == watermark > 0 /\ obj.mtime <= watermark - Slack
Elapsed(obj) == SkippedBy(clock, obj)
Passing == tpc \in {"list", "examine", "copy"}

(* A write leaves version ver (0: nothing) of k on replica r. It spoils k when *)
(* the primary holds another version by now.                                   *)
Written(r, k, ver) ==
  LET spoilt == primary[k].ver \notin {0, ver} IN
  /\ touched' = IF spoilt /\ Passing /\ r = cur THEN touched \cup {k} ELSE touched
  /\ late' = IF spoilt /\ Elapsed(primary[k]) THEN late \cup {k} ELSE late

--------------------------------------------------------------------------------
(* Users and time.                                                           *)

(* An upload goes straight to the primary backend; basement sees no event.   *)
Upload(k) ==
  /\ versions < MaxVersion
  /\ versions' = versions + 1
  /\ \E t \in Stamps :
       LET obj == [ver |-> versions + 1, mtime |-> t] IN
       /\ primary' = [primary EXCEPT ![k] = obj]
       /\ late' = IF Elapsed(obj) THEN late \cup {k} ELSE late \ {k}
  /\ touched' = IF Passing THEN touched \cup {k} ELSE touched
  /\ UNCHANGED <<clock, replica, storeVars, faults, bus, tasks, strays, tickVars, eventVars>>

(* A delete made through basement publishes object.deleted; one made past    *)
(* it publishes nothing.                                                     *)
DeleteObject(k, throughBasement) ==
  /\ primary[k].ver > 0 /\ (throughBasement \/ Bypass)
  /\ primary' = [primary EXCEPT ![k] = NoObject]
  /\ bus' = IF throughBasement /\ "delete" \in EventKinds
            THEN bus \cup {[kind |-> "delete", key |-> k, at |-> clock]}
            ELSE bus
  /\ UNCHANGED <<clock, replica, versions, storeVars, faults, tasks, strays, tickVars, eventVars, history>>

(* An object.created envelope for a key (today the /test endpoint only).     *)
PublishPut(k) ==
  /\ "put" \in EventKinds
  /\ [kind |-> "put", key |-> k, at |-> clock] \notin bus
  /\ bus' = bus \cup {[kind |-> "put", key |-> k, at |-> clock]}
  /\ UNCHANGED <<clock, primary, replica, versions, storeVars, faults, tasks, strays, tickVars, eventVars, history>>

Advance ==
  /\ clock < MaxClock
  /\ clock' = clock + 1
  /\ UNCHANGED <<primary, replica, versions, storeVars, faults, bus, tasks, strays, tickVars, eventVars, history>>

--------------------------------------------------------------------------------
(* The health bookkeeping shared by the tick and the event worker.           *)

(* Mutant: the watermark moves to now even when the pass left work behind.   *)
AdvancingSuccess(snapshot, pending, trunc) ==
  [lastSync |-> clock, health |-> IF pending > 0 \/ trunc THEN "lagging" ELSE "in-sync",
   lag |-> pending]

(* recordSuccess: the watermark moves to now only when the pass drained the  *)
(* work; otherwise the value of the pass's snapshot is written back.         *)
SuccessUpdate(snapshot, pending, trunc) ==
  IF pending > 0 \/ trunc
  THEN [lastSync |-> snapshot, health |-> "lagging", lag |-> pending]
  ELSE [lastSync |-> clock, health |-> "in-sync", lag |-> 0]

(* Mutant: a fresh record is stored, without the watermark.                   *)
ForgetfulFailure(r, snapshot) == [NewRecord EXCEPT !.health = "lagging"]

(* recordFailure: the snapshot's watermark is written back.                  *)
FailureUpdate(r, snapshot) ==
  [lastSync |-> snapshot,
   health |-> IF failures'[r] >= BrokenFailureThreshold THEN "broken" ELSE "lagging",
   lag |-> rec[r].lag]

(* The counter only matters up to the threshold.                             *)
incFailureCount(r) ==
  failures' = [failures EXCEPT ![r] = IF @ < BrokenFailureThreshold THEN @ + 1 ELSE @]
StickyFailureCount(r) == failures' = failures   \* mutant: success does not reset
resetFailureCount(r) == failures' = [failures EXCEPT ![r] = 0]

(* UpdateReplicaHealth overwrites the health fields of one replica, whatever  *)
(* they are by now; a write that fails is rolled back and only logged.       *)
UpdateReplicaHealth(r, entry) ==
  \/ rec' = [rec EXCEPT ![r] = entry] /\ UNCHANGED faults
  \/ StoreFaults /\ faults > 0 /\ faults' = faults - 1 /\ UNCHANGED rec

--------------------------------------------------------------------------------
(* The polling tick.                                                         *)

TickStart ==
  /\ tpc = "idle"
  /\ tpc' = "pick" /\ since' = clock /\ left' = Replicas
  /\ floor' = [r \in Replicas |-> rec[r].lastSync]
  /\ UNCHANGED <<clock, primary, replica, versions, storeVars, faults, bus, tasks, strays,
                 cur, listVars, batchVars, upd, eventVars, history>>

TickDone ==
  /\ tpc = "pick" /\ left = {}
  /\ tpc' = "idle" /\ since' = 0 /\ floor' = [r \in Replicas |-> 0]
  /\ UNCHANGED <<clock, primary, replica, versions, storeVars, faults, bus, tasks, strays,
                 left, cur, listVars, batchVars, upd, eventVars, history>>

(* Mutant: the error of the previous pass is still set.                      *)
StaleError ==
  /\ cursor' = 0 /\ page' = Empty /\ scanned' = 0 /\ truncated' = FALSE
  /\ todo' = {} /\ flying' = NoFlight /\ failed' = failed /\ abandoned' = {}

(* computeDiff and replicateBatch start from fresh locals.                   *)
ResetPass ==
  /\ cursor' = 0 /\ page' = Empty /\ scanned' = 0 /\ truncated' = FALSE
  /\ todo' = {} /\ flying' = NoFlight /\ failed' = {} /\ abandoned' = {}

(* replicateToReplica, for the next replica of the snapshot.                 *)
PickReplica(r) ==
  /\ tpc = "pick" /\ r \in left /\ \A q \in left : r <= q
  /\ tpc' = "list" /\ cur' = r /\ left' = left \ {r}
  /\ ResetPass
  /\ UNCHANGED <<clock, primary, replica, versions, storeVars, faults, bus, tasks, strays,
                 since, floor, upd, eventVars, history>>

(* One ListObjects page: the next PageSize names after the cursor.           *)
ListPage ==
  /\ tpc = "list"
  /\ \E last \in cursor..NumKeys :
       LET listed == {k \in Present(primary) : cursor < k /\ k <= last} IN
       /\ \/ last = NumKeys /\ Cardinality(listed) <= PageSize
          \/ last \in listed /\ Cardinality(listed) = PageSize
               /\ \E k \in Present(primary) : k > last
       /\ page' = [k \in Keys |-> IF k \in listed THEN primary[k] ELSE NoObject]
       /\ scanned' = scanned + Cardinality(listed)
       /\ cursor' = last
       /\ touched' = touched \ listed
  /\ tpc' = "examine"
  /\ UNCHANGED <<clock, primary, replica, versions, storeVars, faults, bus, tasks, strays,
                 since, floor, left, cur, truncated, batchVars, upd, eventVars, late>>

(* A call of the tick fails: the backend errs, or the tick's context has ended. *)
CallFails ==
  \/ faults > 0 /\ faults' = faults - 1
  \/ clock >= since + TickDeadline /\ UNCHANGED faults

(* Mutant: no ETag test.                                                     *)
OlderOnly(src, dst) == dst.ver = 0 \/ dst.mtime < src.mtime
(* HEAD on the replica: missing, another ETag, or older than the source. A   *)
(* failed HEAD counts as missing.                                            *)
Differs(src, dst) == dst.ver # src.ver \/ dst.mtime < src.mtime

Examine(k) ==
  /\ tpc = "examine"
  /\ k \in Present(page) /\ \A j \in Present(page) : k <= j
  /\ \/ /\ \/ SkippedBy(floor[cur], page[k])
           \/ ~SkippedBy(floor[cur], page[k]) /\ ~Differs(page[k], replica[cur][k])
        /\ page' = [page EXCEPT ![k] = NoObject]
        /\ UNCHANGED <<todo, truncated, tpc, faults>>
     \/ /\ ~SkippedBy(floor[cur], page[k])
        /\ \/ Differs(page[k], replica[cur][k]) /\ UNCHANGED faults
           \/ CallFails
        /\ todo' = todo \cup {k}
        /\ IF Cardinality(todo') >= MaxBatch
           THEN page' = Empty /\ truncated' = TRUE /\ tpc' = "copy"
           ELSE page' = [page EXCEPT ![k] = NoObject] /\ UNCHANGED <<truncated, tpc>>
  /\ UNCHANGED <<clock, primary, replica, versions, storeVars, bus, tasks, strays, since,
                 floor, left, cur, cursor, scanned, flying, failed, abandoned, upd, eventVars, history>>

PageDone ==
  /\ tpc = "examine" /\ Present(page) = {}
  /\ \/ cursor = NumKeys /\ tpc' = "copy" /\ UNCHANGED truncated
     \/ cursor < NumKeys /\ scanned >= ScanCap /\ tpc' = "copy" /\ truncated' = TRUE
     \/ cursor < NumKeys /\ scanned < ScanCap /\ tpc' = "list" /\ UNCHANGED truncated
  /\ UNCHANGED <<clock, primary, replica, versions, storeVars, faults, bus, tasks, strays,
                 since, floor, left, cur, cursor, page, scanned, batchVars, upd, eventVars, history>>

--------------------------------------------------------------------------------
(* The batch: replicateBatch and replicateOne. A copy reads the source, then *)
(* writes the replica.                                                       *)

CopyRead(k) ==
  /\ tpc = "copy" /\ k \in todo
  /\ Cardinality({j \in Keys : flying[j] > 0}) < Workers
  /\ todo' = todo \ {k}
  /\ IF primary[k].ver > 0
     THEN flying' = [flying EXCEPT ![k] = primary[k].ver] /\ UNCHANGED failed
     ELSE failed' = failed \cup {k} /\ UNCHANGED flying
  /\ UNCHANGED <<clock, primary, replica, versions, storeVars, faults, bus, tasks, strays,
                 tpc, since, floor, left, cur, listVars, abandoned, upd, eventVars, history>>

CopyPut(k) ==
  /\ tpc = "copy" /\ flying[k] > 0
  /\ \E t \in Stamps : replica' = [replica EXCEPT ![cur][k] = [ver |-> flying[k], mtime |-> t]]
  /\ flying' = [flying EXCEPT ![k] = 0]
  /\ Written(cur, k, flying[k])
  /\ UNCHANGED <<clock, primary, versions, storeVars, faults, bus, tasks, strays,
                 tpc, since, floor, left, cur, listVars, todo, failed, abandoned, upd, eventVars>>

(* The PUTs in ks are given up on; with LatePuts the backend may still apply *)
(* them later.                                                               *)
GiveUp(ks) ==
  strays' = IF LatePuts THEN strays \cup {[r |-> cur, key |-> k, ver |-> flying[k]] : k \in ks}
            ELSE strays

(* One copy fails (an error, or ObjectReplicateTimeout); the others go on.   *)
CopyFault(k) ==
  /\ tpc = "copy" /\ flying[k] > 0 /\ CallFails
  /\ flying' = [flying EXCEPT ![k] = 0] /\ failed' = failed \cup {k} /\ GiveUp({k})
  /\ UNCHANGED <<clock, primary, replica, versions, storeVars, bus, tasks,
                 tpc, since, floor, left, cur, listVars, todo, abandoned, upd, eventVars, history>>

(* The tick's context ends: nothing more is queued, and waitOrAbandon returns *)
(* without the running copies. Those whose driver saw the cancellation have   *)
(* reported it; the others are pending, with no error.                        *)
BatchExpire ==
  /\ tpc = "copy" /\ clock >= since + TickDeadline
  /\ LET running == {k \in Keys : flying[k] > 0} IN
     /\ todo \cup running # {}
     /\ \E silent \in SUBSET running :
          /\ failed' = failed \cup todo \cup (running \ silent)
          /\ abandoned' = abandoned \cup silent
     /\ todo' = {} /\ flying' = NoFlight /\ GiveUp(running)
  /\ UNCHANGED <<clock, primary, replica, versions, storeVars, faults, bus, tasks,
                 tpc, since, floor, left, cur, listVars, upd, eventVars, history>>

StrayLands(s) ==
  /\ \E t \in Stamps : replica' = [replica EXCEPT ![s.r][s.key] = [ver |-> s.ver, mtime |-> t]]
  /\ strays' = strays \ {s}
  /\ Written(s.r, s.key, s.ver)
  /\ UNCHANGED <<clock, primary, versions, storeVars, faults, bus, tasks, tickVars, eventVars>>

(* Resolving a driver or listing a page fails, or the context has ended.     *)
ListFault ==
  /\ tpc = "list"
  /\ CallFails
  /\ incFailureCount(cur) /\ upd' = FailureUpdate(cur, floor[cur]) /\ tpc' = "write"
  /\ touched' = {} /\ UNCHANGED late
  /\ UNCHANGED <<clock, primary, replica, versions, rec, bus, tasks, strays, since, floor,
                 left, cur, listVars, batchVars, eventVars>>

(* recordSuccess or recordFailure up to its store call ...                   *)
TickSettle ==
  /\ tpc = "copy" /\ todo = {} /\ flying = NoFlight
  /\ \/ /\ failed = {} /\ resetFailureCount(cur)
        /\ upd' = SuccessUpdate(floor[cur], Cardinality(abandoned), truncated)
     \/ /\ failed # {} /\ incFailureCount(cur)
        /\ upd' = FailureUpdate(cur, floor[cur])
  /\ tpc' = "write"
  /\ touched' = {} /\ late' = late \cup {k \in touched : SkippedBy(upd'.lastSync, primary[k])}
  /\ UNCHANGED <<clock, primary, replica, versions, rec, faults, bus, tasks, strays, since,
                 floor, left, cur, listVars, batchVars, eventVars>>

(* ... and the store call.                                                   *)
TickWrite ==
  /\ tpc = "write"
  /\ UpdateReplicaHealth(cur, upd) /\ tpc' = "pick" /\ upd' = NewRecord
  /\ ResetPass
  /\ UNCHANGED <<clock, primary, replica, versions, failures, bus, tasks, strays, since,
                 floor, left, cur, eventVars, history>>

--------------------------------------------------------------------------------
(* The event path: handleWebhookEvent and the event worker.                  *)

(* An envelope becomes one task per replica, each carrying the replica as it  *)
(* is stored now; what does not fit the channel is dropped, and the webhook   *)
(* queue may have dropped the envelope before.                                *)
FanOut(e) == [r \in Replicas |-> [kind |-> e.kind, key |-> e.key, r |-> r,
                                  lastSync |-> rec[r].lastSync]]

RouteEvent(e) ==
  /\ bus' = bus \ {e}
  /\ LET queue == tasks \o FanOut(e) IN
     tasks' = IF Len(queue) <= QueueCap THEN queue ELSE SubSeq(queue, 1, QueueCap)
  /\ UNCHANGED <<clock, primary, replica, versions, storeVars, faults, strays, tickVars, eventVars, history>>

LoseEvent(e) ==
  /\ faults > 0 /\ faults' = faults - 1
  /\ bus' = bus \ {e}
  /\ UNCHANGED <<clock, primary, replica, versions, storeVars, tasks, strays, tickVars, eventVars, history>>

TakeTask ==
  /\ epc = "idle" /\ tasks # <<>>
  /\ etask' = Head(tasks) /\ tasks' = Tail(tasks) /\ epc' = "run"
  /\ UNCHANGED <<clock, primary, replica, versions, storeVars, faults, bus, strays, tickVars, ever, eupd, history>>

EventDelete ==
  /\ epc = "run" /\ etask.kind = "delete"
  /\ replica' = [replica EXCEPT ![etask.r][etask.key] = NoObject]
  /\ epc' = "deleted"
  /\ Written(etask.r, etask.key, 0)
  /\ UNCHANGED <<clock, primary, versions, storeVars, faults, bus, tasks, strays, tickVars,
                 etask, ever, eupd>>

(* Mutant: a delete goes through recordSuccess, as a replicated tick would.   *)
DeleteAsSuccess ==
  /\ epc = "deleted"
  /\ resetFailureCount(etask.r) /\ eupd' = SuccessUpdate(etask.lastSync, 0, FALSE)
  /\ epc' = "write"
  /\ UNCHANGED <<clock, primary, replica, versions, rec, faults, bus, tasks, strays, tickVars,
                 etask, ever, history>>

(* recordDeleteSuccess keeps the watermark it reads back from the store.     *)
EventDeleteSettle ==
  /\ epc = "deleted"
  /\ resetFailureCount(etask.r)
  /\ eupd' = [rec[etask.r] EXCEPT !.health = IF rec[etask.r].lag > 0 THEN "lagging" ELSE "in-sync"]
  /\ epc' = "write"
  /\ UNCHANGED <<clock, primary, replica, versions, rec, faults, bus, tasks, strays, tickVars,
                 etask, ever, history>>

EventRead ==
  /\ epc = "run" /\ etask.kind = "put" /\ primary[etask.key].ver > 0
  /\ ever' = primary[etask.key].ver /\ epc' = "put"
  /\ UNCHANGED <<clock, primary, replica, versions, storeVars, faults, bus, tasks, strays, tickVars,
                 etask, eupd, history>>

EventPut ==
  /\ epc = "put"
  /\ \E t \in Stamps : replica' = [replica EXCEPT ![etask.r][etask.key] = [ver |-> ever, mtime |-> t]]
  /\ epc' = "copied"
  /\ Written(etask.r, etask.key, ever)
  /\ UNCHANGED <<clock, primary, versions, storeVars, faults, bus, tasks, strays, tickVars,
                 etask, ever, eupd>>

EventPutSettle ==
  /\ epc = "copied"
  /\ resetFailureCount(etask.r) /\ eupd' = SuccessUpdate(etask.lastSync, 0, FALSE)
  /\ epc' = "write"
  /\ UNCHANGED <<clock, primary, replica, versions, rec, faults, bus, tasks, strays, tickVars,
                 etask, ever, history>>

(* The task fails: the source is gone, or a backend errs.                    *)
EventFault ==
  /\ \/ epc = "run" /\ etask.kind = "put" /\ primary[etask.key].ver = 0 /\ UNCHANGED faults
     \/ epc \in {"run", "put"} /\ faults > 0 /\ faults' = faults - 1
  /\ incFailureCount(etask.r) /\ eupd' = FailureUpdate(etask.r, etask.lastSync)
  /\ epc' = "write"
  /\ UNCHANGED <<clock, primary, replica, versions, rec, bus, tasks, strays, tickVars, etask, ever, history>>

EventWrite ==
  /\ epc = "write"
  /\ UpdateReplicaHealth(etask.r, eupd)
  /\ epc' = "idle" /\ etask' = NoTask /\ ever' = 0 /\ eupd' = NewRecord
  /\ UNCHANGED <<clock, primary, replica, versions, failures, bus, tasks, strays, tickVars, history>>

--------------------------------------------------------------------------------
Users ==
  \/ \E k \in Keys : Upload(k) \/ PublishPut(k)
  \/ \E k \in Keys, b \in BOOLEAN : DeleteObject(k, b)

Tick ==
  \/ TickStart \/ TickDone \/ ListPage \/ PageDone \/ TickSettle \/ TickWrite
  \/ \E r \in Replicas : PickReplica(r)
  \/ \E k \in Keys : Examine(k) \/ CopyRead(k) \/ CopyPut(k)

Faults ==
  \/ ListFault \/ BatchExpire
  \/ \E k \in Keys : CopyFault(k)
  \/ \E s \in strays : StrayLands(s)
  \/ \E e \in bus : LoseEvent(e)

Events ==
  \/ \E e \in bus : RouteEvent(e)
  \/ TakeTask \/ EventDelete \/ EventDeleteSettle
  \/ EventRead \/ EventPut \/ EventPutSettle \/ EventFault \/ EventWrite

Next == Users \/ Advance \/ Tick \/ Faults \/ Events

Spec == Init /\ [][Next]_vars

(* Every goroutine keeps running, the bus keeps routing, time passes until   *)
(* the bound. Users and backends owe nothing.                                *)
FairSpec ==
  /\ Spec
  /\ WF_vars(Tick) /\ WF_vars(Events) /\ WF_vars(Advance)

--------------------------------------------------------------------------------
TypeOK ==
  /\ clock \in Nat /\ versions \in Nat /\ faults \in Nat
  /\ primary \in [Keys -> Object]
  /\ replica \in [Replicas -> [Keys -> Object]]
  /\ rec \in [Replicas -> Record] /\ failures \in [Replicas -> 0..BrokenFailureThreshold]
  /\ bus \subseteq Envelope
  /\ tasks \in Seq(Task)
  /\ strays \subseteq [r : Replicas, key : Keys, ver : Nat]
  /\ tpc \in {"idle", "pick", "list", "examine", "copy", "write"}
  /\ since \in Nat /\ floor \in [Replicas -> Nat] /\ left \subseteq Replicas /\ cur \in Replicas
  /\ cursor \in 0..NumKeys /\ page \in [Keys -> Object] /\ scanned \in Nat /\ truncated \in BOOLEAN
  /\ todo \subseteq Keys /\ flying \in [Keys -> Nat] /\ failed \subseteq Keys
  /\ abandoned \subseteq Keys /\ upd \in Record
  /\ epc \in {"idle", "run", "put", "copied", "deleted", "write"}
  /\ etask \in Task /\ ever \in Nat /\ eupd \in Record
  /\ touched \subseteq Keys /\ late \subseteq Keys

(* Replica r holds the primary's current version of k, if it has one.        *)
Mirrors(r, k) == primary[k].ver > 0 => replica[r][k].ver = primary[k].ver

(* The objects a watermark vouches for are on the replica: these are the ones *)
(* the prefilter will never look at again.                                    *)
Covered(r, watermark) ==
  \A k \in Keys : primary[k].ver > 0 /\ SkippedBy(watermark, primary[k]) => Mirrors(r, k)

(* LastSync HIGH-WATER-MARK INVARIANT (engine.go, recordSuccess): LastSync    *)
(* never moves past an object that is not on the replica, or the prefilter    *)
(* strands that object for good. The code does not keep it: recordSuccess     *)
(* stamps the end of the pass, so an object stored during a pass longer than  *)
(* LastSyncSlack is stranded.                                                 *)
LastSyncHighWaterMark == \A r \in Replicas : Covered(r, rec[r].lastSync)

(* What the code keeps of it: no page, batch cap, failed or abandoned copy,    *)
(* queued delete or late PUT strands an object. Stranded are only objects      *)
(* stored after a pass listed their name, or overwritten or deleted on the     *)
(* replica by an out-of-date write, whose slack had run out when the pass      *)
(* recorded its success or the write landed.                                   *)
HighWaterMark ==
  \A r \in Replicas, k \in Keys \ late :
    primary[k].ver > 0 /\ SkippedBy(rec[r].lastSync, primary[k]) => Mirrors(r, k)

(* A recorded watermark never moves back ("do not advance on failure"), with   *)
(* the tick as only recorder. The event worker's read-then-write and a lost    *)
(* write to disk are outside it (README, known disagreements).                 *)
WatermarkNeverRegresses ==
  [][\A r \in Replicas : rec'[r].lastSync >= rec[r].lastSync]_rec

(* With the tick as only recorder, the stored health says broken exactly when *)
(* the consecutive-failure counter has reached its threshold.                 *)
BrokenAfterThreeFailures ==
  \A r \in Replicas : ~(tpc = "write" /\ cur = r) =>
    (rec[r].health = "broken" <=> failures[r] >= BrokenFailureThreshold)

(* A broken replica is never written off: the tick keeps visiting it, and once *)
(* its backend answers again its recorded health says so ("next success resets *)
(* the counter"), whatever the event path, late PUTs and expired ticks do.     *)
BrokenReplicaRecovers == \A r \in Replicas : []<>(rec[r].health # "broken")

(* Once users stop, every object of the primary ends up on every replica and  *)
(* stays there ("the engine eventually converges over many ticks"), whatever  *)
(* the batch cap left over and however often copies failed; the objects a     *)
(* long pass strands (LastSyncHighWaterMark) are excepted.                    *)
Converges == <>[](\A r \in Replicas, k \in Keys \ late : Mirrors(r, k))

(* A pending event, queued task or running worker will remove k from r. *)
PendingDelete(r, k) ==
  \/ \E e \in bus : e.key = k
  \/ \E i \in DOMAIN tasks : tasks[i].key = k /\ tasks[i].r = r
  \/ epc = "run" /\ etask.key = k /\ etask.r = r

(* An object deleted through basement is gone from the replicas once its      *)
(* events have been handled ("ObjectDeleted envelopes already propagate       *)
(* end-to-end"): between ticks, a replica holds no object that the primary    *)
(* lacks and no pending event will remove.                                    *)
(* The code does not keep it (README, known disagreements).                   *)
DeletesPropagate ==
  tpc = "idle" => \A r \in Replicas, k \in Keys :
    replica[r][k].ver > 0 /\ primary[k].ver = 0 => PendingDelete(r, k)
================================================================================
