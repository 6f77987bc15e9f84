--------------------------- MODULE FederationTakeover ---------------------------
(* The two planes of one federated bucket together: what passes and event     *)
(* tasks that began under one primary do once another has been promoted. One  *)
(* object name stands for the bucket, backends answer and disks hold;          *)
(* FederationReplication has pages, batches, workers and faults, and          *)
(* FederationFailover how a promotion is decided. Put events, which copy as    *)
(* the pass does, are left out.                                               *)
EXTENDS Naturals

CONSTANTS
  Targets,      \* the (region, bucket) pairs of the federation
  Slack,        \* LastSyncSlack
  EventDeletes, \* do deletes go through basement, which publishes them?
  MaxTime, MaxVersion, MaxEpoch  \* bounds of the model

ASSUME TakeoverAssumption ==
  /\ Slack \in Nat /\ EventDeletes \in BOOLEAN
  /\ MaxTime \in Nat /\ MaxVersion \in Nat /\ MaxEpoch \in Nat

VARIABLES
  time,       \* 0 is the zero time.Time
  bucket,     \* bucket[t]: the object that t holds under the name
  versions,   \* how many versions clients have uploaded
  fb,         \* the record
  tick,       \* the pass: its snapshot of the record, where it is, what it carries
  bus,        \* deletes published and not yet routed
  eventTasks, \* the event-task channel, in any order
  event,      \* the event worker's task, and the watermark it will write back
  shown,      \* history: what the primary's clients last wrote, or a promotion found
  late        \* history: a write of an earlier epoch has landed

tkVars == <<time, bucket, versions, fb, tick, bus, eventTasks, event, shown, late>>

NoObject == [ver |-> 0, mtime |-> 0]
Object == [ver : Nat, mtime : Nat]
Federation == [epoch : Nat, primary : Targets, replicas : SUBSET Targets,
               lastSync : [Targets -> Nat]]
(* The epoch of a task is history: eventTask has none.                        *)
DeleteTask == [dst : Targets, epoch : Nat, lastSync : Nat, ver : Nat]
Pass == [at : {"pick", "list", "examine", "read", "put", "done", "write"},
         snap : Federation, left : SUBSET Targets, dst : Targets, obj : Object, upd : Nat]
Run == [at : {"run", "deleted", "write"}, task : DeleteTask, upd : Nat]
Resting == [at |-> "idle"]

TkInit ==
  /\ time = 1 /\ bucket = [t \in Targets |-> NoObject] /\ versions = 0
  /\ \E p \in Targets : \E reps \in SUBSET (Targets \ {p}) :
       /\ reps # {}
       /\ fb = [epoch |-> 0, primary |-> p, replicas |-> reps,
              lastSync |-> [t \in Targets |-> 0]]
  /\ tick = Resting /\ bus = {} /\ eventTasks = {} /\ event = Resting
  /\ shown = 0 /\ late = FALSE

--------------------------------------------------------------------------------
(* Clients, who follow the record ("future writes route to new primary").     *)
Workers == <<tick, eventTasks, event, late>>

Upload ==
  /\ versions < MaxVersion /\ versions' = versions + 1 /\ shown' = versions'
  /\ bucket' = [bucket EXCEPT ![fb.primary] = [ver |-> versions', mtime |-> time]]
  /\ UNCHANGED <<time, fb, bus>> /\ UNCHANGED Workers

DeleteObject ==
  /\ bucket[fb.primary].ver > 0 /\ shown' = 0
  /\ bucket' = [bucket EXCEPT ![fb.primary] = NoObject]
  /\ bus' = IF EventDeletes
            THEN bus \cup {[from |-> fb.primary, ver |-> bucket[fb.primary].ver]} ELSE bus
  /\ UNCHANGED <<time, versions, fb>> /\ UNCHANGED Workers

(* A pass is done in an instant; FederationReplication has longer ones.       *)
Advance ==
  /\ time < MaxTime /\ tick = Resting /\ time' = time + 1
  /\ UNCHANGED <<bucket, versions, fb, bus, shown>> /\ UNCHANGED Workers

(* A promotion, whose compare-and-swap makes it one step. Nobody waits for the *)
(* passes and tasks under way; what the new primary holds is what clients get. *)
Swapped(r, replicas) ==
  [epoch |-> fb.epoch + 1, primary |-> r, replicas |-> replicas,
   lastSync |-> [fb.lastSync EXCEPT ![r] = 0, ![fb.primary] = 0]]
Takes(r, replicas) ==
  /\ fb.epoch < MaxEpoch /\ r \in fb.replicas /\ fb.lastSync[r] > 0
  /\ fb' = Swapped(r, replicas) /\ shown' = bucket[r].ver
  /\ UNCHANGED <<time, bucket, versions, bus>> /\ UNCHANGED Workers

(* Mutant: the promoted replica stays in the list.                            *)
PromoteAppending(r) == Takes(r, fb.replicas \cup {fb.primary})
Promote(r) == Takes(r, (fb.replicas \ {r}) \cup {fb.primary})

--------------------------------------------------------------------------------
(* The polling goroutine. Between two replicas it carries its snapshot alone. *)
Besides == <<time, versions, bus, eventTasks, event, shown>>
Reads == UNCHANGED <<bucket, fb, late>> /\ UNCHANGED Besides

Between(snap, left) == [at |-> "pick", snap |-> snap, left |-> left,
                        dst |-> snap.primary, obj |-> NoObject, upd |-> 0]

TickStart == tick = Resting /\ tick' = Between(fb, fb.replicas) /\ Reads

PickReplica(t) ==
  /\ tick.at = "pick" /\ t \in tick.left
  /\ tick' = [tick EXCEPT !.at = "list", !.dst = t, !.left = @ \ {t}]
  /\ Reads

TickDone == tick.at = "pick" /\ tick.left = {} /\ tick' = Resting /\ Reads

ListObjects ==
  /\ tick.at = "list"
  /\ tick' = [tick EXCEPT !.at = "examine", !.obj = bucket[tick.snap.primary]]
  /\ Reads

(* computeDiff: the prefilter on LastSync, then the HEAD.                     *)
SkippedBy(watermark, obj) == watermark > 0 /\ obj.mtime + Slack <= watermark
Examine ==
  /\ tick.at = "examine"
  /\ LET head == bucket[tick.dst] IN
     tick' = [tick EXCEPT !.at =
       IF tick.obj.ver > 0 /\ ~SkippedBy(tick.snap.lastSync[tick.dst], tick.obj)
            /\ (head.ver # tick.obj.ver \/ head.mtime < tick.obj.mtime)
       THEN "read" ELSE "done"]
  /\ Reads

(* replicateOne streams what the source holds by now; without it the pass     *)
(* fails, and writes its snapshot's watermark back.                           *)
CopyRead ==
  /\ tick.at = "read"
  /\ tick' = IF bucket[tick.snap.primary].ver > 0
             THEN [tick EXCEPT !.at = "put", !.obj = bucket[tick.snap.primary]]
             ELSE [tick EXCEPT !.at = "write", !.obj = NoObject,
                               !.upd = tick.snap.lastSync[tick.dst]]
  /\ Reads

CopyPut ==
  /\ tick.at = "put" /\ tick' = [tick EXCEPT !.at = "done"]
  /\ bucket' = [bucket EXCEPT ![tick.dst] = [ver |-> tick.obj.ver, mtime |-> time]]
  /\ late' = (late \/ tick.snap.epoch # fb.epoch)
  /\ UNCHANGED fb /\ UNCHANGED Besides

(* recordSuccess takes the time, then the store's lock.                       *)
RecordSuccess ==
  /\ tick.at = "done"
  /\ tick' = [tick EXCEPT !.at = "write", !.upd = time, !.obj = NoObject]
  /\ Reads

UpdateReplicaHealth(t, watermark) ==
  fb' = IF t \in fb.replicas THEN [fb EXCEPT !.lastSync[t] = watermark] ELSE fb

TickWrite ==
  /\ tick.at = "write" /\ tick' = Between(tick.snap, tick.left)
  /\ UpdateReplicaHealth(tick.dst, tick.upd)
  /\ UNCHANGED <<bucket, late>> /\ UNCHANGED Besides

--------------------------------------------------------------------------------
(* The event path.                                                            *)
Rest == <<time, versions, tick, shown>>

(* Only an envelope of the present primary fans out.                          *)
RouteEvent(e) ==
  /\ bus' = bus \ {e}
  /\ eventTasks' =
       IF e.from # fb.primary THEN eventTasks
       ELSE eventTasks \cup {[dst |-> t, epoch |-> fb.epoch, lastSync |-> fb.lastSync[t],
                              ver |-> e.ver] : t \in fb.replicas}
  /\ UNCHANGED <<bucket, fb, event, late>> /\ UNCHANGED Rest

TakeTask(k) ==
  /\ event = Resting /\ eventTasks' = eventTasks \ {k}
  /\ event' = [at |-> "run", task |-> k, upd |-> 0]
  /\ UNCHANGED <<bucket, fb, bus, late>> /\ UNCHANGED Rest

(* handleEventTask loads the record, but deletes at the task's target.        *)
EventDelete ==
  /\ event.at = "run" /\ event' = [event EXCEPT !.at = "deleted"]
  /\ bucket' = [bucket EXCEPT ![event.task.dst] = NoObject]
  /\ late' = (late \/ event.task.epoch # fb.epoch)
  /\ UNCHANGED <<fb, bus, eventTasks>> /\ UNCHANGED Rest

(* recordDeleteSuccess reads the watermark, or has the task's, and writes it. *)
DeleteRead ==
  /\ event.at = "deleted"
  /\ event' = [event EXCEPT !.at = "write", !.upd =
       IF event.task.dst \in fb.replicas THEN fb.lastSync[event.task.dst]
       ELSE event.task.lastSync]
  /\ UNCHANGED <<bucket, fb, bus, eventTasks, late>> /\ UNCHANGED Rest
DeleteWrite ==
  /\ event.at = "write" /\ event' = Resting
  /\ UpdateReplicaHealth(event.task.dst, event.upd)
  /\ UNCHANGED <<bucket, bus, eventTasks, late>> /\ UNCHANGED Rest

--------------------------------------------------------------------------------
Writers == Upload \/ DeleteObject
PollingLoop ==
  \/ TickStart \/ TickDone \/ ListObjects \/ Examine \/ CopyRead \/ CopyPut
  \/ RecordSuccess \/ TickWrite \/ \E t \in Targets : PickReplica(t)
EventWorker ==
  \/ \E e \in bus : RouteEvent(e)
  \/ \E k \in eventTasks : TakeTask(k)
  \/ EventDelete \/ DeleteRead \/ DeleteWrite

TkNext ==
  \/ Writers \/ Advance \/ PollingLoop \/ EventWorker
  \/ \E r \in Targets : Promote(r)

TkSpec == TkInit /\ [][TkNext]_tkVars

--------------------------------------------------------------------------------
TkTypeOK ==
  /\ time \in Nat /\ bucket \in [Targets -> Object] /\ versions \in Nat /\ fb \in Federation
  /\ tick \in {Resting} \cup Pass /\ event \in {Resting} \cup Run
  /\ bus \subseteq [from : Targets, ver : Nat] /\ eventTasks \subseteq DeleteTask
  /\ shown \in Nat /\ late \in BOOLEAN

(* What clients last wrote, or a failover found, is what the primary holds     *)
(* until a write that began under an earlier primary lands: only a pass or a   *)
(* task older than the last failover takes a client's write back, whatever     *)
(* ticks, deletes and failovers - to an earlier primary as well - interleave.  *)
DamageIsLate == ~late => bucket[fb.primary].ver = shown

(* ADR-0005: lost writes are "mitigated [...] by failover always draining the  *)
(* queue first". Then the engine never puts an older version over the primary's*)
(* newer one, nor takes it away.                                              *)
(* The code does not keep it (README, known disagreements).                   *)
NewestStays ==
  [][shown' = shown => bucket'[fb.primary].ver >= bucket[fb.primary].ver]_tkVars

(* handleEventTask: "a stale task (e.g. the federation was edited between      *)
(* queue + drain) still uses current owner / replica info".                   *)
(* The code does not keep it (README, known disagreements).                   *)
DeletesGoToReplicas ==
  [][event.at = "run" /\ event'.at = "deleted" => event.task.dst \in fb.replicas]_tkVars

(* recordSuccess's "LastSync HIGH-WATER-MARK INVARIANT", across a failover: an *)
(* object of the primary that the prefilter skips is on the replica.          *)
(* The code does not keep it (README, known disagreements).                   *)
WatermarkSurvives ==
  \A t \in fb.replicas :
    LET obj == bucket[fb.primary] IN
    obj.ver > 0 /\ SkippedBy(fb.lastSync[t], obj) => bucket[t].ver = obj.ver
================================================================================
