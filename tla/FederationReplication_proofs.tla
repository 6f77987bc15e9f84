----------------------- MODULE FederationReplication_proofs -----------------------
(***************************************************************************)
(* Proofs about FederationReplication, for any number of replicas, objects,  *)
(* workers and any bounds.                                                   *)
(***************************************************************************)
EXTENDS FederationReplication, FiniteSetTheorems, SequenceTheorems, TLAPS

(* The blank values have the types of the places they fill.                  *)
LEMMA BlankTypes ==
  /\ NoObject \in Object /\ Empty \in [Keys -> Object]
  /\ NewRecord \in Record /\ NoTask \in Task /\ NoFlight \in [Keys -> Nat]
<1>1. 1 \in Keys /\ 1 \in Replicas
  BY ReplicationAssumption DEF Keys, Replicas
<1>2. NoObject \in Object
  BY DEF NoObject, Object
<1>3. Empty \in [Keys -> Object] /\ NoFlight \in [Keys -> Nat]
  BY <1>2 DEF Empty, NoFlight
<1>4. NewRecord \in Record
  BY DEF NewRecord, Record, Health
<1>5. NoTask \in Task
  BY <1>1 DEF NoTask, Task
<1> QED
  BY <1>2, <1>3, <1>4, <1>5

LEMMA KeysFinite == \A S \in SUBSET Keys : IsFiniteSet(S) /\ Cardinality(S) \in Nat
<1>1. IsFiniteSet(Keys)
  BY ReplicationAssumption, FS_Interval DEF Keys
<1> QED
  BY <1>1, FS_Subset, FS_CardinalityType

(* A stored modification time is one of the engine's clock values so far.     *)
LEMMA StampTypes == ASSUME clock \in Nat PROVE Stamps \subseteq Nat \ {0}
  BY ReplicationAssumption DEF Stamps

(* Storing an object in a bucket of replicas keeps the types.                 *)
LEMMA PutKeepsTypes ==
  ASSUME NEW r \in Replicas, NEW k \in Keys, NEW v \in Nat, clock \in Nat,
         replica \in [Replicas -> [Keys -> Object]],
         \E t \in Stamps : replica' = [replica EXCEPT ![r][k] = [ver |-> v, mtime |-> t]]
  PROVE  replica' \in [Replicas -> [Keys -> Object]]
<1>1. PICK t \in Stamps : replica' = [replica EXCEPT ![r][k] = [ver |-> v, mtime |-> t]]
  OBVIOUS
<1>2. [ver |-> v, mtime |-> t] \in Object
  BY StampTypes DEF Object
<1> QED
  BY <1>1, <1>2

(* What recordSuccess and recordFailure store is a record.                    *)
LEMMA UpdateTypes ==
  ASSUME NEW r \in Replicas, NEW snapshot \in Nat, NEW pending \in Nat, NEW trunc \in BOOLEAN,
         clock \in Nat, rec \in [Replicas -> Record]
  PROVE  SuccessUpdate(snapshot, pending, trunc) \in Record /\ FailureUpdate(r, snapshot) \in Record
  BY DEF SuccessUpdate, FailureUpdate, Record, Health

LEMMA CounterTypes ==
  ASSUME NEW r \in Replicas, failures \in [Replicas -> 0..BrokenFailureThreshold],
         incFailureCount(r) \/ resetFailureCount(r)
  PROVE  failures' \in [Replicas -> 0..BrokenFailureThreshold]
  BY DEF incFailureCount, resetFailureCount, BrokenFailureThreshold

LEMMA HealthWriteTypes ==
  ASSUME NEW r \in Replicas, NEW entry \in Record, faults \in Nat, rec \in [Replicas -> Record],
         UpdateReplicaHealth(r, entry)
  PROVE  rec' \in [Replicas -> Record] /\ faults' \in Nat
  BY DEF UpdateReplicaHealth

LEMMA WrittenTypes ==
  ASSUME touched \subseteq Keys, late \subseteq Keys, NEW r, NEW k \in Keys, NEW ver,
         Written(r, k, ver)
  PROVE  touched' \subseteq Keys /\ late' \subseteq Keys
  BY DEF Written

LEMMA CallFailsTypes == ASSUME faults \in Nat, CallFails PROVE faults' \in Nat
  BY DEF CallFails

LEMMA ResetTypes ==
  ASSUME ResetPass
  PROVE  /\ cursor' \in 0..NumKeys /\ page' \in [Keys -> Object] /\ scanned' \in Nat
         /\ truncated' \in BOOLEAN /\ todo' \subseteq Keys /\ flying' \in [Keys -> Nat]
         /\ failed' \subseteq Keys /\ abandoned' \subseteq Keys
<1>1. 0 \in 0..NumKeys
  BY ReplicationAssumption
<1>2. page' \in [Keys -> Object] /\ flying' \in [Keys -> Nat]
  BY BlankTypes DEF ResetPass
<1> QED
  BY <1>1, <1>2 DEF ResetPass

--------------------------------------------------------------------------------
(* Types.                                                                    *)

LEMMA TypesInit == Init => TypeOK
<1> SUFFICES ASSUME Init PROVE TypeOK
  OBVIOUS
<1>1. 1 \in Replicas /\ 0 \in 0..NumKeys
  BY ReplicationAssumption DEF Replicas
<1>2. primary \in [Keys -> Object] /\ replica \in [Replicas -> [Keys -> Object]]
      /\ page \in [Keys -> Object] /\ flying \in [Keys -> Nat]
  BY BlankTypes DEF Init
<1>3. rec \in [Replicas -> Record] /\ failures \in [Replicas -> 0..BrokenFailureThreshold]
      /\ upd \in Record /\ eupd \in Record /\ etask \in Task /\ floor \in [Replicas -> Nat]
  BY BlankTypes DEF Init, BrokenFailureThreshold
<1>4. tasks \in Seq(Task)
  BY DEF Init
<1> QED
  BY <1>1, <1>2, <1>3, <1>4, ReplicationAssumption DEF Init, TypeOK

LEMMA UsersTypes == TypeOK /\ (Users \/ Advance) => TypeOK'
<1> SUFFICES ASSUME TypeOK, Users \/ Advance PROVE TypeOK'
  OBVIOUS
<1> USE DEF TypeOK, storeVars, eventVars, listVars, batchVars, tickVars, history
<1>1. CASE Advance
  BY <1>1 DEF Advance
<1>2. ASSUME NEW k \in Keys, Upload(k) PROVE TypeOK'
  <2>1. PICK t \in Stamps : primary' = [primary EXCEPT ![k] = [ver |-> versions + 1, mtime |-> t]]
    BY <1>2 DEF Upload
  <2>2. [ver |-> versions + 1, mtime |-> t] \in Object
    BY StampTypes DEF Object
  <2>3. primary' \in [Keys -> Object]
    BY <2>1, <2>2
  <2>4. touched' \subseteq Keys /\ late' \subseteq Keys
    BY <1>2 DEF Upload
  <2> QED
    BY <1>2, <2>3, <2>4 DEF Upload
<1>3. ASSUME NEW k \in Keys, PublishPut(k) PROVE TypeOK'
  BY <1>3 DEF PublishPut, Envelope
<1>4. ASSUME NEW k \in Keys, NEW b \in BOOLEAN, DeleteObject(k, b) PROVE TypeOK'
  <2>1. bus' \subseteq Envelope
    BY <1>4 DEF DeleteObject, Envelope
  <2> QED
    BY <1>4, <2>1, BlankTypes DEF DeleteObject
<1> HIDE DEF TypeOK
<1> QED
  BY <1>1, <1>2, <1>3, <1>4 DEF Users

LEMMA TickTypes == TypeOK /\ Tick => TypeOK'
<1> SUFFICES ASSUME TypeOK, Tick PROVE TypeOK'
  OBVIOUS
<1> USE DEF TypeOK, storeVars, eventVars, listVars, batchVars, tickVars, history
<1>1. CASE TickStart
  BY <1>1 DEF TickStart, Record
<1>2. CASE TickDone
  BY <1>2 DEF TickDone
<1>3. CASE ListPage
  <2>1. PICK last \in cursor..NumKeys :
          LET listed == {k \in Present(primary) : cursor < k /\ k <= last} IN
          /\ page' = [k \in Keys |-> IF k \in listed THEN primary[k] ELSE NoObject]
          /\ scanned' = scanned + Cardinality(listed)
          /\ cursor' = last
    BY <1>3 DEF ListPage
  <2> DEFINE listed == {k \in Present(primary) : cursor < k /\ k <= last}
  <2>2. page' \in [Keys -> Object]
    BY <2>1, BlankTypes
  <2>3. Cardinality(listed) \in Nat
    BY KeysFinite DEF Present
  <2>4. cursor' \in 0..NumKeys
    BY <2>1, ReplicationAssumption
  <2> QED
    BY <1>3, <2>1, <2>2, <2>3, <2>4 DEF ListPage
<1>4. CASE PageDone
  BY <1>4 DEF PageDone
<1>5. CASE TickSettle
  <2>1. Cardinality(abandoned) \in Nat /\ floor[cur] \in Nat
    BY KeysFinite
  <2>2. upd' \in Record
    BY <1>5, <2>1, UpdateTypes DEF TickSettle
  <2>3. failures' \in [Replicas -> 0..BrokenFailureThreshold]
    BY <1>5, CounterTypes DEF TickSettle
  <2> QED
    BY <1>5, <2>2, <2>3 DEF TickSettle
<1>6. CASE TickWrite
  <2>1. rec' \in [Replicas -> Record] /\ faults' \in Nat
    BY <1>6, HealthWriteTypes DEF TickWrite
  <2>2. ResetPass
    BY <1>6 DEF TickWrite
  <2> QED
    BY <1>6, <2>1, <2>2, ResetTypes, BlankTypes DEF TickWrite
<1>7. ASSUME NEW r \in Replicas, PickReplica(r) PROVE TypeOK'
  BY <1>7, ResetTypes DEF PickReplica
<1>8. ASSUME NEW k \in Keys, Examine(k) PROVE TypeOK'
  <2>1. /\ page' \in [Keys -> Object] /\ todo' \subseteq Keys /\ truncated' \in BOOLEAN
        /\ tpc' \in {"examine", "copy"} /\ faults' \in Nat
    BY <1>8, BlankTypes, CallFailsTypes DEF Examine
  <2> QED
    BY <1>8, <2>1 DEF Examine
<1>9. ASSUME NEW k \in Keys, CopyRead(k) PROVE TypeOK'
  BY <1>9 DEF CopyRead, Object
<1>10. ASSUME NEW k \in Keys, CopyPut(k) PROVE TypeOK'
  <2>1. replica' \in [Replicas -> [Keys -> Object]]
    BY <1>10, PutKeepsTypes DEF CopyPut
  <2>2. touched' \subseteq Keys /\ late' \subseteq Keys
    BY <1>10, WrittenTypes DEF CopyPut
  <2> QED
    BY <1>10, <2>1, <2>2 DEF CopyPut
<1> HIDE DEF TypeOK
<1> QED
  BY <1>1, <1>2, <1>3, <1>4, <1>5, <1>6, <1>7, <1>8, <1>9, <1>10 DEF Tick

LEMMA FaultsTypes == TypeOK /\ Faults => TypeOK'
<1> SUFFICES ASSUME TypeOK, Faults PROVE TypeOK'
  OBVIOUS
<1> USE DEF TypeOK, storeVars, eventVars, listVars, batchVars, tickVars, history
<1>1. CASE ListFault
  <2>1. faults' \in Nat
    BY <1>1, CallFailsTypes DEF ListFault
  <2>2. upd' \in Record /\ failures' \in [Replicas -> 0..BrokenFailureThreshold]
    BY <1>1, UpdateTypes, CounterTypes DEF ListFault
  <2> QED
    BY <1>1, <2>1, <2>2 DEF ListFault
<1>2. ASSUME NEW ks \in SUBSET Keys, GiveUp(ks)
      PROVE  strays' \subseteq [r : Replicas, key : Keys, ver : Nat]
  BY <1>2 DEF GiveUp
<1>3. CASE BatchExpire
  <2>1. PICK silent \in SUBSET {k \in Keys : flying[k] > 0} :
          /\ failed' = failed \cup todo \cup ({k \in Keys : flying[k] > 0} \ silent)
          /\ abandoned' = abandoned \cup silent
    BY <1>3 DEF BatchExpire
  <2>2. strays' \subseteq [r : Replicas, key : Keys, ver : Nat]
    BY <1>2, <1>3 DEF BatchExpire
  <2> QED
    BY <1>3, <2>1, <2>2, BlankTypes DEF BatchExpire
<1>4. ASSUME NEW k \in Keys, CopyFault(k) PROVE TypeOK'
  <2>1. faults' \in Nat
    BY <1>4, CallFailsTypes DEF CopyFault
  <2>2. strays' \subseteq [r : Replicas, key : Keys, ver : Nat]
    BY <1>2, <1>4 DEF CopyFault
  <2> QED
    BY <1>4, <2>1, <2>2 DEF CopyFault
<1>5. ASSUME NEW s \in strays, StrayLands(s) PROVE TypeOK'
  <2>1. replica' \in [Replicas -> [Keys -> Object]]
    BY <1>5, PutKeepsTypes DEF StrayLands
  <2>2. touched' \subseteq Keys /\ late' \subseteq Keys
    BY <1>5, WrittenTypes DEF StrayLands
  <2> QED
    BY <1>5, <2>1, <2>2 DEF StrayLands
<1>6. ASSUME NEW e \in bus, LoseEvent(e) PROVE TypeOK'
  BY <1>6 DEF LoseEvent
<1> HIDE DEF TypeOK
<1> QED
  BY <1>1, <1>3, <1>4, <1>5, <1>6 DEF Faults

LEMMA FanOutTypes == ASSUME TypeOK, NEW e \in bus PROVE FanOut(e) \in Seq(Task)
<1>1. \A r \in Replicas : FanOut(e)[r] \in Task
  BY DEF FanOut, Task, Envelope, Record, TypeOK
<1> QED
  BY <1>1, ReplicationAssumption DEF FanOut, Replicas

LEMMA EventsTypes == TypeOK /\ Events => TypeOK'
<1> SUFFICES ASSUME TypeOK, Events PROVE TypeOK'
  OBVIOUS
<1> USE DEF TypeOK, storeVars, eventVars, listVars, batchVars, tickVars, history
<1>1. ASSUME NEW e \in bus, RouteEvent(e) PROVE TypeOK'
  <2>1. FanOut(e) \in Seq(Task)
    BY <1>1, FanOutTypes
  <2> DEFINE queue == tasks \o FanOut(e)
  <2>2. queue \in Seq(Task)
    BY <2>1, ConcatProperties
  <2>3. tasks' \in Seq(Task)
    <3>1. CASE tasks' = queue
      BY <2>2, <3>1
    <3>2. CASE tasks' = SubSeq(queue, 1, QueueCap) /\ Len(queue) > QueueCap
      BY <2>2, <3>2, SubSeqProperties, ReplicationAssumption
    <3> QED
      BY <1>1, <2>2, <3>1, <3>2, ReplicationAssumption, LenProperties DEF RouteEvent
  <2> QED
    BY <1>1, <2>3 DEF RouteEvent
<1>2. CASE TakeTask
  BY <1>2 DEF TakeTask
<1>3. CASE EventDelete
  <2>1. replica' \in [Replicas -> [Keys -> Object]]
    BY <1>3, BlankTypes DEF EventDelete, Task
  <2>2. touched' \subseteq Keys /\ late' \subseteq Keys
    BY <1>3, WrittenTypes DEF EventDelete, Task
  <2> QED
    BY <1>3, <2>1, <2>2 DEF EventDelete
<1>4. etask.r \in Replicas /\ etask.key \in Keys /\ etask.lastSync \in Nat
  BY DEF Task
<1>5. CASE EventDeleteSettle
  <2>1. eupd' \in Record
    BY <1>4, <1>5 DEF EventDeleteSettle, Record, Health
  <2> QED
    BY <1>4, <1>5, <2>1, CounterTypes DEF EventDeleteSettle
<1>6. CASE EventRead
  BY <1>4, <1>6 DEF EventRead, Object
<1>7. CASE EventPut
  <2>1. replica' \in [Replicas -> [Keys -> Object]]
    BY <1>4, <1>7, PutKeepsTypes DEF EventPut
  <2>2. touched' \subseteq Keys /\ late' \subseteq Keys
    BY <1>4, <1>7, WrittenTypes DEF EventPut
  <2> QED
    BY <1>7, <2>1, <2>2 DEF EventPut
<1>8. CASE EventPutSettle
  <2>1. eupd' \in Record
    BY <1>4, <1>8, UpdateTypes DEF EventPutSettle
  <2> QED
    BY <1>4, <1>8, <2>1, CounterTypes DEF EventPutSettle
<1>9. CASE EventFault
  <2>1. eupd' \in Record /\ failures' \in [Replicas -> 0..BrokenFailureThreshold]
    BY <1>4, <1>9, UpdateTypes, CounterTypes DEF EventFault
  <2>2. faults' \in Nat
    BY <1>9 DEF EventFault
  <2> QED
    BY <1>9, <2>1, <2>2 DEF EventFault
<1>10. CASE EventWrite
  <2>1. rec' \in [Replicas -> Record] /\ faults' \in Nat
    BY <1>4, <1>10, HealthWriteTypes DEF EventWrite
  <2> QED
    BY <1>10, <2>1, BlankTypes DEF EventWrite
<1> HIDE DEF TypeOK
<1> QED
  BY <1>1, <1>2, <1>3, <1>5, <1>6, <1>7, <1>8, <1>9, <1>10 DEF Events

LEMMA TypesStep == TypeOK /\ [Next]_vars => TypeOK'
<1>1. TypeOK /\ UNCHANGED vars => TypeOK'
  BY DEF TypeOK, vars, storeVars, eventVars, listVars, batchVars, tickVars, history
<1> QED
  BY <1>1, UsersTypes, TickTypes, FaultsTypes, EventsTypes DEF Next

(* Buckets, records, listings, tasks and pending updates keep their types,    *)
(* whatever users, ticks, events and faults interleave.                       *)
THEOREM TypeCorrect == Spec => []TypeOK
  BY TypesInit, TypesStep, PTL DEF Spec

--------------------------------------------------------------------------------
(* The high-water mark. Only the tick records success, and whatever undoes a    *)
(* copy is remembered.                                                         *)

TicksAdvance == "put" \notin EventKinds

(* HighWaterMark, for one watermark not ahead of the clock, with the state     *)
(* spelt out.                                                                  *)
VouchedBy(prim, repl, now, lost, r, w) ==
  /\ w <= now
  /\ \A k \in Keys \ lost :
       prim[k].ver > 0 /\ SkippedBy(w, prim[k]) => repl[r][k].ver = prim[k].ver

Vouched(r, w) == VouchedBy(primary, replica, clock, late, r, w)

(* Whatever may become a stored watermark is vouched for already.              *)
WatermarksInv ==
  /\ \A r \in Replicas : Vouched(r, rec[r].lastSync) /\ Vouched(r, floor[r])
  /\ \A i \in DOMAIN tasks : Vouched(tasks[i].r, tasks[i].lastSync)
  /\ Vouched(etask.r, etask.lastSync) /\ Vouched(etask.r, eupd.lastSync)
  /\ Vouched(cur, upd.lastSync)
  /\ tpc # "write" => upd.lastSync = 0
  /\ epc # "write" => eupd.lastSync = 0

(* The event path only deletes.                                                *)
EventsInv ==
  /\ \A e \in bus : e.kind = "delete"
  /\ \A i \in DOMAIN tasks : tasks[i].kind = "delete"
  /\ epc \in {"idle", "run", "deleted", "write"}
  /\ epc = "run" => etask.kind = "delete"

(* The pass has mirrored k, will still reach it, or knows that it has not.      *)
Accounted(k) ==
  \/ Mirrors(cur, k) \/ k > cursor \/ page[k] = primary[k]
  \/ k \in todo \/ flying[k] = primary[k].ver
  \/ k \in failed \/ k \in abandoned \/ truncated

(* The objects the pass owes: present, and not stored or spoilt since it        *)
(* listed them.                                                                *)
Owed(k) == primary[k].ver > 0 /\ k \notin touched \cup late

PassInv ==
  /\ tpc \in {"list", "copy"} => Present(page) = {}
  /\ tpc = "copy" => truncated \/ cursor = NumKeys
  /\ \A k \in Keys : flying[k] > 0 =>
       tpc = "copy" /\ (primary[k].ver \in {0, flying[k]} \/ k \in touched)
  /\ Passing => \A k \in Keys : Owed(k) => Accounted(k)

MarkInv == TypeOK /\ WatermarksInv /\ EventsInv /\ PassInv

LEMMA Numbers ==
  TypeOK => /\ clock \in Nat
            /\ primary \in [Keys -> Object] /\ replica \in [Replicas -> [Keys -> Object]]
            /\ \A k \in Keys : primary[k].ver \in Nat /\ primary[k].mtime \in Nat
            /\ Slack \in Nat
  BY ReplicationAssumption DEF TypeOK, Object

(* What a watermark up to now skips, one stamped now would skip.               *)
LEMMA SkippedLater ==
  ASSUME TypeOK, NEW w \in Nat, w <= clock, NEW m \in Nat, NEW v,
         SkippedBy(w, [ver |-> v, mtime |-> m])
  PROVE  Elapsed([ver |-> v, mtime |-> m])
  BY Numbers DEF SkippedBy, Elapsed

(* A write of an out-of-date version spoils no object that a watermark up to   *)
(* now skips, but those it leaves in late.                                     *)
LEMMA WrittenSpoils ==
  ASSUME TypeOK, NEW r, NEW k \in Keys, NEW ver, Written(r, k, ver), NEW w \in Nat, w <= clock
  PROVE  /\ late \subseteq late'
         /\ primary[k].ver \notin {0, ver} /\ SkippedBy(w, primary[k]) => k \in late'
<1>1. primary[k] = [ver |-> primary[k].ver, mtime |-> primary[k].mtime]
  BY Numbers DEF Object
<1>2. SkippedBy(w, primary[k]) => Elapsed(primary[k])
  BY <1>1, SkippedLater, Numbers
<1> QED
  BY <1>2 DEF Written

(* Only seven actions touch the buckets or the clock, and only an upload takes  *)
(* an object out of late.                                                      *)
LEMMA OthersBuckets ==
  Users \/ Advance \/ Events \/ UNCHANGED vars =>
    \/ UNCHANGED <<clock, primary, replica, touched, late>>
    \/ Advance \/ EventDelete \/ EventPut
    \/ \E k \in Keys : Upload(k) \/ \E b \in BOOLEAN : DeleteObject(k, b)
<1>1. Users => \/ UNCHANGED <<clock, primary, replica, touched, late>>
               \/ \E k \in Keys : Upload(k) \/ \E b \in BOOLEAN : DeleteObject(k, b)
  BY DEF Users, PublishPut, history
<1>2. Events => UNCHANGED <<clock, primary, replica, touched, late>> \/ EventDelete \/ EventPut
  BY DEF Events, RouteEvent, TakeTask, EventDeleteSettle, EventRead, EventPutSettle,
         EventFault, EventWrite, history
<1> QED
  BY <1>1, <1>2 DEF vars, history

LEMMA BucketStep ==
  [Next]_vars =>
    \/ UNCHANGED <<clock, primary, replica>> /\ late \subseteq late'
    \/ Advance \/ EventDelete \/ EventPut
    \/ \E k \in Keys : Upload(k) \/ CopyPut(k) \/ \E b \in BOOLEAN : DeleteObject(k, b)
    \/ \E s \in strays : StrayLands(s)
<1>1. Tick => \/ UNCHANGED <<clock, primary, replica>> /\ late \subseteq late'
              \/ \E k \in Keys : CopyPut(k)
  BY DEF Tick, TickStart, TickDone, ListPage, PageDone, TickSettle, TickWrite, PickReplica,
         Examine, CopyRead, history
<1>2. Faults => \/ UNCHANGED <<clock, primary, replica>> /\ late \subseteq late'
                \/ \E s \in strays : StrayLands(s)
  BY DEF Faults, ListFault, BatchExpire, CopyFault, LoseEvent, history
<1> QED
  BY <1>1, <1>2, OthersBuckets DEF Next

(* A vouched watermark stays vouched for.                                     *)
LEMMA VouchedStep ==
  ASSUME MarkInv, [Next]_vars, NEW r \in Replicas, NEW w \in Nat, Vouched(r, w)
  PROVE  VouchedBy(primary', replica', clock', late', r, w)
<1>1. /\ TypeOK /\ w <= clock
      /\ \A k \in Keys \ late : primary[k].ver > 0 /\ SkippedBy(w, primary[k]) =>
                                  replica[r][k].ver = primary[k].ver
  BY DEF MarkInv, Vouched, VouchedBy
<1> DEFINE Goal == VouchedBy(primary', replica', clock', late', r, w)
<1>2. CASE UNCHANGED <<clock, primary, replica>> /\ late \subseteq late'
  BY <1>1, <1>2 DEF VouchedBy
<1>3. CASE Advance
  BY <1>1, <1>3, Numbers DEF Advance, VouchedBy, history
<1>4. ASSUME NEW k \in Keys, Upload(k) PROVE Goal
  <2>1. PICK t \in Stamps :
          /\ primary' = [primary EXCEPT ![k] = [ver |-> versions + 1, mtime |-> t]]
          /\ late' = IF Elapsed([ver |-> versions + 1, mtime |-> t]) THEN late \cup {k}
                     ELSE late \ {k}
    BY <1>4 DEF Upload
  <2>2. k \in late' \/ ~SkippedBy(w, [ver |-> versions + 1, mtime |-> t])
    <3>1. t \in Nat
      BY <1>1, Numbers, StampTypes
    <3> QED
      BY <1>1, <2>1, <3>1, SkippedLater
  <2>3. /\ primary'[k] = [ver |-> versions + 1, mtime |-> t]
        /\ \A j \in Keys \ {k} : primary'[j] = primary[j]
    BY <1>1, <2>1, Numbers
  <2>4. late \subseteq late' \cup {k}
    BY <2>1
  <2> QED
    BY <1>1, <1>4, <2>2, <2>3, <2>4 DEF Upload, VouchedBy
<1>5. ASSUME NEW k \in Keys, NEW b \in BOOLEAN, DeleteObject(k, b) PROVE Goal
  <2>1. primary'[k] = NoObject /\ \A j \in Keys \ {k} : primary'[j] = primary[j]
    BY <1>1, <1>5, Numbers DEF DeleteObject
  <2> QED
    BY <1>1, <1>5, <2>1 DEF DeleteObject, VouchedBy, NoObject, history
<1>6. ASSUME NEW q \in Replicas, NEW k \in Keys, NEW ver, Written(q, k, ver),
             UNCHANGED <<clock, primary>>, replica'[q][k].ver = ver,
             \A p \in Replicas, j \in Keys : <<p, j>> # <<q, k>> => replica'[p][j] = replica[p][j]
      PROVE  Goal
  <2>1. /\ late \subseteq late'
        /\ primary[k].ver \notin {0, ver} /\ SkippedBy(w, primary[k]) => k \in late'
    BY <1>1, <1>6, WrittenSpoils
  <2> SUFFICES ASSUME NEW j \in Keys \ late', primary[j].ver > 0, SkippedBy(w, primary[j])
               PROVE  replica'[r][j].ver = primary[j].ver
    BY <1>1, <1>6 DEF VouchedBy
  <2>2. CASE <<r, j>> = <<q, k>>
    BY <1>6, <2>1, <2>2
  <2>3. CASE <<r, j>> # <<q, k>>
    BY <1>1, <1>6, <2>1, <2>3
  <2> QED
    BY <2>2, <2>3
<1>7. ASSUME NEW k \in Keys, CopyPut(k) PROVE Goal
  <2>1. PICK t \in Stamps :
          replica' = [replica EXCEPT ![cur][k] = [ver |-> flying[k], mtime |-> t]]
    BY <1>7 DEF CopyPut
  <2>2. cur \in Replicas
    BY <1>1 DEF TypeOK
  <2>3. /\ replica'[cur][k].ver = flying[k]
        /\ \A p \in Replicas, j \in Keys : <<p, j>> # <<cur, k>> => replica'[p][j] = replica[p][j]
    BY <1>1, <2>1, <2>2, Numbers
  <2> QED
    BY <1>6, <1>7, <2>2, <2>3 DEF CopyPut
<1>8. ASSUME NEW s \in strays, StrayLands(s) PROVE Goal
  <2>1. PICK t \in Stamps :
          replica' = [replica EXCEPT ![s.r][s.key] = [ver |-> s.ver, mtime |-> t]]
    BY <1>8 DEF StrayLands
  <2>2. s.r \in Replicas /\ s.key \in Keys
    BY <1>1 DEF TypeOK
  <2>3. /\ replica'[s.r][s.key].ver = s.ver
        /\ \A p \in Replicas, j \in Keys :
             <<p, j>> # <<s.r, s.key>> => replica'[p][j] = replica[p][j]
    BY <1>1, <2>1, <2>2, Numbers
  <2> QED
    BY <1>6, <1>8, <2>2, <2>3 DEF StrayLands
<1>9. CASE EventDelete
  <2>1. etask.r \in Replicas /\ etask.key \in Keys
    BY <1>1 DEF TypeOK, Task
  <2>2. replica' = [replica EXCEPT ![etask.r][etask.key] = NoObject]
    BY <1>9 DEF EventDelete
  <2>3. /\ replica'[etask.r][etask.key].ver = 0
        /\ \A p \in Replicas, j \in Keys :
             <<p, j>> # <<etask.r, etask.key>> => replica'[p][j] = replica[p][j]
    BY <1>1, <2>1, <2>2, Numbers DEF NoObject
  <2> QED
    BY <1>6, <1>9, <2>1, <2>3 DEF EventDelete
<1>10. CASE EventPut
  BY <1>10 DEF EventPut, MarkInv, EventsInv
<1> QED
  BY <1>2, <1>3, <1>4, <1>5, <1>7, <1>8, <1>9, <1>10, BucketStep

(* A pass that drained has mirrored whatever its new watermark, the end of the *)
(* pass, will skip, but for what was stored or spoilt since it was listed.      *)
LEMMA DrainedPass ==
  ASSUME MarkInv, tpc = "copy", todo = {}, flying = NoFlight,
         failed = {}, abandoned = {}, ~truncated, NEW k \in Keys, Owed(k)
  PROVE  replica[cur][k].ver = primary[k].ver
<1>1. TypeOK
  BY DEF MarkInv
<1>2. Accounted(k)
  BY DEF MarkInv, PassInv, Passing
<1>3. ~(k > cursor)
  BY <1>1, ReplicationAssumption DEF MarkInv, PassInv, TypeOK, Keys
<1>4. page[k] # primary[k]
  BY <1>1 DEF MarkInv, PassInv, Present, TypeOK, Owed
<1>5. flying[k] # primary[k].ver
  BY <1>1, Numbers DEF NoFlight, Owed
<1> QED
  BY <1>1, <1>2, <1>3, <1>4, <1>5 DEF Accounted, Mirrors, Owed

(* A queued task is an earlier one or one of the envelope just routed.         *)
LEMMA RoutedTasks ==
  ASSUME TypeOK, NEW e \in bus, RouteEvent(e), NEW i \in DOMAIN tasks'
  PROVE  \/ \E j \in DOMAIN tasks : tasks'[i] = tasks[j]
         \/ \E r \in Replicas : tasks'[i] = FanOut(e)[r]
<1> DEFINE queue == tasks \o FanOut(e)
<1>1. tasks \in Seq(Task) /\ FanOut(e) \in Seq(Task) /\ DOMAIN FanOut(e) = Replicas
  BY FanOutTypes DEF TypeOK, FanOut
<1>2. queue \in Seq(Task) /\ Len(queue) = Len(tasks) + Len(FanOut(e))
  BY <1>1, ConcatProperties
<1>3. i \in 1..Len(queue) /\ tasks'[i] = queue[i]
  <2>1. CASE tasks' = queue
    BY <1>2, <2>1
  <2>2. CASE tasks' = SubSeq(queue, 1, QueueCap) /\ Len(queue) > QueueCap
    BY <1>2, <2>2, ReplicationAssumption, SubSeqProperties
  <2>3. tasks' = queue \/ (tasks' = SubSeq(queue, 1, QueueCap) /\ ~(Len(queue) <= QueueCap))
    BY DEF RouteEvent
  <2>4. ~(Len(queue) <= QueueCap) => Len(queue) > QueueCap
    BY <1>2, ReplicationAssumption
  <2> QED
    BY <2>1, <2>2, <2>3, <2>4
<1>4. CASE i <= Len(tasks)
  BY <1>1, <1>3, <1>4, ConcatProperties
<1>5. CASE i > Len(tasks)
  <2>1. i - Len(tasks) \in 1..Len(FanOut(e))
    BY <1>1, <1>2, <1>3, <1>5
  <2>2. queue[i] = FanOut(e)[i - Len(tasks)]
    BY <1>1, <1>2, <1>3, <1>5, ConcatProperties
  <2> QED
    BY <1>1, <1>3, <2>1, <2>2
<1> QED
  BY <1>1, <1>3, <1>4, <1>5

LEMMA TakenTask ==
  ASSUME TypeOK, TakeTask
  PROVE  /\ 1 \in DOMAIN tasks /\ etask' = tasks[1]
         /\ \A i \in DOMAIN tasks' : i + 1 \in DOMAIN tasks /\ tasks'[i] = tasks[i + 1]
  BY HeadTailProperties, ReplicationAssumption DEF TypeOK, TakeTask

(* Every watermark written down is one that was vouched for before the step,   *)
(* or the clock at the end of a drained pass.                                  *)
LEMMA WatermarksStep ==
  ASSUME TicksAdvance, MarkInv, [Next]_vars
  PROVE  WatermarksInv'
<1> DEFINE Later(r, w) == VouchedBy(primary', replica', clock', late', r, w)
<1>1. TypeOK /\ WatermarksInv
  BY DEF MarkInv
<1>2. \A r \in Replicas, w \in Nat : Vouched(r, w) => Later(r, w)
  BY VouchedStep
<1>3. \A r \in Replicas : Vouched(r, 0)
  BY <1>1, Numbers DEF Vouched, VouchedBy, SkippedBy
<1>4. /\ rec \in [Replicas -> Record] /\ floor \in [Replicas -> Nat] /\ tasks \in Seq(Task)
      /\ etask \in Task /\ eupd \in Record /\ upd \in Record /\ cur \in Replicas
  BY <1>1 DEF TypeOK
<1>5. WatermarksInv' =
        /\ \A r \in Replicas : Later(r, rec'[r].lastSync) /\ Later(r, floor'[r])
        /\ \A i \in DOMAIN tasks' : Later(tasks'[i].r, tasks'[i].lastSync)
        /\ Later(etask'.r, etask'.lastSync) /\ Later(etask'.r, eupd'.lastSync)
        /\ Later(cur', upd'.lastSync)
        /\ tpc' # "write" => upd'.lastSync = 0
        /\ epc' # "write" => eupd'.lastSync = 0
  BY DEF WatermarksInv, Vouched
<1>6. /\ \A r \in Replicas : rec[r].lastSync \in Nat /\ floor[r] \in Nat
      /\ \A i \in DOMAIN tasks : tasks[i].r \in Replicas /\ tasks[i].lastSync \in Nat
      /\ etask.r \in Replicas /\ etask.lastSync \in Nat /\ eupd.lastSync \in Nat
      /\ upd.lastSync \in Nat
  <2>1. \A i \in DOMAIN tasks : tasks[i] \in Task
    BY <1>4
  <2>2. \A t \in Task : t.r \in Replicas /\ t.lastSync \in Nat
    BY DEF Task
  <2> QED
    BY <1>4, <2>1, <2>2 DEF Record
<1>7. /\ \A r \in Replicas : Later(r, rec[r].lastSync) /\ Later(r, floor[r]) /\ Later(r, 0)
      /\ \A i \in DOMAIN tasks : Later(tasks[i].r, tasks[i].lastSync)
      /\ Later(etask.r, etask.lastSync) /\ Later(etask.r, eupd.lastSync)
      /\ Later(cur, upd.lastSync)
      /\ tpc # "write" => upd.lastSync = 0
      /\ epc # "write" => eupd.lastSync = 0
  BY <1>1, <1>2, <1>3, <1>4, <1>6 DEF WatermarksInv
<1> HIDE DEF Later
<1>8. /\ UNCHANGED <<rec, floor, tasks, etask, eupd, cur, upd>>
      /\ tpc' = "write" <=> tpc = "write"
      /\ epc' = "write" <=> epc = "write"
      => WatermarksInv'
  BY <1>5, <1>7
<1>9. CASE Users \/ Advance \/ UNCHANGED vars
  <2>1. UNCHANGED <<rec, floor, tasks, etask, eupd, cur, upd, tpc, epc>>
    BY <1>9 DEF Users, Upload, DeleteObject, PublishPut, Advance, vars, storeVars, eventVars,
                tickVars
  <2> QED
    BY <1>8, <2>1
<1>10. CASE Tick
  <2>1. CASE TickStart
    BY <1>4, <1>5, <1>6, <1>7, <2>1 DEF TickStart, storeVars, eventVars
  <2>2. CASE TickDone
    BY <1>4, <1>5, <1>6, <1>7, <2>2 DEF TickDone, storeVars, eventVars
  <2>3. CASE ListPage \/ PageDone \/ \E k \in Keys : Examine(k) \/ CopyRead(k) \/ CopyPut(k)
    <3>1. /\ UNCHANGED <<rec, floor, tasks, etask, eupd, cur, upd, epc>>
          /\ tpc # "write" /\ tpc' # "write"
      BY <2>3 DEF ListPage, PageDone, Examine, CopyRead, CopyPut, storeVars, eventVars
    <3> QED
      BY <1>8, <3>1
  <2>4. CASE TickSettle
    <3>1. Later(cur, upd'.lastSync)
      <4>1. CASE failed # {} \/ Cardinality(abandoned) > 0 \/ truncated
        <5>1. upd'.lastSync = floor[cur]
          BY <2>4, <4>1, KeysFinite, <1>1 DEF TickSettle, SuccessUpdate, FailureUpdate
        <5> QED
          BY <1>4, <1>7, <5>1
      <4>2. CASE failed = {} /\ ~(Cardinality(abandoned) > 0) /\ ~truncated
        <5>1. abandoned = {}
          <6>1. IsFiniteSet(abandoned) /\ Cardinality(abandoned) = 0
            BY <4>2, KeysFinite, <1>1 DEF TypeOK
          <6> QED
            BY <6>1, FS_EmptySet
        <5>2. upd'.lastSync = clock
          BY <2>4, <4>2 DEF TickSettle, SuccessUpdate
        <5>3. ASSUME NEW k \in Keys \ late', primary[k].ver > 0, SkippedBy(clock, primary[k])
              PROVE  replica[cur][k].ver = primary[k].ver
          <6>1. Owed(k)
            BY <2>4, <5>2, <5>3 DEF TickSettle, Owed
          <6> QED
            BY <2>4, <4>2, <5>1, <6>1, DrainedPass DEF TickSettle
        <5>4. UNCHANGED <<primary, replica, clock>> /\ clock <= clock
          BY <1>1, <2>4, Numbers DEF TickSettle
        <5> QED
          BY <5>2, <5>3, <5>4 DEF Later, VouchedBy
      <4> QED
        BY <4>1, <4>2
    <3> QED
      BY <1>5, <1>7, <2>4, <3>1 DEF TickSettle, eventVars
  <2>5. CASE TickWrite
    <3>1. rec' = [rec EXCEPT ![cur] = upd] \/ rec' = rec
      BY <2>5 DEF TickWrite, UpdateReplicaHealth
    <3>2. \A r \in Replicas : Later(r, rec'[r].lastSync)
      BY <1>4, <1>7, <3>1
    <3>3. upd'.lastSync = 0
      BY <2>5 DEF TickWrite, NewRecord
    <3> QED
      BY <1>4, <1>5, <1>7, <2>5, <3>2, <3>3 DEF TickWrite, eventVars
  <2>6. ASSUME NEW r \in Replicas, PickReplica(r) PROVE WatermarksInv'
    BY <1>5, <1>7, <2>6 DEF PickReplica, storeVars, eventVars
  <2> QED
    BY <1>10, <2>1, <2>2, <2>3, <2>4, <2>5, <2>6 DEF Tick
<1>11. CASE Faults
  <2>1. CASE ListFault
    <3>1. upd'.lastSync = floor[cur]
      BY <2>1 DEF ListFault, FailureUpdate
    <3> QED
      BY <1>4, <1>5, <1>7, <2>1, <3>1 DEF ListFault, eventVars
  <2>2. CASE ~ListFault
    <3>1. UNCHANGED <<rec, floor, tasks, etask, eupd, cur, upd, tpc, epc>>
      BY <1>11, <2>2 DEF Faults, BatchExpire, CopyFault, StrayLands, LoseEvent, storeVars,
                         eventVars, tickVars
    <3> QED
      BY <1>8, <3>1
  <2> QED
    BY <2>1, <2>2
<1>12. CASE Events
  <2>1. ASSUME NEW e \in bus, RouteEvent(e) PROVE WatermarksInv'
    <3>1. \A i \in DOMAIN tasks' : Later(tasks'[i].r, tasks'[i].lastSync)
      <4>1. \A r \in Replicas : FanOut(e)[r].r = r /\ FanOut(e)[r].lastSync = rec[r].lastSync
        BY DEF FanOut
      <4> QED
        BY <1>1, <1>7, <2>1, <4>1, RoutedTasks
    <3> QED
      BY <1>5, <1>7, <2>1, <3>1 DEF RouteEvent, storeVars, eventVars, tickVars
  <2>2. CASE TakeTask
    <3>1. /\ Later(etask'.r, etask'.lastSync) /\ etask'.r \in Replicas
          /\ \A i \in DOMAIN tasks' : Later(tasks'[i].r, tasks'[i].lastSync)
      BY <1>1, <1>6, <1>7, <2>2, TakenTask
    <3> QED
      BY <1>5, <1>7, <2>2, <3>1 DEF TakeTask, storeVars, tickVars
  <2>3. CASE EventDeleteSettle
    <3>1. eupd'.lastSync = rec[etask.r].lastSync
      BY <1>4, <1>6, <2>3 DEF EventDeleteSettle, Record
    <3> QED
      BY <1>5, <1>6, <1>7, <2>3, <3>1 DEF EventDeleteSettle, storeVars, tickVars
  <2>4. CASE EventFault
    <3>1. eupd'.lastSync = etask.lastSync
      BY <2>4 DEF EventFault, FailureUpdate
    <3> QED
      BY <1>5, <1>7, <2>4, <3>1 DEF EventFault, tickVars
  <2>5. CASE EventWrite
    <3>1. rec' = [rec EXCEPT ![etask.r] = eupd] \/ rec' = rec
      BY <2>5 DEF EventWrite, UpdateReplicaHealth
    <3>2. \A r \in Replicas : Later(r, rec'[r].lastSync)
      BY <1>4, <1>7, <3>1
    <3>3. etask' = NoTask /\ NoTask.lastSync = 0 /\ NoTask.r \in Replicas /\ eupd'.lastSync = 0
      BY <2>5, BlankTypes DEF EventWrite, NewRecord, NoTask, Task
    <3> QED
      BY <1>5, <1>7, <2>5, <3>2, <3>3 DEF EventWrite, tickVars
  <2>6. CASE EventDelete
    <3>1. UNCHANGED <<rec, floor, tasks, etask, eupd, cur, upd, tpc>>
          /\ epc # "write" /\ epc' # "write"
      BY <2>6 DEF EventDelete, storeVars, tickVars
    <3> QED
      BY <1>8, <3>1
  <2>7. CASE EventRead \/ EventPut \/ EventPutSettle
    BY <2>7 DEF EventRead, EventPut, EventPutSettle, MarkInv, EventsInv
  <2> QED
    BY <1>12, <2>1, <2>2, <2>3, <2>4, <2>5, <2>6, <2>7 DEF Events
<1> QED
  BY <1>9, <1>10, <1>11, <1>12 DEF Next

(* Without object.created events, the queues hold deletes alone.              *)
LEMMA EventsStep ==
  ASSUME TicksAdvance, MarkInv, [Next]_vars
  PROVE  EventsInv'
<1>1. TypeOK /\ EventsInv
  BY DEF MarkInv
<1>2. UNCHANGED <<bus, tasks, epc, etask>> => EventsInv'
  BY <1>1 DEF EventsInv
<1>3. CASE Users \/ Advance \/ Tick \/ UNCHANGED vars
  <2>1. CASE ~\E k \in Keys, b \in BOOLEAN : PublishPut(k) \/ DeleteObject(k, b)
    <3>1. UNCHANGED <<bus, tasks, epc, etask>>
      BY <1>3, <2>1
         DEF Users, Upload, Advance, vars, Tick, TickStart, TickDone, ListPage, PageDone,
             TickSettle, TickWrite, PickReplica, Examine, CopyRead, CopyPut, eventVars
    <3> QED
      BY <1>2, <3>1
  <2>2. ASSUME NEW k \in Keys, NEW b \in BOOLEAN, PublishPut(k) \/ DeleteObject(k, b)
        PROVE  EventsInv'
    BY <1>1, <2>2 DEF PublishPut, DeleteObject, TicksAdvance, EventsInv, eventVars
  <2> QED
    BY <2>1, <2>2
<1>4. CASE Faults
  <2>1. UNCHANGED <<tasks, epc, etask>> /\ bus' \subseteq bus
    BY <1>4 DEF Faults, ListFault, BatchExpire, CopyFault, StrayLands, LoseEvent, eventVars
  <2> QED
    BY <1>1, <2>1 DEF EventsInv
<1>5. CASE Events
  <2>1. ASSUME NEW e \in bus, RouteEvent(e) PROVE EventsInv'
    <3>1. bus' \subseteq bus /\ UNCHANGED <<epc, etask>>
      BY <2>1 DEF RouteEvent, eventVars
    <3>2. \A r \in Replicas : FanOut(e)[r].kind = "delete"
      BY <1>1 DEF FanOut, EventsInv
    <3>3. \A i \in DOMAIN tasks' : tasks'[i].kind = "delete"
      BY <1>1, <2>1, <3>2, RoutedTasks DEF EventsInv
    <3> QED
      BY <1>1, <3>1, <3>3 DEF EventsInv
  <2>2. CASE TakeTask
    <3>1. UNCHANGED bus /\ epc' = "run"
      BY <2>2 DEF TakeTask
    <3>2. etask'.kind = "delete" /\ \A i \in DOMAIN tasks' : tasks'[i].kind = "delete"
      BY <1>1, <2>2, TakenTask DEF EventsInv
    <3> QED
      BY <1>1, <3>1, <3>2 DEF EventsInv
  <2>3. CASE EventDelete \/ EventDeleteSettle \/ EventFault \/ EventWrite
    <3>1. UNCHANGED <<bus, tasks>> /\ epc' \in {"idle", "deleted", "write"}
      BY <2>3 DEF EventDelete, EventDeleteSettle, EventFault, EventWrite
    <3> QED
      BY <1>1, <3>1 DEF EventsInv
  <2>4. CASE EventRead \/ EventPut \/ EventPutSettle
    BY <1>1, <2>4 DEF EventRead, EventPut, EventPutSettle, EventsInv
  <2> QED
    BY <1>5, <2>1, <2>2, <2>3, <2>4 DEF Events
<1> QED
  BY <1>3, <1>4, <1>5 DEF Next

(* The facts of PassInv, with types, in the form the steps below use.         *)
LEMMA PassFacts ==
  MarkInv =>
    /\ TypeOK /\ PassInv /\ EventsInv /\ WatermarksInv
    /\ cursor \in 0..NumKeys /\ flying \in [Keys -> Nat] /\ page \in [Keys -> Object]
    /\ cur \in Replicas
  BY DEF MarkInv, TypeOK

(* What the rest of the program does to a pass in progress: an object it still *)
(* owes after the step was owed before it, and is as it was.                    *)
LEMMA OutsideStep ==
  ASSUME MarkInv,
         UNCHANGED <<tpc, cur, cursor, page, truncated, todo, flying, failed, abandoned>>,
         Passing => touched \subseteq touched',
         \A k \in Keys : \/ primary'[k] = primary[k]
                         \/ primary'[k].ver = 0
                         \/ Passing => k \in touched',
         \A k \in Keys : \/ replica'[cur][k] = replica[cur][k]
                         \/ replica'[cur][k].ver = primary[k].ver
                         \/ primary[k].ver = 0
                         \/ Passing => k \in touched',
         \A k \in Keys : k \in late => k \in late' \/ (Passing => k \in touched')
  PROVE  PassInv'
<1>1. PassInv
  BY PassFacts
<1>2. Passing' = Passing /\ (tpc = "copy" => Passing)
  BY DEF Passing
<1>3. ASSUME NEW k \in Keys, Passing, Owed(k)' PROVE Accounted(k)'
  <2>1. primary'[k] = primary[k] /\ Owed(k)
    BY <1>3 DEF Owed
  <2>2. Accounted(k)
    BY <1>1, <1>3, <2>1 DEF PassInv
  <2>3. replica'[cur][k] = replica[cur][k] \/ replica'[cur][k].ver = primary[k].ver
    BY <1>3, <2>1 DEF Owed
  <2> QED
    BY <2>1, <2>2, <2>3 DEF Accounted, Mirrors
<1>4. ASSUME NEW k \in Keys, flying'[k] > 0
      PROVE  tpc' = "copy" /\ (primary'[k].ver \in {0, flying'[k]} \/ k \in touched')
  <2>1. tpc = "copy" /\ (primary[k].ver \in {0, flying[k]} \/ k \in touched)
    BY <1>1, <1>4 DEF PassInv
  <2> QED
    BY <1>2, <2>1
<1> QED
  BY <1>1, <1>2, <1>3, <1>4 DEF PassInv, Present

(* A write to a replica from outside the pass, and what it leaves there.        *)
LEMMA OutsideWrite ==
  ASSUME MarkInv,
         UNCHANGED <<tpc, cur, cursor, page, truncated, todo, flying, failed, abandoned, primary>>,
         NEW r \in Replicas, NEW k \in Keys, NEW ver, NEW obj, obj.ver = ver,
         Written(r, k, ver), replica' = [replica EXCEPT ![r][k] = obj]
  PROVE  PassInv'
<1>1. /\ touched \subseteq touched' /\ late \subseteq late'
      /\ primary[k].ver \notin {0, ver} /\ Passing /\ r = cur => k \in touched'
  BY DEF Written
<1>2. replica \in [Replicas -> [Keys -> Object]] /\ cur \in Replicas
  BY PassFacts, Numbers
<1>3. \A j \in Keys : <<cur, j>> # <<r, k>> => replica'[cur][j] = replica[cur][j]
  BY <1>2
<1>4. r = cur => replica'[cur][k].ver = ver
  BY <1>2
<1> QED
  BY <1>1, <1>3, <1>4, OutsideStep

(* Users and queued deletes touch only objects that the pass no longer owes.   *)
LEMMA PassOthers ==
  ASSUME MarkInv, Users \/ Advance \/ Events \/ UNCHANGED vars
  PROVE  PassInv'
<1>1. TypeOK /\ EventsInv
  BY PassFacts
<1>2. UNCHANGED <<tpc, cur, cursor, page, truncated, todo, flying, failed, abandoned>>
  BY DEF Users, Upload, DeleteObject, PublishPut, Advance, Events, RouteEvent, TakeTask,
         EventDelete, EventDeleteSettle, EventRead, EventPut, EventPutSettle, EventFault,
         EventWrite, vars, tickVars, listVars, batchVars
<1>3. CASE UNCHANGED <<primary, replica, touched, late>>
  BY <1>2, <1>3, OutsideStep
<1>4. CASE Advance
  BY <1>3, <1>4 DEF Advance, history
<1>5. ASSUME NEW j \in Keys, Upload(j) PROVE PassInv'
  <2>1. /\ Passing => touched' = touched \cup {j}
        /\ \A k \in Keys \ {j} : primary'[k] = primary[k] /\ (k \in late => k \in late')
    BY <1>1, <1>5, Numbers DEF Upload
  <2>2. UNCHANGED replica
    BY <1>5 DEF Upload
  <2> QED
    BY <1>2, <2>1, <2>2, OutsideStep
<1>6. ASSUME NEW j \in Keys, NEW b \in BOOLEAN, DeleteObject(j, b) PROVE PassInv'
  <2>1. \A k \in Keys : primary'[k] = primary[k] \/ primary'[k].ver = 0
    BY <1>1, <1>6, Numbers DEF DeleteObject, NoObject
  <2>2. UNCHANGED <<replica, touched, late>>
    BY <1>6 DEF DeleteObject, history
  <2> QED
    BY <1>2, <2>1, <2>2, OutsideStep
<1>7. CASE EventDelete
  <2>1. etask.key \in Keys /\ etask.r \in Replicas /\ NoObject.ver = 0
    BY <1>1 DEF TypeOK, Task, NoObject
  <2>2. /\ Written(etask.r, etask.key, 0) /\ UNCHANGED primary
        /\ replica' = [replica EXCEPT ![etask.r][etask.key] = NoObject]
    BY <1>7 DEF EventDelete
  <2> QED
    BY <1>2, <2>1, <2>2, OutsideWrite
<1>8. CASE EventPut
  BY <1>1, <1>8 DEF EventPut, EventsInv
<1> QED
  BY <1>3, <1>4, <1>5, <1>6, <1>7, <1>8, OthersBuckets

(* Each step of a pass keeps count of what it owes.                            *)
LEMMA PassTick ==
  ASSUME MarkInv, Tick
  PROVE  PassInv'
<1>1. TypeOK /\ PassInv /\ WatermarksInv /\ cursor \in 0..NumKeys
      /\ flying \in [Keys -> Nat] /\ page \in [Keys -> Object] /\ cur \in Replicas
  BY PassFacts
<1>2. \A k \in Keys : flying[k] > 0 => tpc = "copy"
  BY <1>1 DEF PassInv
<1>3. CASE TickStart \/ TickDone
  BY <1>1, <1>2, <1>3 DEF TickStart, TickDone, PassInv, Passing, batchVars
<1>4. CASE TickWrite
  BY <1>4 DEF TickWrite, ResetPass, PassInv, Passing, NoFlight
<1>5. ASSUME NEW r \in Replicas, PickReplica(r) PROVE PassInv'
  <2>1. Present(page)' = {} /\ \A k \in Keys : flying'[k] = 0 /\ k > cursor'
    BY <1>5 DEF PickReplica, ResetPass, Present, Empty, NoObject, NoFlight, Keys
  <2> QED
    BY <1>5, <2>1 DEF PickReplica, PassInv, Accounted
<1>6. CASE ListPage
  <2>1. PICK last \in cursor..NumKeys :
          LET listed == {j \in Present(primary) : cursor < j /\ j <= last} IN
          /\ page' = [k \in Keys |-> IF k \in listed THEN primary[k] ELSE NoObject]
          /\ cursor' = last
          /\ touched' = touched \ listed
    BY <1>6 DEF ListPage
  <2>2. last \in Nat /\ cursor \in Nat
    BY <1>1, <2>1, ReplicationAssumption
  <2>3. ASSUME NEW k \in Keys, Owed(k)' PROVE Accounted(k)'
    <3>1. primary[k].ver > 0 /\ k \in Nat /\ UNCHANGED <<primary, late>>
      BY <1>6, <2>3 DEF ListPage, Owed, Keys
    <3>2. CASE k > cursor
      <4>1. k <= last => page'[k] = primary[k]
        BY <2>1, <3>1, <3>2 DEF Present
      <4> QED
        BY <2>1, <2>2, <3>1, <4>1 DEF Accounted
    <3>3. CASE ~(k > cursor)
      <4>1. Owed(k)
        BY <2>1, <2>2, <2>3, <3>1, <3>3 DEF Owed
      <4>2. Accounted(k)
        BY <1>1, <1>6, <4>1 DEF PassInv, ListPage, Passing
      <4>3. page[k] # primary[k]
        BY <1>1, <1>6, <3>1 DEF ListPage, PassInv, Present
      <4> QED
        BY <1>6, <3>1, <3>3, <4>2, <4>3 DEF ListPage, batchVars, Accounted, Mirrors
    <3> QED
      BY <3>2, <3>3
  <2> QED
    BY <1>1, <1>2, <1>6, <2>3 DEF ListPage, PassInv, batchVars
<1>7. ASSUME Passing, Passing', UNCHANGED <<primary, replica, cur, touched, late>>,
             NEW k \in Keys, Owed(k)'
      PROVE  primary[k].ver > 0 /\ Owed(k) /\ Accounted(k)
  BY <1>1, <1>7 DEF Owed, PassInv
<1>8. CASE PageDone
  <2>1. \A k \in Keys : Owed(k)' => Accounted(k)'
    BY <1>7, <1>8 DEF PageDone, Passing, history, Accounted, Mirrors, batchVars
  <2> QED
    BY <1>1, <1>2, <1>8, <2>1 DEF PageDone, PassInv, batchVars, Present
<1>9. ASSUME NEW j \in Keys, Examine(j) PROVE PassInv'
  <2>1. ASSUME NEW k \in Keys, Owed(k)' PROVE Accounted(k)'
    <3>1. Owed(k) /\ Accounted(k)
      BY <1>7, <1>9, <2>1 DEF Examine, Passing, history
    <3>2. CASE k # j \/ page[k] # primary[k]
      BY <1>1, <1>9, <3>1, <3>2 DEF Examine, Accounted, Mirrors
    <3>3. CASE k = j /\ page[k] = primary[k]
      <4>1. CASE SkippedBy(floor[cur], page[k])
        <5>1. Mirrors(cur, k)
          BY <1>1, <3>1, <3>3, <4>1 DEF WatermarksInv, Vouched, VouchedBy, Mirrors, Owed
        <5> QED
          BY <1>9, <5>1 DEF Examine, Accounted, Mirrors
      <4>2. CASE ~Differs(page[k], replica[cur][k])
        BY <1>9, <3>3, <4>2 DEF Examine, Differs, Accounted, Mirrors
      <4>3. CASE j \in todo'
        BY <3>3, <4>3 DEF Accounted
      <4> QED
        BY <1>9, <3>3, <4>1, <4>2, <4>3 DEF Examine
    <3> QED
      BY <3>2, <3>3
  <2>2. tpc' = "copy" => truncated' /\ Present(page)' = {}
    BY <1>9 DEF Examine, Present, Empty, NoObject
  <2> QED
    BY <1>1, <1>2, <1>9, <2>1, <2>2 DEF Examine, PassInv
<1>10. ASSUME NEW j \in Keys, CopyRead(j) PROVE PassInv'
  <2>1. ASSUME NEW k \in Keys, Owed(k)' PROVE Accounted(k)'
    BY <1>1, <1>7, <1>10, <2>1 DEF CopyRead, Passing, history, Accounted, Mirrors, listVars
  <2>2. \A k \in Keys : flying'[k] > 0 => primary[k].ver \in {0, flying'[k]} \/ k \in touched
    BY <1>1, <1>10 DEF CopyRead, PassInv
  <2> QED
    BY <1>1, <1>10, <2>1, <2>2 DEF CopyRead, PassInv, Present, listVars, history
<1>11. ASSUME NEW j \in Keys, CopyPut(j) PROVE PassInv'
  <2>1. /\ replica'[cur][j].ver = flying[j]
        /\ \A k \in Keys \ {j} : replica'[cur][k] = replica[cur][k] /\ flying'[k] = flying[k]
        /\ flying'[j] = 0
    BY <1>1, <1>11, Numbers DEF CopyPut
  <2>2. touched \subseteq touched' /\ late \subseteq late'
    BY <1>11 DEF CopyPut, Written
  <2>3. ASSUME NEW k \in Keys, Owed(k)' PROVE Accounted(k)'
    <3>1. Owed(k) /\ Accounted(k)
      BY <1>1, <1>11, <2>2, <2>3 DEF CopyPut, Owed, PassInv, Passing
    <3>2. CASE k = j
      <4>1. flying[j] = primary[j].ver
        BY <1>1, <1>11, <3>1, <3>2, Numbers DEF CopyPut, Owed, PassInv
      <4> QED
        BY <1>11, <2>1, <3>2, <4>1 DEF CopyPut, Accounted, Mirrors
    <3>3. CASE k # j
      BY <1>11, <2>1, <3>1, <3>3 DEF CopyPut, Accounted, Mirrors, listVars
    <3> QED
      BY <3>2, <3>3
  <2>4. \A k \in Keys : flying'[k] > 0 => primary[k].ver \in {0, flying'[k]} \/ k \in touched'
    BY <1>1, <2>1, <2>2 DEF PassInv
  <2> QED
    BY <1>1, <1>11, <2>3, <2>4 DEF CopyPut, PassInv, Present, listVars
<1>12. CASE TickSettle
  BY <1>12 DEF TickSettle, PassInv, Passing, batchVars, NoFlight
<1> QED
  BY <1>3, <1>4, <1>5, <1>6, <1>8, <1>9, <1>10, <1>11, <1>12 DEF Tick

(* A fault of a pass leaves a failed, abandoned or unfinished object.         *)
LEMMA PassFaults ==
  ASSUME MarkInv, Faults
  PROVE  PassInv'
<1>1. TypeOK /\ PassInv
  BY PassFacts
<1>2. CASE ListFault
  BY <1>1, <1>2 DEF ListFault, PassInv, Passing, batchVars
<1>3. ASSUME Passing, UNCHANGED <<primary, touched, late>>, NEW k \in Keys, Owed(k)'
      PROVE  primary[k].ver > 0 /\ Accounted(k)
  BY <1>1, <1>3 DEF Owed, PassInv
<1>4. CASE BatchExpire
  <2>1. \A k \in Keys : flying'[k] = 0
    BY <1>4 DEF BatchExpire, NoFlight
  <2>2. ASSUME NEW k \in Keys, Owed(k)' PROVE Accounted(k)'
    <3>1. primary[k].ver > 0 /\ Accounted(k)
      BY <1>3, <1>4, <2>2 DEF BatchExpire, Passing, history
    <3>2. k \in todo \/ flying[k] = primary[k].ver => k \in failed' \/ k \in abandoned'
      BY <1>4, <3>1 DEF BatchExpire
    <3>3. failed \subseteq failed' /\ abandoned \subseteq abandoned'
      BY <1>4 DEF BatchExpire
    <3> QED
      BY <1>4, <3>1, <3>2, <3>3 DEF BatchExpire, Accounted, Mirrors, listVars
  <2> QED
    BY <1>1, <1>4, <2>1, <2>2 DEF BatchExpire, PassInv, Present, listVars
<1>5. ASSUME NEW j \in Keys, CopyFault(j) PROVE PassInv'
  <2>1. \A k \in Keys \ {j} : flying'[k] = flying[k]
    BY <1>1, <1>5 DEF CopyFault, TypeOK
  <2>2. flying'[j] = 0 /\ j \in failed' /\ failed \subseteq failed'
    BY <1>1, <1>5 DEF CopyFault, TypeOK
  <2>3. ASSUME NEW k \in Keys, Owed(k)' PROVE Accounted(k)'
    <3>1. Accounted(k)
      BY <1>3, <1>5, <2>3 DEF CopyFault, Passing, history
    <3> QED
      BY <1>5, <2>1, <2>2, <3>1 DEF CopyFault, Accounted, Mirrors, listVars
  <2>4. \A k \in Keys : flying'[k] > 0 => primary[k].ver \in {0, flying'[k]} \/ k \in touched
    BY <1>1, <2>1, <2>2 DEF PassInv
  <2> QED
    BY <1>1, <1>5, <2>3, <2>4 DEF CopyFault, PassInv, Present, listVars, history
<1>6. ASSUME NEW s \in strays, StrayLands(s) PROVE PassInv'
  <2>1. s.r \in Replicas /\ s.key \in Keys
    BY <1>1 DEF TypeOK
  <2>2. PICK t \in Stamps :
          replica' = [replica EXCEPT ![s.r][s.key] = [ver |-> s.ver, mtime |-> t]]
    BY <1>6 DEF StrayLands
  <2>3. UNCHANGED <<tpc, cur, cursor, page, truncated, todo, flying, failed, abandoned, primary>>
        /\ Written(s.r, s.key, s.ver)
    BY <1>6 DEF StrayLands, tickVars, listVars, batchVars
  <2> DEFINE obj == [ver |-> s.ver, mtime |-> t]
  <2>4. obj.ver = s.ver /\ replica' = [replica EXCEPT ![s.r][s.key] = obj]
    BY <2>2
  <2> HIDE DEF obj
  <2> QED
    BY <2>1, <2>3, <2>4, OutsideWrite
<1>7. ASSUME NEW e \in bus, LoseEvent(e) PROVE PassInv'
  <2>1. UNCHANGED <<tpc, cur, cursor, page, truncated, todo, flying, failed, abandoned, primary,
                    replica, touched, late>>
    BY <1>7 DEF LoseEvent, tickVars, listVars, batchVars, history
  <2> QED
    BY <2>1, OutsideStep
<1> QED
  BY <1>2, <1>4, <1>5, <1>6, <1>7 DEF Faults

LEMMA MarkInit == TicksAdvance /\ Init => MarkInv
<1> SUFFICES ASSUME TicksAdvance, Init PROVE MarkInv
  OBVIOUS
<1>1. TypeOK
  BY TypesInit
<1>2. WatermarksInv
  BY ReplicationAssumption
     DEF Init, WatermarksInv, Vouched, VouchedBy, SkippedBy, NewRecord, NoTask
<1>3. EventsInv
  BY DEF Init, EventsInv
<1>4. PassInv
  BY DEF Init, PassInv, Passing, NoFlight
<1> QED
  BY <1>1, <1>2, <1>3, <1>4 DEF MarkInv

(* Where no object.created event reaches the engine (basement publishes none),  *)
(* no page limit, batch cap, failed or abandoned copy, late PUT or queued        *)
(* delete moves LastSync past an object that is not on the replica; the only     *)
(* objects it strands are those that HighWaterMark's late names. Nothing is       *)
(* assumed of how long ticks, tasks and events take.                             *)
THEOREM WatermarkNeverStrands == TicksAdvance => (Spec => []HighWaterMark)
<1> SUFFICES ASSUME TicksAdvance PROVE Spec => []HighWaterMark
  OBVIOUS
<1>1. Init => MarkInv
  BY MarkInit
<1>2. MarkInv /\ [Next]_vars => MarkInv'
  <2> SUFFICES ASSUME MarkInv, [Next]_vars PROVE MarkInv'
    OBVIOUS
  <2>1. TypeOK'
    BY TypesStep DEF MarkInv
  <2>2. WatermarksInv' /\ EventsInv'
    BY WatermarksStep, EventsStep
  <2>3. PassInv'
    BY PassOthers, PassTick, PassFaults DEF Next
  <2> QED
    BY <2>1, <2>2, <2>3 DEF MarkInv
<1>3. MarkInv => HighWaterMark
  BY DEF MarkInv, WatermarksInv, Vouched, VouchedBy, HighWaterMark, Mirrors
<1> QED
  BY <1>1, <1>2, <1>3, PTL DEF Spec

--------------------------------------------------------------------------------
(* The tick as only recorder: what it writes is newer than what it overwrites,  *)
(* and the health it writes agrees with its failure counter.                   *)

PollingOnly == EventKinds = {}

InPass == tpc \in {"list", "examine", "copy", "write"}

PollingInv ==
  /\ bus = {} /\ tasks = <<>> /\ epc = "idle"
  /\ InPass => cur \notin left
  /\ \A r \in Replicas : rec[r].lastSync <= clock
  /\ tpc # "idle" => \A r \in left : floor[r] = rec[r].lastSync
  /\ tpc \in {"list", "examine", "copy"} => floor[cur] = rec[cur].lastSync
  /\ tpc = "write" => rec[cur].lastSync <= upd.lastSync /\ upd.lastSync <= clock

HealthInv ==
  /\ BrokenAfterThreeFailures
  /\ tpc = "write" => (upd.health = "broken" <=> failures[cur] >= BrokenFailureThreshold)

(* The variables the two invariants speak of, besides tpc and the clock.       *)
bookkeeping == <<rec, failures, floor, left, cur, upd>>

(* Away from the start, the end and the records of a pass, nothing is kept.     *)
LEMMA QuietStep ==
  ASSUME PollingOnly, TypeOK, PollingInv, [Next]_vars
  PROVE  /\ bus' = {} /\ tasks' = <<>> /\ epc' = "idle"
         /\ clock' \in Nat /\ clock <= clock'
         /\ \/ /\ UNCHANGED bookkeeping
               /\ \/ tpc' = tpc
                  \/ tpc \in {"list", "examine"} /\ tpc' \in {"list", "examine", "copy"}
            \/ clock' = clock /\ (TickStart \/ TickDone \/ TickSettle \/ TickWrite \/ ListFault)
            \/ clock' = clock /\ \E r \in Replicas : PickReplica(r)
<1> DEFINE Quiet ==
             /\ bus' = {} /\ tasks' = <<>> /\ epc' = "idle"
             /\ clock' \in Nat /\ clock <= clock'
             /\ \/ /\ UNCHANGED bookkeeping
                   /\ \/ tpc' = tpc
                      \/ tpc \in {"list", "examine"} /\ tpc' \in {"list", "examine", "copy"}
                \/ clock' = clock /\ (TickStart \/ TickDone \/ TickSettle \/ TickWrite \/ ListFault)
                \/ clock' = clock /\ \E r \in Replicas : PickReplica(r)
<1>1. bus = {} /\ tasks = <<>> /\ epc = "idle" /\ clock \in Nat
  BY Numbers DEF PollingInv
<1>2. CASE Users \/ Advance \/ UNCHANGED vars
  BY <1>1, <1>2
     DEF Users, Upload, DeleteObject, PublishPut, Advance, PollingOnly, vars, bookkeeping,
         storeVars, tickVars, eventVars
<1>3. CASE Events
  BY <1>1, <1>3 DEF Events, RouteEvent, TakeTask, EventDelete, EventDeleteSettle, EventRead,
                    EventPut, EventPutSettle, EventFault, EventWrite
<1>4. CASE Faults
  <2>1. UNCHANGED <<tasks, epc, clock>> /\ bus' \subseteq bus
    BY <1>4 DEF Faults, ListFault, BatchExpire, CopyFault, StrayLands, LoseEvent, eventVars
  <2>2. ListFault \/ UNCHANGED <<bookkeeping, tpc>>
    BY <1>4 DEF Faults, BatchExpire, CopyFault, StrayLands, LoseEvent, bookkeeping, storeVars,
                tickVars
  <2> QED
    BY <1>1, <2>1, <2>2
<1>5. CASE Tick
  <2>1. CASE TickStart \/ TickDone \/ TickSettle \/ TickWrite
    <3>1. UNCHANGED <<bus, tasks, epc, clock>>
      BY <2>1 DEF TickStart, TickDone, TickSettle, TickWrite, eventVars
    <3> QED
      BY <1>1, <2>1, <3>1
  <2>2. CASE \E r \in Replicas : PickReplica(r)
    <3>1. UNCHANGED <<bus, tasks, epc, clock>>
      BY <2>2 DEF PickReplica, eventVars
    <3> QED
      BY <1>1, <2>2, <3>1
  <2>3. CASE ListPage \/ PageDone \/ \E k \in Keys : Examine(k) \/ CopyRead(k) \/ CopyPut(k)
    <3>1. UNCHANGED <<bus, tasks, epc, clock>> /\ UNCHANGED bookkeeping
      BY <2>3 DEF ListPage, PageDone, Examine, CopyRead, CopyPut, bookkeeping, storeVars,
                  eventVars
    <3>2. \/ tpc' = tpc
          \/ tpc \in {"list", "examine"} /\ tpc' \in {"list", "examine", "copy"}
      BY <2>3 DEF ListPage, PageDone, Examine, CopyRead, CopyPut
    <3> QED
      BY <1>1, <3>1, <3>2
  <2> QED
    BY <1>5, <2>1, <2>2, <2>3 DEF Tick
<1> QED
  BY <1>2, <1>3, <1>4, <1>5 DEF Next

LEMMA PollingStep ==
  ASSUME PollingOnly, TypeOK, PollingInv, [Next]_vars
  PROVE  PollingInv' /\ \A r \in Replicas : rec'[r].lastSync >= rec[r].lastSync
<1>1. /\ clock \in Nat /\ rec \in [Replicas -> Record] /\ floor \in [Replicas -> Nat]
      /\ left \subseteq Replicas /\ cur \in Replicas /\ upd \in Record
      /\ \A r \in Replicas : rec[r].lastSync \in Nat
  BY DEF TypeOK, Record
<1>2. bus' = {} /\ tasks' = <<>> /\ epc' = "idle" /\ clock' \in Nat /\ clock <= clock'
  BY QuietStep
<1>3. CASE /\ UNCHANGED bookkeeping
           /\ \/ tpc' = tpc
              \/ tpc \in {"list", "examine"} /\ tpc' \in {"list", "examine", "copy"}
  <2>1. upd.lastSync \in Nat
    BY <1>1 DEF Record
  <2> QED
    BY <1>1, <1>2, <1>3, <2>1 DEF bookkeeping, PollingInv, InPass
<1>4. CASE TickStart \/ TickDone
  BY <1>1, <1>2, <1>4 DEF TickStart, TickDone, PollingInv, InPass, storeVars
<1>5. ASSUME NEW r \in Replicas, PickReplica(r) PROVE PollingInv' /\ UNCHANGED rec
  BY <1>1, <1>2, <1>5 DEF PickReplica, PollingInv, InPass, storeVars
<1>6. CASE TickSettle \/ ListFault
  <2>1. upd'.lastSync \in {floor[cur], clock}
    BY <1>6 DEF TickSettle, ListFault, SuccessUpdate, FailureUpdate
  <2>2. rec[cur].lastSync <= upd'.lastSync /\ upd'.lastSync <= clock
    BY <1>1, <1>6, <2>1 DEF TickSettle, ListFault, PollingInv
  <2>3. /\ UNCHANGED <<clock, rec, floor, left, cur>> /\ tpc' = "write"
        /\ tpc \in {"list", "copy"}
    BY <1>6 DEF TickSettle, ListFault
  <2> QED
    BY <1>1, <1>2, <2>2, <2>3 DEF PollingInv, InPass
<1>7. CASE TickWrite
  <2>1. rec' = [rec EXCEPT ![cur] = upd] \/ rec' = rec
    BY <1>7 DEF TickWrite, UpdateReplicaHealth
  <2>2. \A r \in Replicas : r # cur => rec'[r] = rec[r]
    BY <1>1, <2>1
  <2>3. rec'[cur] \in {rec[cur], upd}
    BY <1>1, <2>1
  <2>4. upd.lastSync \in Nat
    BY <1>1 DEF Record
  <2>5. UNCHANGED <<clock, floor, left, cur>> /\ tpc = "write" /\ tpc' = "pick"
    BY <1>7 DEF TickWrite
  <2> QED
    BY <1>1, <1>2, <2>2, <2>3, <2>4, <2>5 DEF PollingInv, InPass
<1>8. CASE UNCHANGED rec /\ PollingInv'
  BY <1>1, <1>8
<1> QED
  BY <1>3, <1>4, <1>5, <1>6, <1>7, <1>8, QuietStep

LEMMA PollingInvariant == PollingOnly => (Spec => [](TypeOK /\ PollingInv))
<1> SUFFICES ASSUME PollingOnly PROVE Spec => [](TypeOK /\ PollingInv)
  OBVIOUS
<1>1. Init => PollingInv
  BY DEF Init, PollingInv, InPass, NewRecord
<1>2. TypeOK /\ PollingInv /\ [Next]_vars => PollingInv'
  BY PollingStep
<1> QED
  BY <1>1, <1>2, TypeCorrect, PTL DEF Spec

(* When ticks alone record, a stored LastSync never moves back.               *)
THEOREM WatermarkMonotonic == PollingOnly => (Spec => WatermarkNeverRegresses)
<1> DEFINE A == \A r \in Replicas : rec'[r].lastSync >= rec[r].lastSync
<1> SUFFICES ASSUME PollingOnly PROVE Spec => WatermarkNeverRegresses
  OBVIOUS
<1>1. TypeOK /\ PollingInv /\ [Next]_vars => [A]_rec
  BY PollingStep
<1> QED
  BY <1>1, PollingInvariant, PTL DEF Spec, WatermarkNeverRegresses

LEMMA HealthStep ==
  ASSUME PollingOnly, ~StoreFaults, TypeOK, PollingInv, HealthInv, [Next]_vars
  PROVE  HealthInv'
<1>1. /\ rec \in [Replicas -> Record] /\ cur \in Replicas /\ upd \in Record
      /\ failures \in [Replicas -> 0..BrokenFailureThreshold]
  BY DEF TypeOK
<1>2. CASE /\ UNCHANGED bookkeeping
           /\ \/ tpc' = tpc
              \/ tpc \in {"list", "examine"} /\ tpc' \in {"list", "examine", "copy"}
  BY <1>2 DEF bookkeeping, HealthInv, BrokenAfterThreeFailures
<1>3. CASE TickStart \/ TickDone
  BY <1>3 DEF TickStart, TickDone, HealthInv, BrokenAfterThreeFailures, storeVars
<1>4. CASE \E r \in Replicas : PickReplica(r)
  BY <1>4 DEF PickReplica, HealthInv, BrokenAfterThreeFailures, storeVars
<1>5. CASE TickSettle \/ ListFault
  <2>1. incFailureCount(cur) \/ resetFailureCount(cur)
    BY <1>5 DEF TickSettle, ListFault
  <2>2. \A r \in Replicas : r # cur => failures'[r] = failures[r]
    BY <1>1, <2>1 DEF incFailureCount, resetFailureCount
  <2>3. upd'.health = "broken" <=> failures'[cur] >= BrokenFailureThreshold
    <3>1. CASE upd' = FailureUpdate(cur, floor[cur])
      BY <3>1 DEF FailureUpdate
    <3>2. CASE /\ resetFailureCount(cur)
               /\ upd' = SuccessUpdate(floor[cur], Cardinality(abandoned), truncated)
      <4>1. failures'[cur] = 0
        BY <1>1, <3>2 DEF resetFailureCount
      <4>2. upd'.health # "broken"
        BY <3>2 DEF SuccessUpdate
      <4> QED
        BY <4>1, <4>2 DEF BrokenFailureThreshold
    <3> QED
      BY <1>5, <3>1, <3>2 DEF TickSettle, ListFault
  <2>4. UNCHANGED <<rec, cur>> /\ tpc' = "write" /\ tpc # "write"
    BY <1>5 DEF TickSettle, ListFault
  <2> QED
    BY <2>2, <2>3, <2>4 DEF HealthInv, BrokenAfterThreeFailures
<1>6. CASE TickWrite
  <2>1. rec' = [rec EXCEPT ![cur] = upd]
    BY <1>6 DEF TickWrite, UpdateReplicaHealth
  <2>2. /\ rec'[cur] = upd /\ \A r \in Replicas : r # cur => rec'[r] = rec[r]
    BY <1>1, <2>1
  <2>3. UNCHANGED <<failures, cur>> /\ tpc = "write" /\ tpc' = "pick"
    BY <1>6 DEF TickWrite
  <2> QED
    BY <1>1, <2>2, <2>3 DEF HealthInv, BrokenAfterThreeFailures
<1> QED
  BY <1>2, <1>3, <1>4, <1>5, <1>6, QuietStep

(* When ticks alone record and the disk accepts the writes, a replica is shown *)
(* broken exactly after three failures in a row.                              *)
THEOREM BrokenMeansThreeFailures ==
  PollingOnly /\ ~StoreFaults => (Spec => []BrokenAfterThreeFailures)
<1> SUFFICES ASSUME PollingOnly, ~StoreFaults PROVE Spec => []BrokenAfterThreeFailures
  OBVIOUS
<1>1. Init => HealthInv
  BY DEF Init, HealthInv, BrokenAfterThreeFailures, NewRecord, BrokenFailureThreshold
<1>2. TypeOK /\ PollingInv /\ HealthInv /\ [Next]_vars => HealthInv'
  BY HealthStep
<1>3. HealthInv => BrokenAfterThreeFailures
  BY DEF HealthInv
<1> QED
  BY <1>1, <1>2, <1>3, PollingInvariant, PTL DEF Spec
================================================================================
