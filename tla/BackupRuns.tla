------------------------------- MODULE BackupRuns -------------------------------
(* One snapshot backup: its row in backups.json, its cron entry, and the runs  *)
(* that copy the source into {slug}/{timestamp}/ and prune older snapshots.   *)
(* The clock is the resolution of a snapshot's timestamp: runs that start in  *)
(* one tick share a prefix. Days, weeks and months are all periods of a       *)
(* number of ticks. A run is runBackupOnce; the engine's inside is SyncJob.   *)
EXTENDS Naturals, FiniteSets

CONSTANTS NumObjs, NumTasks, Editors, NoBackup,
          WholeBucket, \* the backup has no source prefix
          Cadences,    \* [len, keep]: KeepDaily, KeepWeekly, KeepMonthly
          MaxClock, MaxSchedules, MaxStarts, MaxEdits   \* bounds of the exploration

VARIABLES
  row,        \* the Backup in the store
  rowFile,    \* backups.json
  entry,      \* Scheduler.entries: the schedule registered with cron, 0 for none
  running,    \* Scheduler.running: the slot that fire claims
  tasks,      \* runs under way
  edits,      \* update and delete requests under way
  snaps,      \* what each snapshot prefix of the destination holds
  rootObjs,   \* source keys copied to the root of the destination bucket
  clock,
  good,       \* history: timestamps with a successful result
  doomed,     \* history: timestamps some run decided to prune
  overlapped, \* history: a run was triggered by hand while another one ran
  crossed,    \* history: edits overlapped, or one failed to persist
  used        \* starts and edits so far, for the bounds

bkVars == <<row, rowFile, entry, running, tasks, edits, snaps, rootObjs, clock, good, doomed,
            overlapped, crossed, used>>

Times == 0..MaxClock
Contents == 1..NumObjs
Tasks == 1..NumTasks
Rows == [disabled : BOOLEAN, schedule : 0..MaxSchedules]

(* Negative keep counts are refused; ResolveRetention replaces a policy that    *)
(* keeps nothing by the default one.                                          *)
ASSUME BackupAssumption ==
  /\ {NumObjs, NumTasks, MaxClock, MaxSchedules} \subseteq Nat
  /\ WholeBucket \in BOOLEAN
  /\ \A c \in Cadences : c.len \in Nat \ {0} /\ c.keep \in Nat
  /\ \E c \in Cadences : c.keep > 0
  /\ NoBackup \notin Rows

NoTask == [at |-> "off", slot |-> FALSE, ts |-> 0, todo |-> {}, prune |-> {}]
Busy == {r \in Tasks : tasks[r].at # "off"}
Snapshots == {t \in Times : snaps[t] # {}}

(* Mutants: the earliest snapshot of each period, and a snapshot must be in    *)
(* every cadence's window.                                                    *)
EarliestOf(found, period, len) ==
  {t \in found : t \div len = period /\ \A u \in found : u \div len = period => u >= t}

(* PlanPrune: the latest snapshot of each period in each cadence's window, and *)
(* whatever is newer than now.                                                *)
LatestOf(found, period, len) ==
  {t \in found : t \div len = period /\ \A u \in found : u \div len = period => u <= t}
InWindow(period, now, c) == period <= now \div c.len /\ now \div c.len < period + c.keep
Kept(found, now) ==
  {t \in found : t > now \/ \E c \in Cadences :
     InWindow(t \div c.len, now, c) /\ t \in LatestOf(found, t \div c.len, c.len)}
PruneUnlessAll(found, now) ==
  {t \in found : t <= now /\ \E c \in Cadences :
     ~InWindow(t \div c.len, now, c) \/ t \notin LatestOf(found, t \div c.len, c.len)}
PlanPrune(found, now) == found \ Kept(found, now)

BkInit ==
  /\ row = NoBackup /\ rowFile = NoBackup /\ entry = 0 /\ running = FALSE
  /\ tasks = [r \in Tasks |-> NoTask] /\ edits = [e \in Editors |-> [at |-> "idle", got |-> 0]]
  /\ snaps = [t \in Times |-> {}] /\ rootObjs = {} /\ clock = 0
  /\ good = {} /\ doomed = {} /\ overlapped = FALSE /\ crossed = FALSE
  /\ used = [starts |-> 0, edits |-> 0]

Tick ==
  /\ clock < MaxClock /\ clock' = clock + 1
  /\ UNCHANGED <<row, rowFile, entry, running, tasks, edits, snaps, rootObjs, good, doomed,
                 overlapped, crossed, used>>

--------------------------------------------------------------------------------
(* Handlers. isSchedulable: neither disabled nor manual.                      *)
Wanted(b) == IF b = NoBackup \/ b.disabled THEN 0 ELSE b.schedule
Copies == <<running, tasks, snaps, rootObjs, clock, good, doomed, overlapped>>
Edit(e, at, got) == edits' = [edits EXCEPT ![e] = [at |-> at, got |-> got]]
Spend(what, max) == used[what] < max /\ used' = [used EXCEPT ![what] = @ + 1]
Crossing(e) == crossed \/ \E d \in Editors \ {e} : edits[d].at # "idle"

(* userCreateBackupHandler: the id is the response's, so nothing overlaps.    *)
CreateBackup(b) ==
  /\ {row, rowFile} = {NoBackup} /\ good = {} /\ Snapshots = {} /\ Busy = {} /\ clock = 0
  /\ \A e \in Editors : edits[e].at = "idle"
  /\ row' = b /\ rowFile' = b /\ entry' = Wanted(b)
  /\ UNCHANGED <<edits, crossed, used>> /\ UNCHANGED Copies

(* userUpdateBackupHandler: the store first, whose map keeps the change when  *)
(* the file cannot be written - then there is no Reschedule.                  *)
UpdateBackup(e, b) ==
  /\ row # NoBackup /\ edits[e].at = "idle"
  /\ row' = b
  /\ \/ rowFile' = b /\ Edit(e, "get", 0) /\ crossed' = Crossing(e)
     \/ UNCHANGED <<rowFile, edits>> /\ crossed' = TRUE
  /\ Spend("edits", MaxEdits)
  /\ UNCHANGED entry /\ UNCHANGED Copies

(* Reschedule: Get, Remove, Add, each under a lock of its own; a row that is   *)
(* gone is only removed.                                                      *)
RescheduleGet(e) ==
  /\ edits[e].at = "get"
  /\ Edit(e, "take", Wanted(row))
  /\ UNCHANGED <<row, rowFile, entry, crossed, used>> /\ UNCHANGED Copies

(* Mutant: Update reschedules only what it finds enabled and scheduled.       *)
KeepEntry(e) ==
  /\ edits[e].at = "take"
  /\ entry' = IF edits[e].got = 0 THEN entry ELSE 0
  /\ Edit(e, "add", edits[e].got)
  /\ UNCHANGED <<row, rowFile, crossed, used>> /\ UNCHANGED Copies

RemoveEntry(e) ==
  /\ edits[e].at = "take"
  /\ entry' = 0 /\ Edit(e, "add", edits[e].got)
  /\ UNCHANGED <<row, rowFile, crossed, used>> /\ UNCHANGED Copies

(* Add replaces the entry, or does nothing when there is nothing to schedule. *)
AddEntry(e) ==
  /\ edits[e].at = "add"
  /\ entry' = IF edits[e].got = 0 THEN entry ELSE edits[e].got
  /\ Edit(e, "idle", 0)
  /\ UNCHANGED <<row, rowFile, crossed, used>> /\ UNCHANGED Copies

(* userDeleteBackupHandler: the row, and then, by Remove, the entry. When the  *)
(* file cannot be written the row is gone from memory, the entry stays, and a  *)
(* restart brings the row back.                                               *)
DeleteBackup(e) ==
  /\ row # NoBackup /\ edits[e].at = "idle"
  /\ row' = NoBackup
  /\ \/ rowFile' = NoBackup /\ Edit(e, "take", 0) /\ crossed' = Crossing(e)
     \/ UNCHANGED <<rowFile, edits>> /\ crossed' = TRUE
  /\ Spend("edits", MaxEdits)
  /\ UNCHANGED entry /\ UNCHANGED Copies

--------------------------------------------------------------------------------
(* Runs. A free task stands for the goroutine that cron or the handler starts. *)
Registered == <<row, entry, edits, crossed>>
Handling == <<rowFile, Registered>>
Task(r, t) == tasks' = [tasks EXCEPT ![r] = t]
Starts(r, slot) ==
  /\ tasks[r].at = "off" /\ \A q \in 1..(r - 1) : q \in Busy
  /\ Task(r, [NoTask EXCEPT !.at = "get", !.slot = slot])
  /\ Spend("starts", MaxStarts)
  /\ UNCHANGED <<snaps, rootObjs, clock, good, doomed>> /\ UNCHANGED Handling

(* fire claims the slot; a tick that finds it taken is skipped.               *)
Fire(r) ==
  /\ entry # 0 /\ ~running
  /\ running' = TRUE /\ Starts(r, TRUE)
  /\ overlapped' = (overlapped \/ \E q \in Busy : ~tasks[q].slot)

(* userRunBackupHandler: Trigger runs at once, without the slot.              *)
Trigger(r) ==
  /\ row # NoBackup /\ ~row.disabled
  /\ overlapped' = (overlapped \/ Busy # {})
  /\ Starts(r, FALSE) /\ UNCHANGED running

(* The end of runAndRecord; fire's deferred function gives the slot back.     *)
Release(r) ==
  /\ Task(r, NoTask)
  /\ running' = (running /\ ~tasks[r].slot)
  /\ UNCHANGED <<rootObjs, clock, overlapped, used>>
  /\ UNCHANGED Registered

(* RecordResult writes the whole map, if the row is still in it.              *)
WritesResult == rowFile' \in (IF row = NoBackup THEN {rowFile} ELSE {rowFile, row})

(* A row that is gone or disabled by now ends the run.                        *)
GetRow(r) ==
  /\ tasks[r].at = "get"
  /\ IF row = NoBackup \/ row.disabled
     THEN Release(r) /\ UNCHANGED rowFile
     ELSE /\ Task(r, [tasks[r] EXCEPT !.at = "copy", !.ts = clock, !.todo = Contents])
          /\ UNCHANGED <<running, rootObjs, clock, overlapped, used>>
          /\ UNCHANGED Handling
  /\ UNCHANGED <<snaps, good, doomed>>

(* Objects are listed, copied and deleted in the order of their keys.         *)
IsFirst(o, set) == o \in set /\ \A p \in set : o <= p

(* Plan keeps the source's key as the destination's when there is no source    *)
(* prefix, whatever the destination prefix.                                   *)
CopyObject(r, o) ==
  /\ tasks[r].at = "copy" /\ IsFirst(o, tasks[r].todo)
  /\ Task(r, [tasks[r] EXCEPT !.todo = @ \ {o}])
  /\ IF WholeBucket
     THEN rootObjs' = rootObjs \cup {o} /\ UNCHANGED snaps
     ELSE snaps' = [snaps EXCEPT ![tasks[r].ts] = @ \cup {o}] /\ UNCHANGED rootObjs
  /\ UNCHANGED <<running, clock, good, doomed, overlapped, used>>
  /\ UNCHANGED Handling

(* Mutant: an error returns before the slot is given back.                    *)
FailHolding(r) ==
  /\ tasks[r].at = "copy" /\ Task(r, NoTask)
  /\ UNCHANGED <<running, rootObjs, clock, overlapped, used, snaps, good, doomed>>
  /\ UNCHANGED Handling

(* An unresolved region, a locked cluster or a driver's error: the failure is *)
(* recorded, what was copied stays, and nothing is pruned.                    *)
RunFails(r) ==
  /\ tasks[r].at = "copy"
  /\ Release(r) /\ WritesResult /\ UNCHANGED <<snaps, good, doomed>>

(* A driver that does not answer. Engine.Run detaches from the context whose  *)
(* deadline fire has set.                                                     *)
Stalls(r) ==
  /\ tasks[r].at = "copy" /\ tasks[r].todo # {}
  /\ Task(r, [tasks[r] EXCEPT !.at = "stalled"])
  /\ UNCHANGED <<running, snaps, rootObjs, clock, good, doomed, overlapped, used>>
  /\ UNCHANGED Handling

(* pruneSnapshots lists the prefixes, with the run's start as now; a listing   *)
(* that fails leaves nothing to prune.                                        *)
ListSnapshots(r) ==
  /\ tasks[r].at = "copy" /\ tasks[r].todo = {}
  /\ \E dead \in {PlanPrune(Snapshots, tasks[r].ts), {}} :
       /\ Task(r, [tasks[r] EXCEPT !.at = "prune", !.prune = dead])
       /\ doomed' = doomed \cup dead
  /\ UNCHANGED <<running, snaps, rootObjs, clock, good, overlapped, used>>
  /\ UNCHANGED Handling

(* deleteAllUnderPrefix, object by object. *)
PruneObject(r, t, o) ==
  /\ tasks[r].at = "prune" /\ t \in tasks[r].prune /\ IsFirst(o, snaps[t])
  /\ snaps' = [snaps EXCEPT ![t] = @ \ {o}]
  /\ UNCHANGED <<running, tasks, rootObjs, clock, good, doomed, overlapped, used>>
  /\ UNCHANGED Handling

(* The prefix is empty, or a delete has failed and the next prefix is tried.  *)
PruneNext(r, t) ==
  /\ tasks[r].at = "prune" /\ t \in tasks[r].prune
  /\ Task(r, [tasks[r] EXCEPT !.prune = @ \ {t}])
  /\ UNCHANGED <<running, snaps, rootObjs, clock, good, doomed, overlapped, used>>
  /\ UNCHANGED Handling

(* RecordResult of a success; the row may be gone.                            *)
RecordResult(r) ==
  /\ tasks[r].at = "prune" /\ tasks[r].prune = {}
  /\ good' = IF row = NoBackup THEN good ELSE good \cup {tasks[r].ts}
  /\ Release(r) /\ WritesResult /\ UNCHANGED <<snaps, doomed>>

(* A write for another backup saves this one as it is in memory.              *)
OthersWrite ==
  /\ rowFile' = row
  /\ UNCHANGED <<row, entry, edits, crossed, used>> /\ UNCHANGED Copies

(* A restart ends the runs and the requests; LoadAll registers what the file   *)
(* holds.                                                                     *)
BackupRestart ==
  /\ tasks' = [r \in Tasks |-> NoTask] /\ running' = FALSE
  /\ edits' = [e \in Editors |-> [at |-> "idle", got |-> 0]]
  /\ row' = rowFile /\ entry' = Wanted(rowFile) /\ crossed' = FALSE
  /\ UNCHANGED <<rowFile, snaps, rootObjs, clock, good, doomed, overlapped, used>>

BkRun(r) ==
  \/ GetRow(r) \/ RunFails(r) \/ ListSnapshots(r) \/ RecordResult(r)
  \/ \E o \in Contents : CopyObject(r, o)
  \/ \E t \in Times : PruneNext(r, t) \/ \E o \in Contents : PruneObject(r, t, o)

BkEdit(e) ==
  \/ RescheduleGet(e) \/ RemoveEntry(e) \/ AddEntry(e) \/ DeleteBackup(e)
  \/ \E b \in Rows : UpdateBackup(e, b)

BkNext ==
  \/ Tick \/ OthersWrite \/ BackupRestart
  \/ \E b \in Rows : CreateBackup(b)
  \/ \E e \in Editors : BkEdit(e)
  \/ \E r \in Tasks : Fire(r) \/ Trigger(r) \/ BkRun(r) \/ Stalls(r)

BkSpec == BkInit /\ [][BkNext]_bkVars

--------------------------------------------------------------------------------
BkTypeOK ==
  /\ {row, rowFile} \subseteq Rows \cup {NoBackup} /\ entry \in 0..MaxSchedules /\ running \in BOOLEAN
  /\ tasks \in [Tasks -> [at : {"off", "get", "copy", "stalled", "prune"}, slot : BOOLEAN,
                  ts : Times, todo : SUBSET Contents, prune : SUBSET Times]]
  /\ edits \in [Editors -> [at : {"idle", "get", "take", "add"}, got : 0..MaxSchedules]]
  /\ snaps \in [Times -> SUBSET Contents] /\ rootObjs \subseteq Contents /\ clock \in Times
  /\ good \subseteq Times /\ doomed \subseteq Times
  /\ {overlapped, crossed} \subseteq BOOLEAN

(* "the snapshot itself is safe": from the first success on some snapshot is   *)
(* complete, whatever runs fail, prune by half, stall or are cut by restarts - *)
(* as long as nobody ran the backup by hand while another run was under way,   *)
(* and the backup has a source prefix: a whole-bucket backup puts its copies   *)
(* elsewhere (SnapshotsStayInPrefix).                                         *)
AlwaysRestorable ==
  good # {} /\ ~overlapped => \E t \in Times : snaps[t] = Contents

(* PlanPrune and pruneSnapshots: a snapshot that was recorded as a success stays *)
(* whole until a run decides to prune it, and what runs decide to prune is not *)
(* what the policy keeps today, of all the snapshots ever begun - whatever runs *)
(* overlap, fail, stall, prune by half or are cut by restarts. The backup has  *)
(* a source prefix.                                                           *)
Begun == Snapshots \cup doomed
RetentionIsHonoured ==
  /\ \A t \in good \ doomed : snaps[t] = Contents
  /\ doomed \cap Kept(Begun, clock) = {}

(* "the next run lands at the new layout": with no edit under way, cron holds  *)
(* what the store asks for, after restarts too - unless, since the last one,   *)
(* edits overlapped or one could not be written.                              *)
CronFollowsStore ==
  ~crossed /\ (\A e \in Editors : edits[e].at = "idle") => entry = Wanted(row)

(* "Snapshot mode: step 2 above writes into {DstBucket}/{slug(Name)}/{ts}/":  *)
(* the destination's root is never written.                                   *)
(* The code does not keep it (README, known disagreements).                   *)
SnapshotsStayInPrefix == rootObjs = {}

(* "so a panicking run doesn't wedge the schedule permanently": the slot is    *)
(* given back, unless a driver stalls.                                        *)
SlotComesBack ==
  running ~> (~running \/ \E r \in Tasks : tasks[r].at = "stalled")

(* maxFireDuration, "guaranteeing the run eventually releases": stalled or not.*)
(* The code does not keep it (README, known disagreements).                   *)
DeadlineReleases == running ~> ~running
================================================================================
