--------------------------------- MODULE SyncJob ---------------------------------
(* One sync job: its row in syncs/<id>/state.json, the runs of the engine that *)
(* work on it, each on its own *SyncJob, and the registry through which a     *)
(* Pause reaches the live run. An object is copied or not; progress counters  *)
(* and the "skip" workers, which only count, are left out.                    *)
EXTENDS Naturals, FiniteSets

CONSTANTS SyncObjs, Runs, Clients, NoRun, NoJob, MaxConcurrency

VARIABLES
  job,       \* the state on disk, NoJob when there is no file
  runs,      \* Engine.Run's local state, per goroutine
  active,    \* runRegistry.active for this job
  dst,       \* objects the destination holds
  asks,      \* pause and resume requests under way
  born,      \* the job has been created (ids are never reused)
  stranded,  \* history: a crash, a lost write or an unresolved driver
  doubled    \* history: a run was registered while another one was

syncVars == <<job, runs, active, dst, asks, born, stranded, doubled>>

States == {"queued", "running", "paused", "done", "error"}
ASSUME SyncAssumption ==
  NoRun \notin Runs /\ NoJob \notin States /\ MaxConcurrency \in Nat \ {0}
Off == [at |-> "off", state |-> "queued", paused |-> FALSE, cancelled |-> FALSE,
        failed |-> FALSE, todo |-> {}, flight |-> {}]
Live == {r \in Runs : runs[r].at # "off"}
Cancelled(f, r) == IF r = NoRun THEN f ELSE [f EXCEPT ![r].cancelled = TRUE]

(* store.Save, whose error the engine ignores; the job's directory is made    *)
(* again when it has been deleted.                                            *)
Save(state) ==
  \/ job' = state /\ UNCHANGED stranded
  \/ stranded' = TRUE /\ UNCHANGED job

SyncInit ==
  /\ job = NoJob /\ runs = [r \in Runs |-> Off] /\ active = NoRun
  /\ dst \in SUBSET SyncObjs /\ asks = [c \in Clients |-> "idle"]
  /\ born = FALSE /\ stranded = FALSE /\ doubled = FALSE

(* userCreateSyncHandler; the goroutine it starts resolves the drivers first. *)
CreateSync(r) ==
  /\ ~born /\ r \notin Live /\ born' = TRUE /\ job' = "queued"
  /\ runs' = [runs EXCEPT ![r].at = "drivers"]
  /\ UNCHANGED <<active, dst, asks, stranded, doubled>>

(* It returns when a driver cannot be resolved, and leaves the row as it is.  *)
ResolveDrivers(r) ==
  /\ runs[r].at = "drivers"
  /\ \/ runs' = [runs EXCEPT ![r].at = "register"] /\ UNCHANGED stranded
     \/ runs' = [runs EXCEPT ![r] = Off] /\ stranded' = TRUE
  /\ UNCHANGED <<job, active, dst, asks, born, doubled>>

(* registerRun cancels the run that is registered, without pausing it.        *)
registerRun(r) ==
  /\ runs[r].at = "register"
  /\ runs' = [Cancelled(runs, active) EXCEPT ![r].at = "begin"]
  /\ active' = r /\ doubled' = (doubled \/ Live # {r})
  /\ UNCHANGED <<job, dst, asks, born, stranded>>

Begin(r) ==
  /\ runs[r].at = "begin"
  /\ runs' = [runs EXCEPT ![r].at = "plan", ![r].state = "running"]
  /\ Save("running")
  /\ UNCHANGED <<active, dst, asks, born, doubled>>

deregisterRun(r) == active' = IF active = r THEN NoRun ELSE active

(* Plan lists the source and asks the destination for each object.            *)
Plan(r) ==
  /\ runs[r].at = "plan"
  /\ runs' = [runs EXCEPT ![r].at = "copy", ![r].todo = SyncObjs \ dst]
  /\ Save(runs[r].state)
  /\ UNCHANGED <<active, dst, asks, born, doubled>>

(* A driver's error, or a cancelled context, ends the run with an "error".    *)
PlanFails(r) ==
  /\ runs[r].at = "plan"
  /\ runs' = [runs EXCEPT ![r] = Off] /\ deregisterRun(r)
  /\ Save("error")
  /\ UNCHANGED <<dst, asks, born, doubled>>

Stopped(r) == runs[r].paused \/ runs[r].cancelled

(* A worker has a slot, and has looked at the flag, the context and the state. *)
HasSlot(r, o) ==
  /\ runs[r].at = "copy" /\ o \in runs[r].todo
  /\ ~Stopped(r) /\ runs[r].state # "error"
  /\ Cardinality(runs[r].flight) < MaxConcurrency
CopyStarts(r, o) ==
  /\ HasSlot(r, o)
  /\ runs' = [runs EXCEPT ![r].todo = @ \ {o}, ![r].flight = @ \cup {o}]
  /\ UNCHANGED <<job, active, dst, asks, born, stranded, doubled>>

Landed(r, o) == [runs[r] EXCEPT !.flight = @ \ {o}]
Failed(r, o, state) ==
  [Landed(r, o) EXCEPT !.failed = TRUE, !.cancelled = TRUE, !.state = state]

CopySucceeds(r, o) ==
  /\ o \in runs[r].flight
  /\ runs' = [runs EXCEPT ![r] = Landed(r, o)] /\ dst' = dst \cup {o}
  /\ Save(runs[r].state)
  /\ UNCHANGED <<active, asks, born, doubled>>

(* The first error of a run that is not paused is the run's; the others leave *)
(* no trace.                                                                  *)
CopyFails(r, o) ==
  /\ o \in runs[r].flight
  /\ IF ~runs[r].failed /\ ~runs[r].paused
     THEN runs' = [runs EXCEPT ![r] = Failed(r, o, "error")] /\ Save("error")
     ELSE runs' = [runs EXCEPT ![r] = Landed(r, o)] /\ UNCHANGED <<job, stranded>>
  /\ UNCHANGED <<active, dst, asks, born, doubled>>

(* A worker that panics fails the run, paused or not.                         *)
CopyPanics(r, o) ==
  /\ o \in runs[r].flight
  /\ IF runs[r].failed
     THEN runs' = [runs EXCEPT ![r] = Failed(r, o, @.state)] /\ UNCHANGED <<job, stranded>>
     ELSE runs' = [runs EXCEPT ![r] = Failed(r, o, "error")] /\ Save("error")
  /\ UNCHANGED <<active, dst, asks, born, doubled>>

(* Mutant: the workers wait for a slot whatever happens to the run.           *)
AllServed(r) ==
  /\ runs[r].at = "copy" /\ runs[r].flight = {} /\ runs[r].todo = {}

AllIn(r) ==
  /\ runs[r].at = "copy" /\ runs[r].flight = {}
  /\ runs[r].todo = {} \/ Stopped(r) \/ runs[r].failed

(* Mutants: a paused run that overwrites the pause, and a cancelled one that  *)
(* says nothing.                                                              *)
FinishDone(r) ==
  /\ AllIn(r)
  /\ IF runs[r].failed THEN UNCHANGED <<job, stranded>> ELSE Save("done")
  /\ runs' = [runs EXCEPT ![r] = Off] /\ deregisterRun(r)
  /\ UNCHANGED <<dst, asks, born, doubled>>
FinishSilently(r) ==
  /\ AllIn(r)
  /\ IF runs[r].failed \/ Stopped(r) THEN UNCHANGED <<job, stranded>> ELSE Save("done")
  /\ runs' = [runs EXCEPT ![r] = Off] /\ deregisterRun(r)
  /\ UNCHANGED <<dst, asks, born, doubled>>

(* After wg.Wait: an error returns, a paused run stays paused, and a "running" *)
(* one is done.                                                               *)
Finish(r) ==
  /\ AllIn(r)
  /\ IF runs[r].failed THEN UNCHANGED <<job, stranded>>
     ELSE Save(IF runs[r].paused THEN "paused" ELSE "done")
  /\ runs' = [runs EXCEPT ![r] = Off] /\ deregisterRun(r)
  /\ UNCHANGED <<dst, asks, born, doubled>>

Ask(c, at) == asks' = [asks EXCEPT ![c] = at]

PauseLoad(c) ==
  /\ asks[c] = "idle" /\ job \in {"queued", "running"}
  /\ Ask(c, "signal")
  /\ UNCHANGED <<job, runs, active, dst, born, stranded, doubled>>

(* The flag first, then the cancel, on whichever run is registered.           *)
PauseSignal(c) ==
  /\ asks[c] = "signal" /\ Ask(c, "save")
  /\ runs' = IF active = NoRun THEN runs
             ELSE [Cancelled(runs, active) EXCEPT ![active].paused = TRUE]
  /\ UNCHANGED <<job, active, dst, born, stranded, doubled>>

PauseSave(c) ==
  /\ asks[c] = "save" /\ Ask(c, "idle")
  /\ Save("paused")
  /\ UNCHANGED <<runs, active, dst, born, doubled>>

ResumeLoad(c) ==
  /\ asks[c] = "idle" /\ job = "paused"
  /\ Ask(c, "resume")
  /\ UNCHANGED <<job, runs, active, dst, born, stranded, doubled>>

(* Resume saves "running" and starts a run; it does not when it cannot save.  *)
ResumeSave(c, r) ==
  /\ asks[c] = "resume" /\ Ask(c, "idle")
  /\ \/ job' = "running" /\ r \notin Live /\ runs' = [runs EXCEPT ![r].at = "register"]
     \/ UNCHANGED <<job, runs>>
  /\ UNCHANGED <<active, dst, born, stranded, doubled>>

DeleteSync ==
  /\ job # NoJob /\ job' = NoJob
  /\ UNCHANGED <<runs, active, dst, asks, born, stranded, doubled>>

(* A restart: nothing looks at the rows when the server starts.               *)
SyncRestart ==
  /\ Live # {} /\ stranded' = TRUE
  /\ runs' = [r \in Runs |-> Off] /\ active' = NoRun
  /\ asks' = [c \in Clients |-> "idle"]
  /\ UNCHANGED <<job, dst, born, doubled>>

(* The run's own steps, and those that wait for a driver's call to return. A    *)
(* call has the run's context, which has no deadline (context.WithoutCancel)   *)
(* and may only be cancelled: nothing makes a call return that is not.        *)
RunSteps(r) ==
  \/ ResolveDrivers(r) \/ registerRun(r) \/ Begin(r) \/ Finish(r)
  \/ \E o \in SyncObjs : CopyStarts(r, o)
CallReturns(r) ==
  \/ Plan(r) \/ PlanFails(r)
  \/ \E o \in SyncObjs : CopySucceeds(r, o) \/ CopyFails(r, o) \/ CopyPanics(r, o)
CallOpen(r) == ~runs[r].cancelled /\ (runs[r].at = "plan" \/ runs[r].flight # {})

(* What is scheduled: the goroutines, and the calls once they are cancelled.  *)
SyncScheduled(r) == RunSteps(r) \/ (runs[r].cancelled /\ CallReturns(r))

SyncRun(r) == RunSteps(r) \/ CallReturns(r)

SyncNext ==
  \/ \E r \in Runs : CreateSync(r) \/ SyncRun(r)
  \/ \E c \in Clients :
       \/ PauseLoad(c) \/ PauseSignal(c) \/ PauseSave(c) \/ ResumeLoad(c)
       \/ \E r \in Runs : ResumeSave(c, r)
  \/ DeleteSync \/ SyncRestart

SyncSpec == SyncInit /\ [][SyncNext]_syncVars

--------------------------------------------------------------------------------
SyncTypeOK ==
  /\ job \in States \cup {NoJob} /\ active \in Runs \cup {NoRun}
  /\ runs \in [Runs -> [at : {"off", "drivers", "register", "begin", "plan", "copy"},
                        state : States, paused : BOOLEAN, cancelled : BOOLEAN,
                        failed : BOOLEAN, todo : SUBSET SyncObjs, flight : SUBSET SyncObjs]]
  /\ dst \subseteq SyncObjs /\ asks \in [Clients -> {"idle", "signal", "save", "resume"}]
  /\ {born, stranded, doubled} \subseteq BOOLEAN

(* Run's last lines: whatever pauses, resumes, errors and panics come between, *)
(* a job says "done" only when the destination holds every object - as long   *)
(* as no two runs of it were alive at once.                                   *)
DoneMeansCopied == job = "done" /\ ~doubled => SyncObjs \subseteq dst

(* The same without the proviso: registerRun cancels the older of two runs    *)
(* "so two goroutines don't fight over the same job", and only a run that is  *)
(* "still-running" transitions to "done".                                     *)
(* The code does not keep it (README, known disagreements).                   *)
DoneIsDone == job = "done" => SyncObjs \subseteq dst

(* A row that shows a job at work is owned by a run that will still write it, *)
(* whatever pauses, resumes, deletions and failures interleave - until a      *)
(* restart, a lost write or an unresolved driver strands it.                  *)
RowIsOwned ==
  job \in {"queued", "running"} /\ ~stranded => \E r \in Live : ~runs[r].failed

(* "so a cancelled run isn't wedged waiting for a worker slot": a run that is  *)
(* paused, replaced or has failed ends, and so does any other, unless a        *)
(* driver's call that nobody has cancelled does not return.                   *)
RunsEnd == \A r \in Runs : r \in Live ~> (r \notin Live \/ CallOpen(r))
================================================================================
