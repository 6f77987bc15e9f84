------------------------------ MODULE Jobs_proofs ------------------------------
(* The jobs that copy objects: a sync that says "done" has copied everything   *)
(* and one at work has a run at work, for every set of objects, runs and       *)
(* clients; a backup keeps a complete snapshot and its schedule, for every     *)
(* retention policy and any number of runs, edits and objects.                 *)
EXTENDS SyncJob, BackupRuns, FiniteSetTheorems, WellFoundedInduction, TLAPS

(* SyncJob.                                                                    *)
Working == {"begin", "plan", "copy"}
RunRec == [at : {"off", "drivers", "register"} \cup Working,
           state : {"queued", "running", "error"}, paused : BOOLEAN, cancelled : BOOLEAN,
           failed : BOOLEAN, todo : SUBSET SyncObjs, flight : SUBSET SyncObjs]

(* Nothing but a failure or a pause cancels a run that is alone.               *)
Justified(s) == s.cancelled => s.failed \/ s.paused

(* Until then every object is there, on its way, or still to be copied.        *)
Accounted(s, held) ==
  s.at = "copy" /\ ~s.failed /\ ~s.paused => SyncObjs \subseteq held \cup s.todo \cup s.flight

(* DoneMeansCopied speaks of the row; what makes it inductive is said of the   *)
(* runs: the registered one is at work, it is the only one at work, and the    *)
(* two facts above.                                                            *)
SyncInv ==
  /\ runs \in [Runs -> RunRec] /\ dst \subseteq SyncObjs
  /\ active # NoRun => active \in Runs /\ runs[active].at \in Working
  /\ ~doubled =>
       /\ \A r, q \in Runs : runs[r].at \in Working /\ runs[q].at \in Working => r = q
       /\ \A r \in Runs : Justified(runs[r]) /\ Accounted(runs[r], dst)
       /\ job = "done" => SyncObjs \subseteq dst

LEMMA OffRun == Off \in RunRec /\ Off.at = "off" /\ Justified(Off)
BY DEF Off, RunRec, Justified

LEMMA SyncInvInit == SyncInit => SyncInv
<1> SUFFICES ASSUME SyncInit PROVE SyncInv
  OBVIOUS
<1>1. runs = [r \in Runs |-> Off] /\ active = NoRun /\ job = NoJob /\ dst \subseteq SyncObjs
  BY DEF SyncInit
<1>2. \A r \in Runs : runs[r] = Off /\ runs[r].at \notin Working
  BY <1>1, OffRun DEF Working
<1>3. \A r \in Runs : Justified(runs[r]) /\ Accounted(runs[r], dst)
  BY <1>2, OffRun DEF Accounted, Working
<1>4. NoJob # "done"
  BY SyncAssumption DEF States
<1> QED BY <1>1, <1>2, <1>3, <1>4, OffRun DEF SyncInv

(* One run moves, and the row with it.                                         *)
LEMMA RunMoves ==
  ASSUME SyncInv, NEW r \in Runs, NEW s \in RunRec, runs' = [runs EXCEPT ![r] = s],
         doubled' = doubled, dst \subseteq dst', dst' \subseteq SyncObjs,
         s.at \in Working => runs[r].at \in Working,
         active' \in {active, NoRun}, active' = r => s.at \in Working,
         ~doubled => Justified(s) /\ Accounted(s, dst'),
         ~doubled /\ job' = "done" => job = "done" \/ SyncObjs \subseteq dst'
  PROVE  SyncInv'
<1>1. runs' \in [Runs -> RunRec] /\ runs'[r] = s /\ \A q \in Runs \ {r} : runs'[q] = runs[q]
  BY DEF SyncInv
<1>2. active' # NoRun => active' \in Runs /\ runs'[active'].at \in Working
  BY <1>1, SyncAssumption DEF SyncInv
<1>3. ASSUME ~doubled
      PROVE  /\ \A p, q \in Runs : runs'[p].at \in Working /\ runs'[q].at \in Working => p = q
             /\ \A q \in Runs : Justified(runs'[q]) /\ Accounted(runs'[q], dst')
             /\ job' = "done" => SyncObjs \subseteq dst'
  <2>1. \A p, q \in Runs : runs'[p].at \in Working /\ runs'[q].at \in Working => p = q
    BY <1>1, <1>3 DEF SyncInv
  <2>2. ASSUME NEW q \in Runs PROVE Justified(runs'[q]) /\ Accounted(runs'[q], dst')
    <3>1. CASE q = r
      BY <1>1, <1>3, <3>1
    <3>2. CASE q # r
      BY <1>1, <1>3, <3>2 DEF SyncInv, Accounted
    <3> QED BY <3>1, <3>2
  <2>3. job' = "done" => SyncObjs \subseteq dst'
    BY <1>3 DEF SyncInv
  <2> QED BY <2>1, <2>2, <2>3
<1> QED BY <1>1, <1>2, <1>3 DEF SyncInv, Justified, Accounted

LEMMA Ends ==
  ASSUME SyncInv, NEW r \in Runs, runs' = [runs EXCEPT ![r] = Off], deregisterRun(r),
         doubled' = doubled, dst' = dst,
         ~doubled /\ job' = "done" => job = "done" \/ SyncObjs \subseteq dst
  PROVE  SyncInv'
<1>1. active' \in {active, NoRun} /\ active' # r
  BY SyncAssumption DEF deregisterRun
<1>2. Accounted(Off, dst')
  BY OffRun DEF Accounted
<1> QED BY <1>1, <1>2, OffRun, RunMoves DEF SyncInv, Working

LEMMA NotDone ==
  ASSUME NEW state, state # "done", Save(state), job' = "done"
  PROVE  job = "done"
BY DEF Save

LEMMA RegisterKeeps ==
  ASSUME SyncInv, NEW r \in Runs, registerRun(r) PROVE SyncInv'
<1> DEFINE held == Cancelled(runs, active)
<1>1. runs' = [held EXCEPT ![r].at = "begin"] /\ active' = r /\ dst' = dst /\ job' = job
      /\ doubled' = (doubled \/ Live # {r}) /\ runs[r].at = "register"
  BY DEF registerRun
<1>2. held \in [Runs -> RunRec]
  <2>1. CASE active = NoRun
    BY <2>1 DEF Cancelled, SyncInv
  <2>2. CASE active # NoRun
    <3>1. active \in Runs /\ runs[active] \in RunRec
      BY <2>2 DEF SyncInv
    <3>2. [runs[active] EXCEPT !.cancelled = TRUE] \in RunRec
      BY <3>1 DEF RunRec
    <3>3. held = [runs EXCEPT ![active] = [runs[active] EXCEPT !.cancelled = TRUE]]
      BY <2>2 DEF Cancelled, SyncInv
    <3> QED BY <3>1, <3>2, <3>3 DEF SyncInv
  <2> QED BY <2>1, <2>2
<1> HIDE DEF held
<1>3. [held[r] EXCEPT !.at = "begin"] \in RunRec
  BY <1>2 DEF RunRec, Working
<1>4. runs' = [held EXCEPT ![r] = [held[r] EXCEPT !.at = "begin"]]
  BY <1>1, <1>2
<1>5. runs' \in [Runs -> RunRec] /\ runs'[r].at = "begin"
  BY <1>2, <1>3, <1>4 DEF RunRec
<1>6. ASSUME ~doubled'
      PROVE  /\ \A p, q \in Runs : runs'[p].at \in Working /\ runs'[q].at \in Working => p = q
             /\ \A q \in Runs : Justified(runs'[q]) /\ Accounted(runs'[q], dst')
             /\ job' = "done" => SyncObjs \subseteq dst'
  <2>1. ~doubled /\ Live = {r}
    BY <1>1, <1>6
  <2>2. \A q \in Runs \ {r} : runs[q].at = "off"
    BY <2>1 DEF Live
  <2>3. active = NoRun
    BY <1>1, <2>2 DEF SyncInv, Working
  <2>4. held = runs
    BY <2>3 DEF held, Cancelled
  <2>5. \A q \in Runs \ {r} : runs'[q] = runs[q]
    BY <1>2, <1>4, <2>4
  <2>6. runs'[r].cancelled = runs[r].cancelled /\ runs'[r].failed = runs[r].failed
        /\ runs'[r].paused = runs[r].paused
    BY <1>2, <1>4, <2>4 DEF RunRec
  <2>7. \A q \in Runs : Justified(runs'[q]) /\ Accounted(runs'[q], dst')
    BY <1>1, <1>5, <2>1, <2>5, <2>6 DEF SyncInv, Justified, Accounted
  <2>8. \A p, q \in Runs : runs'[p].at \in Working /\ runs'[q].at \in Working => p = q
    BY <2>2, <2>5 DEF Working
  <2> QED BY <1>1, <2>1, <2>7, <2>8 DEF SyncInv
<1>7. active' # NoRun => active' \in Runs /\ runs'[active'].at \in Working
  BY <1>1, <1>5 DEF Working
<1> QED BY <1>1, <1>5, <1>6, <1>7 DEF SyncInv, Justified, Accounted

LEMMA PlanKeeps ==
  ASSUME SyncInv, NEW r \in Runs, Plan(r) PROVE SyncInv'
<1> DEFINE s == [runs[r] EXCEPT !.at = "copy", !.todo = SyncObjs \ dst]
<1>1. runs' = [runs EXCEPT ![r] = s] /\ UNCHANGED <<active, dst, doubled>>
      /\ runs[r].at = "plan" /\ Save(runs[r].state)
  BY DEF Plan, SyncInv
<1>2. runs[r] \in RunRec
  BY DEF SyncInv
<1>3. s \in RunRec /\ s.at = "copy" /\ s.todo = SyncObjs \ dst
      /\ s.cancelled = runs[r].cancelled /\ s.failed = runs[r].failed /\ s.paused = runs[r].paused
  BY <1>2 DEF RunRec, Working
<1> HIDE DEF s
<1>4. ~doubled => Justified(s) /\ Accounted(s, dst')
  BY <1>1, <1>3 DEF SyncInv, Justified, Accounted
<1>5. job' = "done" => job = "done"
  BY <1>1, <1>2, NotDone DEF RunRec
<1> QED BY <1>1, <1>3, <1>4, <1>5, RunMoves DEF SyncInv, Working

LEMMA BeginKeeps ==
  ASSUME SyncInv, NEW r \in Runs, Begin(r) PROVE SyncInv'
<1> DEFINE s == [runs[r] EXCEPT !.at = "plan", !.state = "running"]
<1>1. runs' = [runs EXCEPT ![r] = s] /\ UNCHANGED <<active, dst, doubled>>
      /\ runs[r].at = "begin" /\ Save("running")
  BY DEF Begin, SyncInv
<1>2. runs[r] \in RunRec
  BY DEF SyncInv
<1>3. s \in RunRec /\ s.at = "plan"
      /\ s.cancelled = runs[r].cancelled /\ s.failed = runs[r].failed /\ s.paused = runs[r].paused
  BY <1>2 DEF RunRec, Working
<1> HIDE DEF s
<1>4. ~doubled => Justified(s) /\ Accounted(s, dst')
  BY <1>1, <1>3 DEF SyncInv, Justified, Accounted
<1>5. job' = "done" => job = "done"
  BY <1>1, NotDone
<1> QED BY <1>1, <1>3, <1>4, <1>5, RunMoves DEF SyncInv, Working

LEMMA CopyStartsKeeps ==
  ASSUME SyncInv, NEW r \in Runs, NEW o \in SyncObjs, CopyStarts(r, o) PROVE SyncInv'
<1> DEFINE s == [runs[r] EXCEPT !.todo = runs[r].todo \ {o}, !.flight = runs[r].flight \cup {o}]
<1>1. runs' = [runs EXCEPT ![r] = s] /\ UNCHANGED <<active, dst, doubled, job>>
      /\ runs[r].at = "copy"
  BY DEF CopyStarts, HasSlot, SyncInv
<1>2. runs[r] \in RunRec
  BY DEF SyncInv
<1>3. s \in RunRec /\ s.at = "copy" /\ s.todo = runs[r].todo \ {o}
      /\ s.flight = runs[r].flight \cup {o}
      /\ s.cancelled = runs[r].cancelled /\ s.failed = runs[r].failed /\ s.paused = runs[r].paused
  BY <1>1, <1>2 DEF RunRec, Working
<1> HIDE DEF s
<1>4. ~doubled => Justified(s) /\ Accounted(s, dst')
  BY <1>1, <1>3 DEF SyncInv, Justified, Accounted
<1> QED BY <1>1, <1>3, <1>4, RunMoves DEF SyncInv, Working

LEMMA LandedRun ==
  ASSUME SyncInv, NEW r \in Runs, NEW o
  PROVE  /\ Landed(r, o) \in RunRec /\ Landed(r, o).at = runs[r].at
         /\ Landed(r, o).failed = runs[r].failed /\ Landed(r, o).paused = runs[r].paused
         /\ Landed(r, o).cancelled = runs[r].cancelled /\ Landed(r, o).todo = runs[r].todo
         /\ Landed(r, o).flight = runs[r].flight \ {o}
<1>1. runs[r] \in RunRec
  BY DEF SyncInv
<1> QED BY <1>1 DEF Landed, RunRec

LEMMA CopySucceedsKeeps ==
  ASSUME SyncInv, NEW r \in Runs, NEW o \in SyncObjs, CopySucceeds(r, o) PROVE SyncInv'
<1>1. runs' = [runs EXCEPT ![r] = Landed(r, o)] /\ UNCHANGED <<active, doubled>>
      /\ dst' = dst \cup {o} /\ Save(runs[r].state)
  BY DEF CopySucceeds
<1>2. runs[r] \in RunRec
  BY DEF SyncInv
<1>3. ~doubled => Justified(Landed(r, o)) /\ Accounted(Landed(r, o), dst')
  BY <1>1, LandedRun DEF SyncInv, Justified, Accounted
<1>4. job' = "done" => job = "done"
  BY <1>1, <1>2, NotDone DEF RunRec
<1>5. PICK s \in RunRec : s = Landed(r, o) /\ s.at = runs[r].at
  BY LandedRun
<1>6. dst \subseteq dst' /\ dst' \subseteq SyncObjs
  BY <1>1 DEF SyncInv
<1>7. active' = r => s.at \in Working
  BY <1>1, <1>5, SyncAssumption DEF SyncInv
<1> QED BY <1>1, <1>3, <1>4, <1>5, <1>6, <1>7, RunMoves

LEMMA FailedRun ==
  ASSUME SyncInv, NEW r \in Runs, NEW o, NEW state \in {"queued", "running", "error"}
  PROVE  Failed(r, o, state) \in RunRec /\ Failed(r, o, state).at = runs[r].at
         /\ Failed(r, o, state).failed
<1>1. PICK s \in RunRec : s = Landed(r, o) /\ s.at = runs[r].at
  BY LandedRun
<1>2. Failed(r, o, state) = [s EXCEPT !.failed = TRUE, !.cancelled = TRUE, !.state = state]
  BY <1>1 DEF Failed
<1> QED BY <1>1, <1>2 DEF RunRec

(* A run that fails, or has failed or been paused, answers for nothing.        *)
LEMMA CopyEndsKeeps ==
  ASSUME SyncInv, NEW r \in Runs, NEW o \in SyncObjs, CopyFails(r, o) \/ CopyPanics(r, o)
  PROVE  SyncInv'
<1>1. runs[r] \in RunRec /\ UNCHANGED <<active, dst, doubled>>
  BY DEF SyncInv, CopyFails, CopyPanics
<1>2. PICK v \in RunRec : runs' = [runs EXCEPT ![r] = v] /\ v.at = runs[r].at
                          /\ (v.failed \/ v.paused)
  <2>1. CASE \E state \in {"queued", "running", "error"} :
               runs' = [runs EXCEPT ![r] = Failed(r, o, state)]
    BY <2>1, FailedRun
  <2>2. CASE runs' = [runs EXCEPT ![r] = Landed(r, o)] /\ (runs[r].failed \/ runs[r].paused)
    BY <2>2, LandedRun
  <2>3. runs[r].state \in {"queued", "running", "error"}
    BY <1>1 DEF RunRec
  <2>4. CASE CopyFails(r, o)
    BY <2>1, <2>2, <2>4 DEF CopyFails
  <2>5. CASE CopyPanics(r, o)
    BY <2>1, <2>3, <2>5 DEF CopyPanics, SyncInv
  <2> QED BY <2>4, <2>5
<1>3. job' = "done" => job = "done"
  BY NotDone DEF CopyFails, CopyPanics
<1>4. Justified(v) /\ Accounted(v, dst')
  BY <1>2 DEF Justified, Accounted
<1> QED BY <1>1, <1>2, <1>3, <1>4, RunMoves DEF SyncInv

(* The last lines of Run, and the only place where a row says "done".          *)
LEMMA FinishKeeps ==
  ASSUME SyncInv, NEW r \in Runs, Finish(r) PROVE SyncInv'
<1>1. AllIn(r) /\ runs' = [runs EXCEPT ![r] = Off] /\ deregisterRun(r)
      /\ doubled' = doubled /\ dst' = dst
  BY DEF Finish
<1>2. ASSUME ~doubled, job' = "done", job # "done" PROVE SyncObjs \subseteq dst
  <2>1. ~runs[r].failed /\ ~runs[r].paused
    BY <1>2 DEF Finish, Save
  <2>2. ~runs[r].cancelled /\ Accounted(runs[r], dst)
    BY <1>2, <2>1 DEF SyncInv, Justified
  <2>3. runs[r].at = "copy" /\ runs[r].flight = {} /\ runs[r].todo = {}
    BY <1>1, <2>1, <2>2 DEF AllIn, Stopped
  <2> QED BY <2>1, <2>2, <2>3 DEF Accounted
<1> QED BY <1>1, <1>2, Ends

LEMMA SignalKeeps ==
  ASSUME SyncInv, NEW c \in Clients, PauseSignal(c) PROVE SyncInv'
<1>1. UNCHANGED <<job, active, dst, doubled>>
  BY DEF PauseSignal
<1>2. CASE active = NoRun
  <2>1. runs' = runs
    BY <1>2 DEF PauseSignal
  <2> QED BY <1>1, <2>1 DEF SyncInv, Justified, Accounted
<1>3. CASE active # NoRun
  <2> DEFINE s == [runs[active] EXCEPT !.cancelled = TRUE, !.paused = TRUE]
  <2>1. active \in Runs /\ runs[active] \in RunRec /\ runs[active].at \in Working
    BY <1>3 DEF SyncInv
  <2>2. s \in RunRec /\ s.at = runs[active].at /\ s.paused
    BY <2>1 DEF RunRec
  <2>3. runs' = [runs EXCEPT ![active] = s]
    BY <1>3, <2>1 DEF PauseSignal, Cancelled, SyncInv
  <2> HIDE DEF s
  <2>4. Justified(s) /\ Accounted(s, dst')
    BY <2>2 DEF Justified, Accounted
  <2> QED BY <1>1, <2>1, <2>2, <2>3, <2>4, RunMoves DEF SyncInv
<1> QED BY <1>2, <1>3

(* A run that begins its life is not at work before registerRun.               *)
LEMMA StartKeeps ==
  ASSUME SyncInv, NEW r \in Runs, NEW at \in {"drivers", "register"},
         runs[r].at \notin Working, runs' = [runs EXCEPT ![r].at = at],
         UNCHANGED <<active, dst, doubled>>, job' # "done"
  PROVE  SyncInv'
<1> DEFINE s == [runs[r] EXCEPT !.at = at]
<1>1. runs[r] \in RunRec
  BY DEF SyncInv
<1>2. s \in RunRec /\ s.at = at /\ s.cancelled = runs[r].cancelled /\ s.failed = runs[r].failed
      /\ s.paused = runs[r].paused
  BY <1>1 DEF RunRec
<1>3. runs' = [runs EXCEPT ![r] = s]
  BY DEF SyncInv
<1> HIDE DEF s
<1>4. ~doubled => Justified(s) /\ Accounted(s, dst')
  BY <1>2 DEF SyncInv, Justified, Accounted
<1>5. active' = r => s.at \in Working
  BY SyncAssumption DEF SyncInv
<1> QED BY <1>2, <1>3, <1>4, <1>5, RunMoves DEF SyncInv, Working

LEMMA SyncInvStep == SyncInv /\ [SyncNext]_syncVars => SyncInv'
<1> SUFFICES ASSUME SyncInv, [SyncNext]_syncVars PROVE SyncInv'
  OBVIOUS
<1>1. ASSUME UNCHANGED <<runs, active, dst, doubled>>, job' = "done" => job = "done"
      PROVE  SyncInv'
  BY <1>1 DEF SyncInv, Justified, Accounted
<1>2. ASSUME NEW r \in Runs, CreateSync(r) PROVE SyncInv'
  BY <1>2, StartKeeps DEF CreateSync, Live, Working
<1>3. ASSUME NEW r \in Runs, ResolveDrivers(r) PROVE SyncInv'
  <2>1. runs[r].at = "drivers" /\ UNCHANGED <<job, active, dst, doubled>> /\ active # r
    BY <1>3, SyncAssumption DEF ResolveDrivers, SyncInv, Working
  <2>2. CASE runs' = [runs EXCEPT ![r] = Off]
    <3>1. deregisterRun(r)
      BY <2>1 DEF deregisterRun
    <3> QED BY <2>1, <2>2, <3>1, Ends
  <2>3. CASE runs' = [runs EXCEPT ![r].at = "register"]
    <3> DEFINE s == [runs[r] EXCEPT !.at = "register"]
    <3>1. s \in RunRec /\ s.at = "register" /\ s.cancelled = runs[r].cancelled
          /\ s.failed = runs[r].failed /\ s.paused = runs[r].paused
      <4>1. runs[r] \in RunRec
        BY DEF SyncInv
      <4> QED BY <4>1 DEF RunRec
    <3>2. runs' = [runs EXCEPT ![r] = s]
      BY <2>3 DEF SyncInv
    <3> HIDE DEF s
    <3>3. ~doubled => Justified(s) /\ Accounted(s, dst')
      BY <3>1 DEF SyncInv, Justified, Accounted
    <3> QED BY <2>1, <3>1, <3>2, <3>3, RunMoves DEF SyncInv, Working
  <2> QED BY <1>3, <2>2, <2>3 DEF ResolveDrivers
<1>4. ASSUME NEW r \in Runs, registerRun(r) \/ Begin(r) \/ Plan(r) \/ Finish(r) PROVE SyncInv'
  BY <1>4, RegisterKeeps, BeginKeeps, PlanKeeps, FinishKeeps
<1>5. ASSUME NEW r \in Runs, PlanFails(r) PROVE SyncInv'
  <2>1. job' = "done" => job = "done"
    BY <1>5, NotDone DEF PlanFails
  <2> QED BY <1>5, <2>1, Ends DEF PlanFails
<1>6. ASSUME NEW r \in Runs, NEW o \in SyncObjs,
             CopyStarts(r, o) \/ CopySucceeds(r, o) \/ CopyFails(r, o) \/ CopyPanics(r, o)
      PROVE  SyncInv'
  BY <1>6, CopyStartsKeeps, CopySucceedsKeeps, CopyEndsKeeps
<1>7. ASSUME NEW c \in Clients, PauseLoad(c) \/ ResumeLoad(c) PROVE SyncInv'
  BY <1>1, <1>7 DEF PauseLoad, ResumeLoad
<1>8. ASSUME NEW c \in Clients, PauseSignal(c) PROVE SyncInv'
  BY <1>8, SignalKeeps
<1>9. ASSUME NEW c \in Clients, PauseSave(c) PROVE SyncInv'
  <2>1. job' = "done" => job = "done"
    BY <1>9, NotDone DEF PauseSave
  <2> QED BY <1>1, <1>9, <2>1 DEF PauseSave
<1>10. ASSUME NEW c \in Clients, NEW r \in Runs, ResumeSave(c, r) PROVE SyncInv'
  <2>1. CASE UNCHANGED <<job, runs>>
    BY <1>1, <1>10, <2>1 DEF ResumeSave
  <2>2. CASE job' = "running" /\ r \notin Live /\ runs' = [runs EXCEPT ![r].at = "register"]
    BY <1>10, <2>2, StartKeeps DEF ResumeSave, Live, Working
  <2> QED BY <1>10, <2>1, <2>2 DEF ResumeSave
<1>11. CASE DeleteSync
  <2>1. job' # "done"
    BY <1>11, SyncAssumption DEF DeleteSync, States
  <2> QED BY <1>1, <1>11, <2>1 DEF DeleteSync
<1>12. CASE SyncRestart
  <2>1. runs' = [r \in Runs |-> Off] /\ active' = NoRun /\ UNCHANGED <<job, dst, doubled>>
    BY <1>12 DEF SyncRestart
  <2>2. \A r \in Runs : runs'[r] = Off /\ runs'[r].at \notin Working
    BY <2>1, OffRun DEF Working
  <2>3. \A r \in Runs : Justified(runs'[r]) /\ Accounted(runs'[r], dst')
    BY <2>2, OffRun DEF Accounted, Working
  <2> QED BY <2>1, <2>2, <2>3, OffRun DEF SyncInv, Justified, Accounted
<1>13. CASE UNCHANGED syncVars
  BY <1>1, <1>13 DEF syncVars
<1> QED BY <1>2, <1>3, <1>4, <1>5, <1>6, <1>7, <1>8, <1>9, <1>10, <1>11, <1>12, <1>13
        DEF SyncNext, SyncRun, RunSteps, CallReturns

(* Run's last lines: whatever pauses, resumes, errors, panics and restarts come *)
(* between, a job that says "done" has copied everything, as long as no two    *)
(* runs of it were alive at once.                                              *)
THEOREM DoneIsCopied == SyncSpec => []DoneMeansCopied
<1>1. SyncInv => DoneMeansCopied
  BY DEF SyncInv, DoneMeansCopied
<1> QED BY SyncInvInit, SyncInvStep, <1>1, PTL DEF SyncSpec

--------------------------------------------------------------------------------
(* Objects are in flight, and fail, in the copy phase only; a run that has      *)
(* failed remembers the error, and so never again writes a row that shows the  *)
(* job at work.                                                                *)
FailsLoudly(s) ==
  /\ s.failed => s.at = "copy" /\ s.state = "error"
  /\ s.flight # {} => s.at = "copy"
Owns(s) == s.at # "off" /\ ~s.failed

OwnInv == (\A r \in Runs : FailsLoudly(runs[r])) /\ RowIsOwned

LEMMA OwnInvInit == SyncInit => OwnInv
<1> SUFFICES ASSUME SyncInit PROVE OwnInv
  OBVIOUS
<1>1. job = NoJob /\ \A r \in Runs : runs[r] = Off
  BY DEF SyncInit
<1>2. job \notin {"queued", "running"}
  BY <1>1, SyncAssumption DEF States
<1>3. \A r \in Runs : FailsLoudly(runs[r])
  BY <1>1 DEF Off, FailsLoudly
<1> QED BY <1>2, <1>3 DEF OwnInv, RowIsOwned

(* One run moves: it owns the row now, or it did not before, or what it leaves *)
(* behind is a row that nobody needs to own.                                   *)
LEMMA OwnerMoves ==
  ASSUME SyncInv, OwnInv, NEW r \in Runs, NEW s \in RunRec, runs' = [runs EXCEPT ![r] = s],
         FailsLoudly(s),
         \/ stranded' \/ job' \notin {"queued", "running"} \/ Owns(s)
         \/ ~Owns(runs[r]) /\ job' = job /\ stranded' = stranded
  PROVE  OwnInv'
<1>1. runs'[r] = s /\ \A q \in Runs \ {r} : runs'[q] = runs[q]
  BY DEF SyncInv
<1>2. \A q \in Runs : FailsLoudly(runs'[q])
  BY <1>1 DEF OwnInv
<1>3. ASSUME job' \in {"queued", "running"}, ~stranded'
      PROVE  \E q \in Runs : Owns(runs'[q])
  <2>1. CASE Owns(s)
    BY <1>1, <2>1
  <2>2. CASE ~Owns(runs[r]) /\ job' = job /\ stranded' = stranded
    <3>1. PICK q \in Runs : Owns(runs[q])
      BY <1>3, <2>2 DEF OwnInv, RowIsOwned, Live, Owns
    <3>2. q # r
      BY <2>2, <3>1
    <3> QED BY <1>1, <3>1, <3>2
  <2> QED BY <1>3, <2>1, <2>2
<1> QED BY <1>2, <1>3 DEF OwnInv, RowIsOwned, Live, Owns, FailsLoudly

(* No run moves, and the row is not put to work.                               *)
LEMMA OwnerStays ==
  ASSUME OwnInv, runs' = runs,
         \/ stranded' \/ job' \notin {"queued", "running"}
         \/ job' = job /\ stranded' = stranded
  PROVE  OwnInv'
BY DEF OwnInv, RowIsOwned, Live, FailsLoudly

LEMMA SaveLeaves ==
  ASSUME NEW state, Save(state)
  PROVE  stranded' \/ job' = state
BY DEF Save

LEMMA RegisteredRun ==
  ASSUME NEW f \in [Runs -> RunRec], NEW r \in Runs
  PROVE  LET g == [f EXCEPT ![r].at = "begin"]
         IN  g \in [Runs -> RunRec] /\ \A q \in Runs :
               g[q].failed = f[q].failed /\ g[q].state = f[q].state
               /\ g[q].flight = f[q].flight /\ g[q].at = IF q = r THEN "begin" ELSE f[q].at
<1> DEFINE s == [f[r] EXCEPT !.at = "begin"]
<1>1. s \in RunRec /\ s.at = "begin" /\ s.failed = f[r].failed /\ s.state = f[r].state
      /\ s.flight = f[r].flight
  <2>1. f[r] \in RunRec
    OBVIOUS
  <2> QED BY <2>1 DEF RunRec, Working
<1>2. [f EXCEPT ![r].at = "begin"] = [f EXCEPT ![r] = s]
  OBVIOUS
<1> HIDE DEF s
<1> QED BY <1>1, <1>2

LEMMA OwnInvStep == SyncInv /\ OwnInv /\ [SyncNext]_syncVars => OwnInv'
<1> SUFFICES ASSUME SyncInv, OwnInv, [SyncNext]_syncVars PROVE OwnInv'
  OBVIOUS
<1>1. \A r \in Runs : runs[r] \in RunRec /\ FailsLoudly(runs[r])
  BY DEF SyncInv, OwnInv
<1>2. ASSUME NEW r \in Runs, runs' = [runs EXCEPT ![r] = Off],
             stranded' \/ job' \notin {"queued", "running"} \/
               (runs[r].failed /\ job' = job /\ stranded' = stranded)
      PROVE  OwnInv'
  <2>1. FailsLoudly(Off) /\ Off \in RunRec
    BY OffRun DEF FailsLoudly, Off
  <2> QED BY <1>2, <2>1, OwnerMoves DEF Owns
<1>3. ASSUME NEW r \in Runs, NEW at \in {"drivers", "register", "begin"},
             runs[r].at \notin {"copy"}, runs' = [runs EXCEPT ![r].at = at] 
      PROVE  OwnInv'
  <2> DEFINE s == [runs[r] EXCEPT !.at = at]
  <2>1. s \in RunRec /\ s.at = at /\ s.failed = runs[r].failed /\ s.flight = runs[r].flight
    BY <1>1 DEF RunRec, Working
  <2>2. runs' = [runs EXCEPT ![r] = s]
    BY <1>3 DEF SyncInv
  <2>3. FailsLoudly(s) /\ Owns(s)
    BY <1>1, <1>3, <2>1 DEF FailsLoudly, Owns
  <2> QED BY <1>3, <2>1, <2>2, <2>3, OwnerMoves
<1>4. ASSUME NEW r \in Runs, CreateSync(r) PROVE OwnInv'
  BY <1>3, <1>4 DEF CreateSync, Live
<1>5. ASSUME NEW r \in Runs, ResolveDrivers(r) PROVE OwnInv'
  BY <1>2, <1>3, <1>5 DEF ResolveDrivers
<1>6. ASSUME NEW r \in Runs, registerRun(r) PROVE OwnInv'
  <2>1. runs[r].at = "register" /\ UNCHANGED <<job, stranded>>
        /\ runs' = [Cancelled(runs, active) EXCEPT ![r].at = "begin"]
    BY <1>6 DEF registerRun
  <2>2. runs' \in [Runs -> RunRec] /\ \A q \in Runs :
          runs'[q].failed = runs[q].failed /\ runs'[q].state = runs[q].state
          /\ runs'[q].flight = runs[q].flight
          /\ runs'[q].at = IF q = r THEN "begin" ELSE runs[q].at
    <3>1. CASE active = NoRun
      <4>1. runs \in [Runs -> RunRec] /\ runs' = [runs EXCEPT ![r].at = "begin"]
        BY <2>1, <3>1 DEF Cancelled, SyncInv
      <4> QED BY <1>1, <4>1, RegisteredRun
    <3>2. CASE active # NoRun
      <4>1. active \in Runs
        BY <3>2 DEF SyncInv
      <4> DEFINE f == [runs EXCEPT ![active].cancelled = TRUE]
      <4>2. f \in [Runs -> RunRec] /\ \A q \in Runs : f[q].failed = runs[q].failed
              /\ f[q].flight = runs[q].flight /\ f[q].state = runs[q].state /\ f[q].at = runs[q].at
        <5> DEFINE c == [runs[active] EXCEPT !.cancelled = TRUE]
        <5>1. runs[active] \in RunRec /\ runs \in [Runs -> RunRec]
          BY <4>1 DEF SyncInv
        <5>2. c \in RunRec /\ c.failed = runs[active].failed /\ c.flight = runs[active].flight
              /\ c.state = runs[active].state /\ c.at = runs[active].at
          BY <5>1 DEF RunRec
        <5>3. f = [runs EXCEPT ![active] = c]
          BY <5>1
        <5> HIDE DEF f, c
        <5> QED BY <4>1, <5>1, <5>2, <5>3
      <4>3. runs' = [f EXCEPT ![r].at = "begin"]
        BY <2>1, <3>2 DEF Cancelled
      <4> HIDE DEF f
      <4> QED BY <4>2, <4>3, RegisteredRun
    <3> QED BY <3>1, <3>2
  <2>3. ~runs[r].failed /\ runs[r].flight = {}
    BY <1>1, <2>1 DEF FailsLoudly
  <2>4. \A q \in Runs : FailsLoudly(runs'[q])
    BY <1>1, <2>1, <2>2, <2>3 DEF FailsLoudly
  <2>5. RowIsOwned'
    BY <2>1, <2>2, <2>3 DEF RowIsOwned, Live
  <2> QED BY <2>4, <2>5 DEF OwnInv, FailsLoudly
<1>7. ASSUME NEW r \in Runs, NEW to \in {"plan", "copy"}, NEW s \in RunRec, s.at = to,
             s.failed = runs[r].failed, s.flight = runs[r].flight, runs[r].at # "copy",
             runs' = [runs EXCEPT ![r] = s]
      PROVE  OwnInv'
  <2>1. FailsLoudly(s) /\ Owns(s)
    BY <1>1, <1>7 DEF FailsLoudly, Owns
  <2> QED BY <1>7, <2>1, OwnerMoves
<1>8. ASSUME NEW r \in Runs, Begin(r) PROVE OwnInv'
  <2> DEFINE s == [runs[r] EXCEPT !.at = "plan", !.state = "running"]
  <2>1. s \in RunRec /\ s.at = "plan" /\ s.failed = runs[r].failed
        /\ s.flight = runs[r].flight
    BY <1>1 DEF RunRec, Working
  <2>2. runs' = [runs EXCEPT ![r] = s] /\ runs[r].at = "begin"
    BY <1>8 DEF Begin, SyncInv
  <2> QED BY <1>7, <2>1, <2>2
<1>9. ASSUME NEW r \in Runs, Plan(r) PROVE OwnInv'
  <2> DEFINE s == [runs[r] EXCEPT !.at = "copy", !.todo = SyncObjs \ dst]
  <2>1. s \in RunRec /\ s.at = "copy" /\ s.failed = runs[r].failed
        /\ s.flight = runs[r].flight
    BY <1>1 DEF RunRec, Working
  <2>2. runs' = [runs EXCEPT ![r] = s] /\ runs[r].at = "plan"
    BY <1>9 DEF Plan, SyncInv
  <2> QED BY <1>7, <2>1, <2>2
<1>10. ASSUME NEW r \in Runs, PlanFails(r) PROVE OwnInv'
  BY <1>2, <1>10, SaveLeaves DEF PlanFails
<1>11. ASSUME NEW r \in Runs, Finish(r) PROVE OwnInv'
  BY <1>2, <1>11, SaveLeaves DEF Finish
<1>12. ASSUME NEW r \in Runs, NEW o \in SyncObjs, CopyStarts(r, o) PROVE OwnInv'
  <2> DEFINE s == [runs[r] EXCEPT !.todo = runs[r].todo \ {o}, !.flight = runs[r].flight \cup {o}]
  <2>1. s \in RunRec /\ s.at = runs[r].at /\ s.failed = runs[r].failed /\ s.state = runs[r].state
    BY <1>1 DEF RunRec
  <2>2. runs' = [runs EXCEPT ![r] = s] /\ UNCHANGED <<job, stranded>> /\ runs[r].at = "copy"
    BY <1>12 DEF CopyStarts, HasSlot, SyncInv
  <2>3. FailsLoudly(s) /\ (Owns(s) \/ ~Owns(runs[r]))
    BY <1>1, <2>1, <2>2 DEF FailsLoudly, Owns
  <2> HIDE DEF s
  <2> QED BY <2>1, <2>2, <2>3, OwnerMoves
<1>13. ASSUME NEW r \in Runs, NEW o \in runs[r].flight, runs' = [runs EXCEPT ![r] = Landed(r, o)],
              Save(runs[r].state) \/ UNCHANGED <<job, stranded>>
       PROVE  OwnInv'
  <2>1. PICK s \in RunRec : s = Landed(r, o)
    BY LandedRun
  <2>2. s.at = "copy" /\ runs[r].at = "copy" /\ s.failed = runs[r].failed /\ s.state = runs[r].state
    BY <1>1, <2>1 DEF Landed, RunRec, FailsLoudly
  <2>3. FailsLoudly(s) /\ (Owns(s) <=> ~s.failed) /\ (Owns(runs[r]) <=> ~s.failed)
    BY <1>1, <2>2 DEF FailsLoudly, Owns
  <2>4. s.failed /\ Save(runs[r].state) => stranded' \/ job' = "error"
    BY <1>1, <2>2, SaveLeaves DEF FailsLoudly
  <2> QED BY <1>13, <2>1, <2>3, <2>4, OwnerMoves
<1>14. ASSUME NEW r \in Runs, NEW o \in runs[r].flight, NEW state \in {"queued", "running", "error"},
              runs' = [runs EXCEPT ![r] = Failed(r, o, state)],
              \/ state = "error" /\ Save("error")
              \/ state = runs[r].state /\ runs[r].failed /\ UNCHANGED <<job, stranded>>
       PROVE  OwnInv'
  <2>1. PICK s \in RunRec : s = Failed(r, o, state)
    BY FailedRun
  <2>2. PICK l \in RunRec : l = Landed(r, o) /\ l.at = runs[r].at
    BY LandedRun
  <2>3. s.at = "copy" /\ s.failed /\ s.state = state
    <3>1. runs[r].at = "copy"
      BY <1>1 DEF FailsLoudly
    <3> QED BY <2>1, <2>2, <3>1 DEF Failed, RunRec
  <2>4. FailsLoudly(s)
    BY <1>1, <1>14, <2>3 DEF FailsLoudly
  <2> QED BY <1>14, <2>1, <2>4, SaveLeaves, OwnerMoves DEF Owns
<1>15. ASSUME NEW r \in Runs, NEW o \in SyncObjs,
              CopySucceeds(r, o) \/ CopyFails(r, o) \/ CopyPanics(r, o)
       PROVE  OwnInv'
  <2>1. o \in runs[r].flight /\ runs[r].state \in {"queued", "running", "error"}
    BY <1>1, <1>15 DEF CopySucceeds, CopyFails, CopyPanics, RunRec
  <2>2. CASE CopySucceeds(r, o)
    BY <1>13, <2>1, <2>2 DEF CopySucceeds
  <2>3. CASE CopyFails(r, o)
    BY <1>13, <1>14, <2>1, <2>3 DEF CopyFails
  <2>4. CASE CopyPanics(r, o)
    <3>1. CASE runs[r].failed
      <4>1. runs' = [runs EXCEPT ![r] = Failed(r, o, runs[r].state)] /\ UNCHANGED <<job, stranded>>
        BY <2>4, <3>1 DEF CopyPanics, SyncInv
      <4> QED BY <1>14, <2>1, <3>1, <4>1
    <3>2. CASE ~runs[r].failed
      BY <1>14, <2>1, <2>4, <3>2 DEF CopyPanics
    <3> QED BY <3>1, <3>2
  <2> QED BY <1>15, <2>2, <2>3, <2>4
<1>16. ASSUME NEW c \in Clients, PauseLoad(c) \/ ResumeLoad(c) PROVE OwnInv'
  BY <1>16, OwnerStays DEF PauseLoad, ResumeLoad
<1>17. ASSUME NEW c \in Clients, PauseSignal(c) PROVE OwnInv'
  <2>1. UNCHANGED <<job, stranded>>
    BY <1>17 DEF PauseSignal
  <2>2. CASE active = NoRun
    BY <1>17, <2>1, <2>2, OwnerStays DEF PauseSignal
  <2>3. CASE active # NoRun
    <3> DEFINE s == [runs[active] EXCEPT !.cancelled = TRUE, !.paused = TRUE]
    <3>1. active \in Runs
      BY <2>3 DEF SyncInv
    <3>2. s \in RunRec /\ s.at = runs[active].at /\ s.failed = runs[active].failed
          /\ s.flight = runs[active].flight /\ s.state = runs[active].state
      BY <1>1, <3>1 DEF RunRec
    <3>3. runs' = [runs EXCEPT ![active] = s]
      BY <1>17, <2>3, <3>1 DEF PauseSignal, Cancelled, SyncInv
    <3> HIDE DEF s
    <3>4. FailsLoudly(s) /\ (Owns(s) <=> Owns(runs[active]))
      BY <1>1, <3>1, <3>2 DEF FailsLoudly, Owns
    <3> QED BY <2>1, <3>1, <3>2, <3>3, <3>4, OwnerMoves
  <2> QED BY <2>2, <2>3
<1>18. ASSUME NEW c \in Clients, PauseSave(c) PROVE OwnInv'
  BY <1>18, SaveLeaves, OwnerStays DEF PauseSave
<1>19. ASSUME NEW c \in Clients, NEW r \in Runs, ResumeSave(c, r) PROVE OwnInv'
  <2>1. CASE UNCHANGED <<job, runs>>
    BY <1>19, <2>1, OwnerStays DEF ResumeSave
  <2>2. CASE r \notin Live /\ runs' = [runs EXCEPT ![r].at = "register"]
    BY <1>3, <2>2 DEF Live
  <2> QED BY <1>19, <2>1, <2>2 DEF ResumeSave
<1>20. CASE DeleteSync
  <2>1. job' \notin {"queued", "running"} /\ runs' = runs
    BY <1>20, SyncAssumption DEF DeleteSync, States
  <2> QED BY <2>1, OwnerStays
<1>21. CASE SyncRestart
  <2>1. stranded' /\ \A r \in Runs : runs'[r] = Off
    BY <1>21 DEF SyncRestart
  <2> QED BY <2>1 DEF OwnInv, RowIsOwned, FailsLoudly, Off
<1>22. CASE UNCHANGED syncVars
  BY <1>22, OwnerStays DEF syncVars
<1> QED BY <1>4, <1>5, <1>6, <1>8, <1>9, <1>10, <1>11, <1>12, <1>15, <1>16, <1>17, <1>18,
           <1>19, <1>20, <1>21, <1>22 DEF SyncNext, SyncRun, RunSteps, CallReturns

(* A row that shows a job at work is owned by a run that will still write it,  *)
(* whatever pauses, resumes, deletions and failures interleave, until a        *)
(* restart, a lost write or an unresolved driver strands it.                   *)
THEOREM RowsAreOwned == SyncSpec => []RowIsOwned
<1>1. SyncInit => SyncInv /\ OwnInv
  BY SyncInvInit, OwnInvInit
<1>2. SyncInv /\ OwnInv /\ [SyncNext]_syncVars => (SyncInv /\ OwnInv)'
  BY SyncInvStep, OwnInvStep
<1>3. OwnInv => RowIsOwned
  BY DEF OwnInv
<1> QED BY <1>1, <1>2, <1>3, PTL DEF SyncSpec

--------------------------------------------------------------------------------
(* Worker slots. What a step makes of one run: nothing that its workers see,   *)
(* one worker more where there was a slot, one fewer, or the end.              *)
Evolves(s, t) ==
  \/ t = Off
  \/ t.flight = s.flight /\ t.failed = s.failed /\ t.state \in {s.state, "running"}
  \/ \E o \in SyncObjs :
       /\ t.flight = s.flight \cup {o} /\ Cardinality(s.flight) < MaxConcurrency
       /\ t.failed = s.failed /\ t.state = s.state
  \/ \E o \in SyncObjs :
       /\ t.flight = s.flight \ {o}
       /\ t.failed \/ (t.failed = s.failed /\ t.state = s.state)

LEMMA OneEvolves ==
  ASSUME SyncInv, NEW r \in Runs, NEW t, runs' = [runs EXCEPT ![r] = t], Evolves(runs[r], t)
  PROVE  \A q \in Runs : Evolves(runs[q], runs'[q])
<1>1. runs'[r] = t /\ \A q \in Runs \ {r} : runs'[q] = runs[q]
  BY DEF SyncInv
<1>2. \A q \in Runs \ {r} : Evolves(runs[q], runs'[q])
  BY <1>1 DEF Evolves
<1> QED BY <1>1, <1>2

LEMMA RunsEvolve ==
  SyncInv /\ [SyncNext]_syncVars => \A q \in Runs : Evolves(runs[q], runs'[q])
<1> DEFINE Goal == \A q \in Runs : Evolves(runs[q], runs'[q])
<1> SUFFICES ASSUME SyncInv, [SyncNext]_syncVars PROVE Goal
  OBVIOUS
<1>1. runs \in [Runs -> RunRec] /\ \A r \in Runs : runs[r] \in RunRec
  BY DEF SyncInv
<1>2. ASSUME runs' = runs PROVE Goal
  BY <1>2 DEF Evolves
<1>3. ASSUME NEW r \in Runs, runs' = [runs EXCEPT ![r] = Off] PROVE Goal
  BY <1>3, OneEvolves DEF Evolves
<1>4. ASSUME NEW r \in Runs, NEW at \in {"drivers", "register"},
             runs' = [runs EXCEPT ![r].at = at]
      PROVE  Goal
  <2> DEFINE s == [runs[r] EXCEPT !.at = at]
  <2>1. s.flight = runs[r].flight /\ s.failed = runs[r].failed /\ s.state = runs[r].state
    BY <1>1 DEF RunRec
  <2>2. runs' = [runs EXCEPT ![r] = s]
    BY <1>1, <1>4
  <2> HIDE DEF s
  <2> QED BY <2>1, <2>2, OneEvolves DEF Evolves
<1>5. ASSUME NEW r \in Runs, CreateSync(r) \/ ResolveDrivers(r) PROVE Goal
  BY <1>3, <1>4, <1>5 DEF CreateSync, ResolveDrivers
<1>6. ASSUME NEW r \in Runs, registerRun(r) PROVE Goal
  <2>1. runs' = [Cancelled(runs, active) EXCEPT ![r].at = "begin"]
    BY <1>6 DEF registerRun
  <2>2. Cancelled(runs, active) \in [Runs -> RunRec]
        /\ \A q \in Runs : Cancelled(runs, active)[q].failed = runs[q].failed
             /\ Cancelled(runs, active)[q].state = runs[q].state
             /\ Cancelled(runs, active)[q].flight = runs[q].flight
    <3>1. CASE active = NoRun
      BY <1>1, <3>1 DEF Cancelled
    <3>2. CASE active # NoRun
      <4> DEFINE c == [runs[active] EXCEPT !.cancelled = TRUE]
      <4>1. active \in Runs
        BY <3>2 DEF SyncInv
      <4>2. c \in RunRec /\ c.failed = runs[active].failed
            /\ c.flight = runs[active].flight /\ c.state = runs[active].state
        BY <1>1, <4>1 DEF RunRec
      <4>3. Cancelled(runs, active) = [runs EXCEPT ![active] = c]
        BY <1>1, <3>2, <4>1 DEF Cancelled
      <4> HIDE DEF c
      <4> QED BY <1>1, <4>1, <4>2, <4>3
    <3> QED BY <3>1, <3>2
  <2>3. \A q \in Runs : runs'[q].failed = runs[q].failed /\ runs'[q].state = runs[q].state
          /\ runs'[q].flight = runs[q].flight
    BY <2>1, <2>2, RegisteredRun
  <2> QED BY <2>3 DEF Evolves
<1>7. ASSUME NEW r \in Runs, Begin(r) PROVE Goal
  <2> DEFINE s == [runs[r] EXCEPT !.at = "plan", !.state = "running"]
  <2>1. s.flight = runs[r].flight /\ s.failed = runs[r].failed /\ s.state = "running"
    BY <1>1 DEF RunRec
  <2>2. runs' = [runs EXCEPT ![r] = s]
    BY <1>1, <1>7 DEF Begin
  <2> HIDE DEF s
  <2> QED BY <2>1, <2>2, OneEvolves DEF Evolves
<1>8. ASSUME NEW r \in Runs, Plan(r) PROVE Goal
  <2> DEFINE s == [runs[r] EXCEPT !.at = "copy", !.todo = SyncObjs \ dst]
  <2>1. s.flight = runs[r].flight /\ s.failed = runs[r].failed /\ s.state = runs[r].state
    BY <1>1 DEF RunRec
  <2>2. runs' = [runs EXCEPT ![r] = s]
    BY <1>1, <1>8 DEF Plan
  <2> HIDE DEF s
  <2> QED BY <2>1, <2>2, OneEvolves DEF Evolves
<1>9. ASSUME NEW r \in Runs, PlanFails(r) \/ Finish(r) PROVE Goal
  BY <1>3, <1>9 DEF PlanFails, Finish
<1>10. ASSUME NEW r \in Runs, NEW o \in SyncObjs, CopyStarts(r, o) PROVE Goal
  <2> DEFINE s == [runs[r] EXCEPT !.todo = @ \ {o}, !.flight = @ \cup {o}]
  <2>1. s.flight = runs[r].flight \cup {o} /\ s.failed = runs[r].failed
        /\ s.state = runs[r].state
    BY <1>1 DEF RunRec
  <2>2. runs' = [runs EXCEPT ![r] = s] /\ Cardinality(runs[r].flight) < MaxConcurrency
    BY <1>1, <1>10 DEF CopyStarts, HasSlot
  <2> HIDE DEF s
  <2> QED BY <2>1, <2>2, OneEvolves DEF Evolves
<1>11. ASSUME NEW r \in Runs, NEW o \in SyncObjs,
              CopySucceeds(r, o) \/ CopyFails(r, o) \/ CopyPanics(r, o)
       PROVE  Goal
  <2>1. Landed(r, o).failed = runs[r].failed /\ Landed(r, o).flight = runs[r].flight \ {o}
        /\ Landed(r, o).state = runs[r].state
    BY <1>1 DEF Landed, RunRec
  <2>2. \A state : Failed(r, o, state).failed /\ Failed(r, o, state).flight = runs[r].flight \ {o}
    BY <1>1 DEF Landed, Failed, RunRec
  <2>3. PICK t : runs' = [runs EXCEPT ![r] = t] /\
                 (t = Landed(r, o) \/ \E state : t = Failed(r, o, state))
    <3>1. CASE CopySucceeds(r, o) \/ CopyFails(r, o)
      BY <3>1 DEF CopySucceeds, CopyFails
    <3>2. CASE CopyPanics(r, o)
      <4>1. CASE ~runs[r].failed
        BY <3>2, <4>1 DEF CopyPanics
      <4>2. CASE runs[r].failed
        <5>1. runs' = [runs EXCEPT ![r] = Failed(r, o, runs[r].state)]
          BY <1>1, <3>2, <4>2 DEF CopyPanics
        <5> QED BY <5>1
      <4> QED BY <4>1, <4>2
    <3> QED BY <1>11, <3>1, <3>2
  <2>4. Evolves(runs[r], t)
    BY <2>1, <2>2, <2>3 DEF Evolves
  <2> QED BY <2>3, <2>4, OneEvolves
<1>12. ASSUME NEW c \in Clients, PauseLoad(c) \/ ResumeLoad(c) \/ PauseSave(c) PROVE Goal
  BY <1>2, <1>12 DEF PauseLoad, ResumeLoad, PauseSave
<1>13. ASSUME NEW c \in Clients, PauseSignal(c) PROVE Goal
  <2>1. CASE active = NoRun
    BY <1>2, <1>13, <2>1 DEF PauseSignal
  <2>2. CASE active # NoRun
    <3> DEFINE s == [runs[active] EXCEPT !.cancelled = TRUE, !.paused = TRUE]
    <3>1. active \in Runs
      BY <2>2 DEF SyncInv
    <3>2. s.flight = runs[active].flight /\ s.failed = runs[active].failed
          /\ s.state = runs[active].state
      BY <1>1, <3>1 DEF RunRec
    <3>3. runs' = [runs EXCEPT ![active] = s]
      BY <1>1, <1>13, <2>2, <3>1 DEF PauseSignal, Cancelled
    <3> HIDE DEF s
    <3> QED BY <3>1, <3>2, <3>3, OneEvolves DEF Evolves
  <2> QED BY <2>1, <2>2
<1>14. ASSUME NEW c \in Clients, NEW r \in Runs, ResumeSave(c, r) PROVE Goal
  BY <1>2, <1>4, <1>14 DEF ResumeSave
<1>15. CASE SyncRestart
  BY <1>15 DEF SyncRestart, Evolves
<1>16. CASE DeleteSync \/ UNCHANGED syncVars
  BY <1>2, <1>16 DEF DeleteSync, syncVars
<1> QED BY <1>5, <1>6, <1>7, <1>8, <1>9, <1>10, <1>11, <1>12, <1>13, <1>14, <1>15, <1>16
        DEF SyncNext, SyncRun, RunSteps, CallReturns

(* A run says "error" only when it has failed, and never has more workers than *)
(* it is allowed.                                                              *)
Served(s) ==
  /\ s.state = "error" => s.failed
  /\ IsFiniteSet(s.flight) /\ Cardinality(s.flight) <= MaxConcurrency
SlotsInv == \A r \in Runs : Served(runs[r])

LEMMA OffServed == Served(Off)
<1>1. IsFiniteSet({}) /\ Cardinality({}) = 0 /\ MaxConcurrency \in Nat
  BY FS_EmptySet, SyncAssumption
<1> QED BY <1>1 DEF Served, Off

LEMMA EvolvesServed ==
  ASSUME NEW s, NEW t, Served(s), Evolves(s, t) PROVE Served(t)
<1>1. MaxConcurrency \in Nat /\ Cardinality(s.flight) \in Nat
  BY SyncAssumption, FS_CardinalityType DEF Served
<1>2. CASE t = Off
  BY <1>2, OffServed
<1>3. CASE t.flight = s.flight /\ t.failed = s.failed /\ t.state \in {s.state, "running"}
  BY <1>3 DEF Served
<1>4. ASSUME NEW o \in SyncObjs, t.flight = s.flight \cup {o},
             Cardinality(s.flight) < MaxConcurrency, t.failed = s.failed, t.state = s.state
      PROVE  Served(t)
  <2>1. IsFiniteSet(t.flight)
        /\ Cardinality(t.flight) \in {Cardinality(s.flight), Cardinality(s.flight) + 1}
    BY <1>4, FS_AddElement DEF Served
  <2> QED BY <1>1, <1>4, <2>1 DEF Served
<1>5. ASSUME NEW o \in SyncObjs, t.flight = s.flight \ {o},
             t.failed \/ (t.failed = s.failed /\ t.state = s.state)
      PROVE  Served(t)
  <2>1. t.flight \in SUBSET s.flight
    BY <1>5
  <2>2. IsFiniteSet(t.flight) /\ Cardinality(t.flight) <= Cardinality(s.flight)
    BY <2>1, FS_Subset DEF Served
  <2>3. Cardinality(t.flight) \in Nat
    BY <2>2, FS_CardinalityType
  <2> QED BY <1>1, <1>5, <2>2, <2>3 DEF Served
<1> QED BY <1>2, <1>3, <1>4, <1>5 DEF Evolves

(* "so a cancelled run isn't wedged waiting for a worker slot": no run has more *)
(* workers than MaxConcurrency, and one that is copying has a worker at work,  *)
(* or an object and a free slot for it, or nothing left to wait for - paused,  *)
(* cancelled, failing or not, and whatever other runs of the job are doing.    *)
NeverWedged ==
  \A r \in Runs :
    /\ Cardinality(runs[r].flight) <= MaxConcurrency
    /\ runs[r].at = "copy" =>
         \/ AllIn(r) \/ runs[r].flight # {}
         \/ \E o \in SyncObjs : HasSlot(r, o)

(* The transfer loop never waits for a slot nobody will free: whatever workers  *)
(* finish, fail, are cancelled or panic, and for any limit and any objects.    *)
THEOREM RunsAreNotWedged == SyncSpec => []NeverWedged
<1>1. SyncInit => SyncInv /\ SlotsInv
  BY SyncInvInit, OffServed DEF SyncInit, SlotsInv
<1>2. SyncInv /\ SlotsInv /\ [SyncNext]_syncVars => (SyncInv /\ SlotsInv)'
  <2> SUFFICES ASSUME SyncInv, SlotsInv, [SyncNext]_syncVars PROVE SyncInv' /\ SlotsInv'
    OBVIOUS
  <2>1. \A r \in Runs : Served(runs[r]) /\ Evolves(runs[r], runs'[r])
    BY RunsEvolve DEF SlotsInv
  <2>2. \A r \in Runs : Served(runs'[r])
    BY <2>1, EvolvesServed
  <2> QED BY <2>2, SyncInvStep DEF SlotsInv, Served
<1>3. SyncInv /\ SlotsInv => NeverWedged
  <2> SUFFICES ASSUME SyncInv, SlotsInv, NEW r \in Runs
               PROVE  /\ Cardinality(runs[r].flight) <= MaxConcurrency
                      /\ runs[r].at = "copy" => AllIn(r) \/ runs[r].flight # {} \/
                                               \E o \in SyncObjs : HasSlot(r, o)
    BY DEF NeverWedged
  <2>1. runs[r] \in RunRec /\ Served(runs[r])
    BY DEF SyncInv, SlotsInv
  <2>2. ASSUME runs[r].at = "copy", runs[r].flight = {}, ~AllIn(r)
        PROVE  \E o \in SyncObjs : HasSlot(r, o)
    <3>1. runs[r].todo # {} /\ ~Stopped(r) /\ ~runs[r].failed
      BY <2>2 DEF AllIn
    <3>2. Cardinality(runs[r].flight) < MaxConcurrency
      BY <2>2, FS_EmptySet, SyncAssumption
    <3>3. PICK o \in SyncObjs : o \in runs[r].todo
      BY <2>1, <3>1 DEF RunRec
    <3> QED BY <2>1, <2>2, <3>1, <3>2, <3>3 DEF HasSlot, Served
  <2> QED BY <2>1, <2>2 DEF Served
<1> QED BY <1>1, <1>2, <1>3, PTL DEF SyncSpec
--------------------------------------------------------------------------------
(* BackupRuns.                                                                 *)
TaskRec == [at : {"off", "get", "copy", "stalled", "prune"}, slot : BOOLEAN,
            ts : Times, todo : SUBSET Contents, prune : SUBSET Times]
EditRec == [at : {"idle", "get", "take", "add"}, got : 0..MaxSchedules]

(* What the store asks for is a schedule, and asks nothing when it is empty.   *)
LEMMA WantedType ==
  ASSUME NEW b \in Rows \cup {NoBackup} PROVE Wanted(b) \in 0..MaxSchedules
<1>1. 0 \in 0..MaxSchedules
  BY BackupAssumption
<1> QED BY <1>1 DEF Wanted, Rows

LEMMA ConstTypes ==
  /\ NoTask \in TaskRec /\ NoTask.at = "off"
  /\ [at |-> "idle", got |-> 0] \in EditRec
  /\ 0 \in 0..MaxSchedules /\ 0 \in Times
  /\ \A t \in Times : t \in Nat
<1>1. 0 \in 0..MaxSchedules /\ 0 \in Times
  BY BackupAssumption DEF Times
<1> QED BY <1>1 DEF NoTask, TaskRec, EditRec, Times

(* The newest snapshot, when it is not from the future, is never pruned: the   *)
(* policy keeps at least one period of one cadence, and the snapshot is the    *)
(* latest of the current one.                                                  *)
LEMMA NewestIsKept ==
  ASSUME NEW found \in SUBSET Times, NEW now \in Times, \A u \in found : u <= now
  PROVE  now \notin PlanPrune(found, now)
<1> SUFFICES ASSUME now \in found PROVE now \in Kept(found, now)
  BY DEF PlanPrune
<1>1. PICK c \in Cadences : c.len \in Nat \ {0} /\ c.keep \in Nat /\ c.keep > 0
  BY BackupAssumption
<1>2. now \div c.len \in Nat
  BY <1>1 DEF Times
<1>3. InWindow(now \div c.len, now, c)
  BY <1>1, <1>2 DEF InWindow
<1>4. now \in LatestOf(found, now \div c.len, c.len)
  BY DEF LatestOf
<1> QED BY <1>1, <1>3, <1>4 DEF Kept

--------------------------------------------------------------------------------
(* Retention. Later moments are in the same period or in later ones.           *)
LEMMA DivBounds ==
  ASSUME NEW a \in Nat, NEW n \in Nat \ {0}
  PROVE  a \div n \in Nat /\ n * (a \div n) <= a /\ a < n * (a \div n) + n
OBVIOUS

LEMMA DivMonotonic ==
  ASSUME NEW a \in Nat, NEW b \in Nat, NEW n \in Nat \ {0}, a <= b
  PROVE  a \div n <= b \div n
<1> DEFINE p == a \div n
           q == b \div n
<1>1. p \in Nat /\ q \in Nat /\ n * p <= a /\ b < n * q + n
  BY DivBounds
<1> HIDE DEF p, q
<1>2. SUFFICES ASSUME q < p PROVE FALSE
  BY <1>1 DEF p, q
<1>3. PICK k \in Nat : p = q + 1 + k
  <2>1. p - q - 1 \in Nat /\ p = q + 1 + (p - q - 1)
    BY <1>1, <1>2
  <2> QED BY <2>1
<1>4. n * p = n * q + n + n * k
  BY <1>1, <1>3
<1>5. n * k \in Nat
  OBVIOUS
<1> QED BY <1>1, <1>4, <1>5

LEMMA CadenceTypes ==
  ASSUME NEW c \in Cadences
  PROVE  /\ c.len \in Nat \ {0} /\ c.keep \in Nat
         /\ \A t \in Times : t \in Nat /\ t \div c.len \in Nat
<1>1. c.len \in Nat \ {0} /\ c.keep \in Nat
  BY BackupAssumption
<1> QED BY <1>1, DivBounds DEF Times

(* A period that the window still holds later is in it now, once it has come.  *)
LEMMA WindowsClose ==
  ASSUME NEW c \in Cadences, NEW t \in Times, NEW now \in Times, NEW later \in Times,
         t <= now, now <= later, InWindow(t \div c.len, later, c)
  PROVE  InWindow(t \div c.len, now, c)
<1>1. t \div c.len <= now \div c.len /\ now \div c.len <= later \div c.len
  BY CadenceTypes, DivMonotonic
<1>2. {t \div c.len, now \div c.len, later \div c.len, c.keep} \subseteq Nat
  BY CadenceTypes
<1> QED BY <1>1, <1>2 DEF InWindow

(* What the policy gives up it never wants back, whatever is written since.    *)
LEMMA GivenUp ==
  ASSUME NEW found \in SUBSET Times, NEW all \in SUBSET Times, found \subseteq all,
         NEW now \in Times, NEW later \in Times, now <= later,
         NEW t \in found, t \notin Kept(found, now)
  PROVE  t \notin Kept(all, later)
<1> SUFFICES ASSUME t \in Kept(all, later) PROVE FALSE
  OBVIOUS
<1>1. t \in Nat /\ now \in Nat /\ later \in Nat /\ ~(t > now)
  BY ConstTypes DEF Kept
<1>2. PICK c \in Cadences :
        InWindow(t \div c.len, later, c) /\ t \in LatestOf(all, t \div c.len, c.len)
  BY <1>1 DEF Kept
<1>3. InWindow(t \div c.len, now, c)
  BY <1>1, <1>2, WindowsClose
<1>4. t \in LatestOf(found, t \div c.len, c.len)
  BY <1>2 DEF LatestOf
<1> QED BY <1>3, <1>4 DEF Kept

LEMMA HasNewest ==
  ASSUME NEW S \in SUBSET Times, S # {}
  PROVE  \E m \in S : \A t \in S : t <= m
<1> DEFINE back == {MaxClock - t : t \in S}
<1>1. MaxClock \in Nat /\ \A t \in S : t \in Nat /\ MaxClock - t \in Nat
  BY BackupAssumption DEF Times
<1>2. back \subseteq Nat /\ back # {}
  BY <1>1
<1>3. PICK k \in back : \A j \in back : ~(<<j, k>> \in OpToRel(<, Nat))
  BY <1>2, NatLessThanWellFounded, WFMin
<1>4. \A j \in back : ~(j < k)
  BY <1>2, <1>3 DEF OpToRel
<1>5. PICK m \in S : k = MaxClock - m
  BY <1>3
<1>6. ASSUME NEW t \in S PROVE t <= m
  <2>1. ~(MaxClock - t < MaxClock - m)
    BY <1>4, <1>5
  <2>2. MaxClock \in Nat /\ t \in Nat /\ m \in Nat
    BY <1>1, <1>5
  <2> HIDE DEF back
  <2> QED BY <2>1, <2>2
<1> QED BY <1>5, <1>6

(* Pruning at every run keeps what pruning once, later, would have kept: no    *)
(* snapshot that a longer cadence will want is lost to a shorter one, and how  *)
(* often the backup ran in between makes no difference.                        *)
THEOREM PruningIsIncremental ==
  ASSUME NEW found \in SUBSET Times, NEW now \in Times, NEW later \in Times, now <= later,
         NEW new \in SUBSET Times, \A t \in new : t > now
  PROVE  Kept(Kept(found, now) \cup new, later) = Kept(found \cup new, later)
<1> DEFINE some == Kept(found, now) \cup new
           all == found \cup new
<1>1. some \subseteq all /\ all \subseteq Times
  BY DEF Kept
<1>2. \A t \in all \ some : t \in found /\ t \notin Kept(found, now) /\ t \notin Kept(all, later)
  BY GivenUp
<1>3. now \in Nat /\ later \in Nat /\ \A t \in all : t \in Nat
  BY <1>1, ConstTypes
<1>4. ASSUME NEW t \in Kept(all, later) PROVE t \in Kept(some, later)
  <2>1. t \in some
    BY <1>2 DEF Kept
  <2>2. ASSUME NEW c \in Cadences, t \in LatestOf(all, t \div c.len, c.len)
        PROVE  t \in LatestOf(some, t \div c.len, c.len)
    BY <1>1, <2>1, <2>2 DEF LatestOf
  <2> QED BY <2>1, <2>2 DEF Kept
<1>5. ASSUME NEW t \in Kept(some, later) PROVE t \in Kept(all, later)
  <2>1. t \in some /\ t \in all
    BY <1>1 DEF Kept
  <2>2. CASE t > later
    BY <2>1, <2>2 DEF Kept
  <2>3. CASE ~(t > later)
    <3>1. PICK c \in Cadences :
            InWindow(t \div c.len, later, c) /\ t \in LatestOf(some, t \div c.len, c.len)
      BY <2>3 DEF Kept
    <3> DEFINE same == {u \in all : u \div c.len = t \div c.len}
    <3>2. PICK m \in same : \A u \in same : u <= m
      BY <1>1, <2>1, HasNewest
    <3>3. m \in LatestOf(all, t \div c.len, c.len) /\ t <= m /\ m \in all
      BY <2>1, <3>2 DEF LatestOf
    <3>4. m \in some
      <4>1. CASE m \in new
        BY <4>1
      <4>2. CASE m > now /\ m \in found
        BY <4>2 DEF Kept
      <4>3. CASE ~(m > now) /\ m \in found
        <5>1. m <= now /\ m \div c.len = t \div c.len
          BY <1>3, <3>2, <4>3
        <5>2. InWindow(m \div c.len, now, c)
          BY <1>1, <3>1, <3>3, <5>1, WindowsClose
        <5>3. m \in LatestOf(found, m \div c.len, c.len)
          BY <3>3, <4>3, <5>1 DEF LatestOf
        <5> QED BY <4>3, <5>2, <5>3 DEF Kept
      <4> QED BY <3>3, <4>1, <4>2, <4>3
    <3>5. m <= t
      BY <3>1, <3>2, <3>4 DEF LatestOf
    <3>6. t = m
      BY <1>3, <2>1, <3>3, <3>5
    <3> QED BY <2>1, <3>1, <3>3, <3>6 DEF Kept
  <2> QED BY <2>2, <2>3
<1> QED BY <1>4, <1>5

--------------------------------------------------------------------------------
(* Types.                                                                      *)
LEMMA BkTypeRead ==
  BkTypeOK <=>
    /\ row \in Rows \cup {NoBackup} /\ rowFile \in Rows \cup {NoBackup}
    /\ entry \in 0..MaxSchedules /\ running \in BOOLEAN
    /\ tasks \in [Tasks -> TaskRec] /\ edits \in [Editors -> EditRec]
    /\ snaps \in [Times -> SUBSET Contents] /\ rootObjs \subseteq Contents /\ clock \in Times
    /\ good \subseteq Times /\ doomed \subseteq Times
    /\ overlapped \in BOOLEAN /\ crossed \in BOOLEAN
BY DEF BkTypeOK, TaskRec, EditRec

LEMMA BkTypeInit == BkInit => BkTypeOK
<1> SUFFICES ASSUME BkInit PROVE BkTypeOK
  OBVIOUS
<1>1. tasks \in [Tasks -> TaskRec] /\ edits \in [Editors -> EditRec]
  BY ConstTypes DEF BkInit
<1>2. snaps \in [Times -> SUBSET Contents]
  BY DEF BkInit
<1> QED BY <1>1, <1>2, ConstTypes, BkTypeRead DEF BkInit

(* The forms a task takes.                                                     *)
LEMMA TaskForms ==
  ASSUME BkTypeOK, NEW r \in Tasks
  PROVE  /\ tasks[r] \in TaskRec
         /\ \A slot \in BOOLEAN : [NoTask EXCEPT !.at = "get", !.slot = slot] \in TaskRec
         /\ [tasks[r] EXCEPT !.at = "copy", !.ts = clock, !.todo = Contents] \in TaskRec
         /\ \A o : [tasks[r] EXCEPT !.todo = tasks[r].todo \ {o}] \in TaskRec
         /\ [tasks[r] EXCEPT !.at = "stalled"] \in TaskRec
         /\ \A dead \in SUBSET Times : [tasks[r] EXCEPT !.at = "prune", !.prune = dead] \in TaskRec
         /\ \A t : [tasks[r] EXCEPT !.prune = tasks[r].prune \ {t}] \in TaskRec
<1>1. tasks[r] \in TaskRec /\ clock \in Times
  BY DEF BkTypeOK, TaskRec
<1> QED BY <1>1, ConstTypes DEF TaskRec, NoTask

LEMMA BkTypeStep == BkTypeOK /\ [BkNext]_bkVars => BkTypeOK'
<1> SUFFICES ASSUME BkTypeOK, [BkNext]_bkVars PROVE BkTypeOK'
  OBVIOUS
<1> DEFINE Same == UNCHANGED <<row, entry, edits, crossed>>
<1>1. /\ row \in Rows \cup {NoBackup} /\ rowFile \in Rows \cup {NoBackup}
      /\ entry \in 0..MaxSchedules /\ running \in BOOLEAN
      /\ tasks \in [Tasks -> TaskRec] /\ edits \in [Editors -> EditRec]
      /\ snaps \in [Times -> SUBSET Contents] /\ rootObjs \subseteq Contents /\ clock \in Times
      /\ good \subseteq Times /\ doomed \subseteq Times
      /\ overlapped \in BOOLEAN /\ crossed \in BOOLEAN
  BY BkTypeRead
<1>2. ASSUME /\ row' \in Rows \cup {NoBackup} /\ rowFile' \in Rows \cup {NoBackup}
             /\ entry' \in 0..MaxSchedules /\ running' \in BOOLEAN
             /\ tasks' \in [Tasks -> TaskRec] /\ edits' \in [Editors -> EditRec]
             /\ snaps' \in [Times -> SUBSET Contents] /\ rootObjs' \subseteq Contents
             /\ clock' \in Times /\ good' \subseteq Times /\ doomed' \subseteq Times
             /\ overlapped' \in BOOLEAN /\ crossed' \in BOOLEAN
      PROVE  BkTypeOK'
  BY <1>2 DEF BkTypeOK, TaskRec, EditRec
<1>3. CASE Tick
  <2>1. clock' \in Times
    BY <1>1, <1>3, BackupAssumption DEF Tick, Times
  <2> QED BY <1>1, <1>2, <1>3, <2>1 DEF Tick
<1>4. CASE BackupRestart
  <2>1. tasks' \in [Tasks -> TaskRec] /\ edits' \in [Editors -> EditRec]
    BY <1>4, ConstTypes DEF BackupRestart
  <2>2. entry' \in 0..MaxSchedules /\ running' \in BOOLEAN /\ crossed' \in BOOLEAN
    BY <1>1, <1>4, WantedType DEF BackupRestart
  <2> QED BY <1>1, <1>2, <1>4, <2>1, <2>2 DEF BackupRestart
<1>5. ASSUME NEW b \in Rows, CreateBackup(b) PROVE BkTypeOK'
  <2>1. /\ row' \in Rows \cup {NoBackup} /\ rowFile' \in Rows \cup {NoBackup}
        /\ entry' \in 0..MaxSchedules
    BY <1>5, WantedType DEF CreateBackup
  <2> QED BY <1>1, <1>2, <1>5, <2>1 DEF CreateBackup, Copies
<1>6. ASSUME NEW e \in Editors, BkEdit(e) PROVE BkTypeOK'
  <2>1. UNCHANGED Copies
    BY <1>6 DEF BkEdit, RescheduleGet, RemoveEntry, AddEntry, DeleteBackup, UpdateBackup
  <2>2. edits[e] \in EditRec
    BY <1>1
  <2>3. ASSUME NEW at \in {"idle", "get", "take", "add"}, NEW got \in 0..MaxSchedules, Edit(e, at, got)
        PROVE  edits' \in [Editors -> EditRec]
    BY <1>1, <2>3 DEF Edit, EditRec
  <2>4. edits' \in [Editors -> EditRec]
    BY <1>1, <1>6, <2>2, <2>3, ConstTypes, WantedType
       DEF BkEdit, RescheduleGet, RemoveEntry, AddEntry, DeleteBackup, UpdateBackup, EditRec
  <2>5. /\ row' \in Rows \cup {NoBackup} /\ rowFile' \in Rows \cup {NoBackup}
        /\ entry' \in 0..MaxSchedules
    BY <1>1, <1>6, <2>2, ConstTypes
       DEF BkEdit, RescheduleGet, RemoveEntry, AddEntry, DeleteBackup, UpdateBackup, EditRec
  <2>6. crossed' \in BOOLEAN
    BY <1>1, <1>6
       DEF BkEdit, RescheduleGet, RemoveEntry, AddEntry, DeleteBackup, UpdateBackup, Crossing
  <2> QED BY <1>1, <1>2, <2>1, <2>4, <2>5, <2>6 DEF Copies
<1>7. ASSUME NEW r \in Tasks, NEW s \in TaskRec, Task(r, s)
      PROVE  tasks' \in [Tasks -> TaskRec]
  BY <1>1, <1>7 DEF Task
<1>8. ASSUME NEW r \in Tasks, Fire(r) \/ Trigger(r) PROVE BkTypeOK'
  <2>1. PICK slot \in BOOLEAN : Starts(r, slot)
    BY <1>8 DEF Fire, Trigger
  <2>2. tasks' \in [Tasks -> TaskRec]
    BY <1>7, <2>1, TaskForms DEF Starts
  <2>3. running' \in BOOLEAN /\ overlapped' \in BOOLEAN
    BY <1>1, <1>8 DEF Fire, Trigger
  <2> QED BY <1>1, <1>2, <2>1, <2>2, <2>3 DEF Starts, Handling, Registered
<1>9. ASSUME NEW r \in Tasks, Release(r), snaps' = snaps, doomed' = doomed, good' \subseteq Times,
             rowFile' \in {row, rowFile}
      PROVE  BkTypeOK'
  <2>1. tasks' \in [Tasks -> TaskRec]
    BY <1>7, <1>9, ConstTypes DEF Release
  <2>2. running' \in BOOLEAN
    BY <1>1, <1>9 DEF Release
  <2> QED BY <1>1, <1>2, <1>9, <2>1, <2>2 DEF Release, Registered
<1>10. ASSUME NEW r \in Tasks, GetRow(r) PROVE BkTypeOK'
  <2>1. CASE Release(r)
    BY <1>1, <1>9, <1>10, <2>1 DEF GetRow, Handling
  <2>2. CASE ~Release(r)
    <3>1. tasks' \in [Tasks -> TaskRec]
      BY <1>7, <1>10, <2>2, TaskForms DEF GetRow
    <3> QED BY <1>1, <1>2, <1>10, <2>2, <3>1 DEF GetRow, Handling, Registered
  <2> QED BY <2>1, <2>2
<1>11. ASSUME NEW r \in Tasks, RunFails(r) \/ RecordResult(r) PROVE BkTypeOK'
  <2>1. tasks[r].ts \in Times
    BY <1>1 DEF TaskRec
  <2>2. good' \subseteq Times
    BY <1>1, <1>11, <2>1 DEF RunFails, RecordResult
  <2> QED BY <1>9, <1>11, <2>2 DEF RunFails, RecordResult, WritesResult
<1>12. ASSUME NEW r \in Tasks, NEW o \in Contents, CopyObject(r, o) PROVE BkTypeOK'
  <2>1. tasks' \in [Tasks -> TaskRec]
    BY <1>7, <1>12, TaskForms DEF CopyObject
  <2>2. snaps' \in [Times -> SUBSET Contents] /\ rootObjs' \subseteq Contents
    BY <1>1, <1>12 DEF CopyObject
  <2> QED BY <1>1, <1>2, <1>12, <2>1, <2>2 DEF CopyObject, Handling, Registered
<1>13. ASSUME NEW r \in Tasks, Stalls(r) PROVE BkTypeOK'
  <2>1. tasks' \in [Tasks -> TaskRec]
    BY <1>7, <1>13, TaskForms DEF Stalls
  <2> QED BY <1>1, <1>2, <1>13, <2>1 DEF Stalls, Handling, Registered
<1>14. ASSUME NEW r \in Tasks, ListSnapshots(r) PROVE BkTypeOK'
  <2>1. PICK dead : dead \in {PlanPrune(Snapshots, tasks[r].ts), {}}
            /\ Task(r, [tasks[r] EXCEPT !.at = "prune", !.prune = dead]) /\ doomed' = doomed \cup dead
    BY <1>14 DEF ListSnapshots
  <2>2. dead \in SUBSET Times
    BY <2>1 DEF PlanPrune, Snapshots
  <2>3. tasks' \in [Tasks -> TaskRec]
    BY <1>7, <2>1, <2>2, TaskForms
  <2> QED BY <1>1, <1>2, <1>14, <2>1, <2>2, <2>3 DEF ListSnapshots, Handling, Registered
<1>15. ASSUME NEW r \in Tasks, NEW t \in Times, PruneNext(r, t) PROVE BkTypeOK'
  <2>1. tasks' \in [Tasks -> TaskRec]
    BY <1>7, <1>15, TaskForms DEF PruneNext
  <2> QED BY <1>1, <1>2, <1>15, <2>1 DEF PruneNext, Handling, Registered
<1>16. ASSUME NEW r \in Tasks, NEW t \in Times, NEW o \in Contents, PruneObject(r, t, o)
       PROVE  BkTypeOK'
  <2>1. snaps' \in [Times -> SUBSET Contents]
    BY <1>1, <1>16 DEF PruneObject
  <2> QED BY <1>1, <1>2, <1>16, <2>1 DEF PruneObject, Handling, Registered
<1>17. CASE UNCHANGED bkVars
  BY <1>1, <1>2, <1>17 DEF bkVars
<1>18. CASE OthersWrite
  BY <1>1, <1>2, <1>18 DEF OthersWrite, Copies
<1> QED BY <1>18, <1>3, <1>4, <1>5, <1>6, <1>8, <1>10, <1>11, <1>12, <1>13, <1>14, <1>15, <1>16, <1>17
        DEF BkNext, BkRun

--------------------------------------------------------------------------------
(* Cron and the store. While a single edit is under way it carries what the    *)
(* row asks for: "take" has read it, "add" has found the entry removed.        *)
Carries(e) ==
  /\ edits[e].at = "take" => edits[e].got = Wanted(row)
  /\ edits[e].at = "add" => entry = 0 /\ edits[e].got = Wanted(row)

CronInv ==
  ~crossed =>
    /\ \A d, e \in Editors : edits[d].at # "idle" /\ edits[e].at # "idle" => d = e
    /\ \A e \in Editors : Carries(e)
    /\ (\A e \in Editors : edits[e].at = "idle") => entry = Wanted(row)

LEMMA CronInvInit == BkInit => CronInv
BY DEF BkInit, CronInv, Carries, Wanted

(* The step of an edit that is the only one.                                   *)
LEMMA EditMoves ==
  ASSUME BkTypeOK, NEW e \in Editors, NEW at, NEW got, Edit(e, at, got),
         ~crossed' => /\ \A d \in Editors \ {e} : edits[d].at = "idle"
                      /\ at = "take" => got = Wanted(row)'
                      /\ at = "add" => entry' = 0 /\ got = Wanted(row)'
                      /\ at = "idle" => entry' = Wanted(row)'
  PROVE  CronInv'
<1>1. edits \in [Editors -> EditRec]
  BY BkTypeRead
<1>2. edits'[e].at = at /\ edits'[e].got = got /\ \A d \in Editors \ {e} : edits'[d] = edits[d]
  BY <1>1 DEF Edit
<1> QED BY <1>2 DEF CronInv, Carries

LEMMA CronInvStep == BkTypeOK /\ CronInv /\ [BkNext]_bkVars => CronInv'
<1> SUFFICES ASSUME BkTypeOK, CronInv, [BkNext]_bkVars PROVE CronInv'
  OBVIOUS
<1>1. ASSUME UNCHANGED <<row, entry, edits, crossed>> PROVE CronInv'
  BY <1>1 DEF CronInv, Carries
<1>2. CASE BackupRestart
  <2>1. entry' = Wanted(row') /\ \A e \in Editors : edits'[e].at = "idle"
    BY <1>2 DEF BackupRestart
  <2> QED BY <2>1 DEF CronInv, Carries
<1>3. ASSUME NEW b \in Rows, CreateBackup(b) PROVE CronInv'
  <2>1. row' = b /\ entry' = Wanted(row') /\ edits' = edits
        /\ \A e \in Editors : edits[e].at = "idle"
    BY <1>3 DEF CreateBackup
  <2> QED BY <2>1 DEF CronInv, Carries
<1>4. ASSUME NEW e \in Editors, edits[e].at # "idle", ~crossed
      PROVE  \A d \in Editors \ {e} : edits[d].at = "idle"
  BY <1>4 DEF CronInv
<1>5. ASSUME NEW e \in Editors, RescheduleGet(e) PROVE CronInv'
  BY <1>4, <1>5, EditMoves DEF RescheduleGet
<1>6. ASSUME NEW e \in Editors, RemoveEntry(e) PROVE CronInv'
  <2>1. ~crossed => edits[e].got = Wanted(row)
    BY <1>6 DEF RemoveEntry, CronInv, Carries
  <2> QED BY <1>4, <1>6, <2>1, EditMoves DEF RemoveEntry
<1>7. ASSUME NEW e \in Editors, AddEntry(e) PROVE CronInv'
  <2>1. ~crossed => entry = 0 /\ edits[e].got = Wanted(row)
    BY <1>7 DEF AddEntry, CronInv, Carries
  <2>2. row' = row /\ crossed' = crossed
    BY <1>7 DEF AddEntry
  <2>3. ~crossed => entry' = Wanted(row)'
    BY <1>7, <2>1, <2>2 DEF AddEntry
  <2> QED BY <1>4, <1>7, <2>2, <2>3, EditMoves DEF AddEntry
<1>8. ASSUME NEW e \in Editors, crossed' = Crossing(e), ~crossed'
      PROVE  \A d \in Editors \ {e} : edits[d].at = "idle"
  BY <1>8 DEF Crossing
<1>9. ASSUME NEW e \in Editors, DeleteBackup(e) PROVE CronInv'
  <2>1. Wanted(row)' = 0
    BY <1>9 DEF DeleteBackup, Wanted
  <2>2. CASE crossed' = TRUE
    BY <2>2 DEF CronInv
  <2>3. CASE Edit(e, "take", 0) /\ crossed' = Crossing(e)
    BY <1>8, <2>1, <2>3, EditMoves
  <2> QED BY <1>9, <2>2, <2>3 DEF DeleteBackup
<1>10. ASSUME NEW e \in Editors, NEW b \in Rows, UpdateBackup(e, b) PROVE CronInv'
  <2>1. CASE crossed' = TRUE
    BY <2>1 DEF CronInv
  <2>2. CASE Edit(e, "get", 0) /\ crossed' = Crossing(e)
    BY <1>8, <2>2, EditMoves
  <2> QED BY <1>10, <2>1, <2>2 DEF UpdateBackup
<1>11. ASSUME NEW r \in Tasks, Fire(r) \/ Trigger(r) \/ BkRun(r) \/ Stalls(r) PROVE CronInv'
  <2>1. UNCHANGED <<row, entry, edits, crossed>>
    BY <1>11 DEF Fire, Trigger, Starts, BkRun, Stalls, GetRow, RunFails, ListSnapshots,
         RecordResult, CopyObject, PruneNext, PruneObject, Release, Handling, Registered
  <2> QED BY <1>1, <2>1
<1>12. CASE Tick \/ OthersWrite \/ UNCHANGED bkVars
  BY <1>1, <1>12 DEF Tick, OthersWrite, bkVars
<1> QED BY <1>2, <1>3, <1>5, <1>6, <1>7, <1>9, <1>10, <1>11, <1>12 DEF BkNext, BkEdit

(* "the next run lands at the new layout": with no edit under way cron holds    *)
(* what the store asks for, whatever restarts, until edits overlap or one      *)
(* cannot be written.                                                          *)
THEOREM CronIsInStep == BkSpec => []CronFollowsStore
<1>1. BkInit => BkTypeOK /\ CronInv
  BY BkTypeInit, CronInvInit
<1>2. BkTypeOK /\ CronInv /\ [BkNext]_bkVars => (BkTypeOK /\ CronInv)'
  BY BkTypeStep, CronInvStep
<1>3. CronInv => CronFollowsStore
  BY DEF CronInv, CronFollowsStore
<1> QED BY <1>1, <1>2, <1>3, PTL DEF BkSpec

--------------------------------------------------------------------------------
(* Snapshots. What a run has written, held being the snapshots and now the     *)
(* clock: everything it no longer has to copy, at the newest timestamp there   *)
(* is; and from the end of the copy on all of it, and it does not prune itself.*)
Filling(t, held, now) ==
  /\ t.at \in {"copy", "stalled", "prune"} =>
       t.ts <= now /\ \A u \in Times : held[u] # {} => u <= t.ts
  /\ t.at \in {"copy", "stalled"} => Contents \ t.todo \subseteq held[t.ts]
  /\ t.at = "prune" => held[t.ts] = Contents /\ t.ts \notin t.prune

Restorable(held) == \E t \in Times : held[t] = Contents

(* Until runs overlap there is one at most, and one that has fired has the slot. *)
SnapInv ==
  ~overlapped =>
    /\ \A q, r \in Tasks : tasks[q].at # "off" /\ tasks[r].at # "off" => q = r
    /\ \A r \in Tasks : tasks[r].at # "off" /\ tasks[r].slot => running
    /\ \A r \in Tasks : Filling(tasks[r], snaps, clock)
    /\ \A u \in Times : snaps[u] # {} => u <= clock
    /\ good # {} => Restorable(snaps)

LEMMA SnapInvInit == BkInit => SnapInv
<1> SUFFICES ASSUME BkInit PROVE SnapInv
  OBVIOUS
<1>1. \A r \in Tasks : tasks[r].at = "off"
  BY ConstTypes DEF BkInit
<1>2. \A u \in Times : snaps[u] = {}
  BY DEF BkInit
<1> QED BY <1>1, <1>2 DEF SnapInv, Filling, BkInit

(* The run r, the only one until runs overlap, goes on as s.                   *)
LEMMA OneRunMoves ==
  ASSUME BkTypeOK, SnapInv, NEW r \in Tasks, NEW s, tasks' = [tasks EXCEPT ![r] = s],
         tasks[r].at # "off", overlapped' = overlapped, clock' = clock,
         ~overlapped => /\ s.at # "off" /\ s.slot => running'
                        /\ Filling(s, snaps', clock)
                        /\ \A u \in Times : snaps'[u] # {} => u <= clock
                        /\ good' # {} => Restorable(snaps')
  PROVE  SnapInv'
<1>1. tasks'[r] = s /\ \A q \in Tasks \ {r} : tasks'[q] = tasks[q]
  BY BkTypeRead
<1>2. ASSUME ~overlapped PROVE \A q \in Tasks \ {r} : tasks'[q].at = "off"
  BY <1>1, <1>2 DEF SnapInv
<1>3. \A q \in Tasks \ {r} : tasks'[q].at = "off" => Filling(tasks'[q], snaps', clock')
  BY DEF Filling
<1> QED BY <1>1, <1>2, <1>3 DEF SnapInv, Filling, Restorable

LEMMA SnapInvStep == ~WholeBucket /\ BkTypeOK /\ SnapInv /\ [BkNext]_bkVars => SnapInv'
<1> SUFFICES ASSUME ~WholeBucket, BkTypeOK, SnapInv, [BkNext]_bkVars PROVE SnapInv'
  OBVIOUS
<1> USE BkTypeRead
<1>1. ASSUME UNCHANGED <<running, tasks, snaps, clock, good, overlapped>> PROVE SnapInv'
  BY <1>1 DEF SnapInv, Filling, Restorable
<1>2. CASE Tick
  <2>1. clock' = clock + 1 /\ clock \in Nat /\ UNCHANGED <<running, tasks, snaps, good, overlapped>>
    BY <1>2, ConstTypes DEF Tick
  <2>2. \A t \in Nat : t <= clock => t <= clock'
    BY <2>1
  <2>3. \A r \in Tasks : tasks[r].ts \in Nat
    BY ConstTypes DEF TaskRec
  <2>4. \A r \in Tasks : Filling(tasks[r], snaps, clock) => Filling(tasks[r], snaps, clock')
    BY <2>2, <2>3 DEF Filling
  <2> QED BY <2>1, <2>2, <2>4, ConstTypes DEF SnapInv, Filling, Restorable
<1>3. CASE BackupRestart
  <2>1. \A r \in Tasks : tasks'[r].at = "off"
    BY <1>3, ConstTypes DEF BackupRestart
  <2>2. UNCHANGED <<snaps, clock, good, overlapped>>
    BY <1>3 DEF BackupRestart
  <2> QED BY <2>1, <2>2 DEF SnapInv, Filling, Restorable
<1>4. ASSUME NEW r \in Tasks, NEW slot \in BOOLEAN, Starts(r, slot), overlapped => overlapped',
             ~overlapped' => (\A q \in Tasks : tasks[q].at = "off") /\ (slot => running')
      PROVE  SnapInv'
  <2> DEFINE s == [NoTask EXCEPT !.at = "get", !.slot = slot]
  <2>1. tasks' = [tasks EXCEPT ![r] = s] /\ UNCHANGED <<snaps, clock, good>>
    BY <1>4 DEF Starts, Task
  <2>2. tasks'[r] = s /\ \A q \in Tasks \ {r} : tasks'[q] = tasks[q]
    BY <2>1
  <2>3. s.at = "get" /\ s.slot = slot
    BY DEF NoTask
  <2> HIDE DEF s
  <2>4. Filling(s, snaps, clock)
    BY <2>3 DEF Filling
  <2> QED BY <1>4, <2>1, <2>2, <2>3, <2>4 DEF SnapInv, Filling, Restorable
<1>5. ASSUME NEW r \in Tasks, Fire(r) PROVE SnapInv'
  <2>1. overlapped' = (overlapped \/ \E q \in Busy : ~tasks[q].slot) /\ ~running /\ running'
        /\ Starts(r, TRUE)
    BY <1>5 DEF Fire
  <2>2. ~overlapped' => \A q \in Tasks : tasks[q].at = "off"
    BY <2>1 DEF Busy, SnapInv
  <2> QED BY <1>4, <2>1, <2>2
<1>6. ASSUME NEW r \in Tasks, Trigger(r) PROVE SnapInv'
  BY <1>4, <1>6 DEF Trigger, Busy
<1>7. ASSUME NEW r \in Tasks, tasks[r].at # "off", Release(r), snaps' = snaps,
             ~overlapped /\ good' # {} => Restorable(snaps)
      PROVE  SnapInv'
  <2>1. Filling(NoTask, snaps', clock)
    BY ConstTypes DEF Filling
  <2> QED BY <1>7, <2>1, ConstTypes, OneRunMoves DEF Release, Task, SnapInv
<1>8. ASSUME NEW r \in Tasks, GetRow(r) PROVE SnapInv'
  <2>1. tasks[r].at = "get"
    BY <1>8 DEF GetRow
  <2>2. CASE Release(r)
    BY <1>7, <1>8, <2>1, <2>2 DEF GetRow, SnapInv
  <2>3. CASE ~Release(r)
    <3> DEFINE s == [tasks[r] EXCEPT !.at = "copy", !.ts = clock, !.todo = Contents]
    <3>1. tasks' = [tasks EXCEPT ![r] = s] /\ UNCHANGED <<running, snaps, clock, good, overlapped>>
      BY <1>8, <2>3 DEF GetRow, Task
    <3>2. tasks[r] \in TaskRec
      OBVIOUS
    <3>3. s.at = "copy" /\ s.ts = clock /\ s.todo = Contents /\ s.slot = tasks[r].slot
      BY <3>2 DEF TaskRec
    <3> HIDE DEF s
    <3>4. ~overlapped => Filling(s, snaps', clock)
      BY <3>1, <3>3, ConstTypes DEF Filling, SnapInv
    <3> QED BY <2>1, <3>1, <3>3, <3>4, OneRunMoves DEF SnapInv
  <2> QED BY <2>2, <2>3
<1>9. ASSUME NEW r \in Tasks, RunFails(r) PROVE SnapInv'
  BY <1>7, <1>9 DEF RunFails, SnapInv
<1>10. ASSUME NEW r \in Tasks, RecordResult(r) PROVE SnapInv'
  <2>1. ~overlapped => Restorable(snaps)
    BY <1>10 DEF RecordResult, SnapInv, Filling, Restorable, TaskRec
  <2> QED BY <1>7, <1>10, <2>1 DEF RecordResult
<1>11. ASSUME NEW r \in Tasks, NEW o \in Contents, CopyObject(r, o) PROVE SnapInv'
  <2> DEFINE s == [tasks[r] EXCEPT !.todo = tasks[r].todo \ {o}]
  <2>1. tasks[r].at = "copy" /\ tasks' = [tasks EXCEPT ![r] = s]
        /\ UNCHANGED <<running, clock, good, overlapped>>
        /\ snaps' = [snaps EXCEPT ![tasks[r].ts] = snaps[tasks[r].ts] \cup {o}]
    BY <1>11 DEF CopyObject, Task
  <2>2. tasks[r] \in TaskRec
    OBVIOUS
  <2>3. s.at = "copy" /\ s.ts = tasks[r].ts /\ s.todo = tasks[r].todo \ {o} /\ s.slot = tasks[r].slot
        /\ s.ts \in Times
    BY <2>1, <2>2 DEF TaskRec
  <2> HIDE DEF s
  <2>4. snaps'[s.ts] = snaps[s.ts] \cup {o} /\ \A u \in Times \ {s.ts} : snaps'[u] = snaps[u]
    BY <2>1, <2>3
  <2>5. ~overlapped => s.ts <= clock /\ (\A u \in Times : snaps[u] # {} => u <= s.ts)
                        /\ Contents \ tasks[r].todo \subseteq snaps[s.ts]
    BY <2>1, <2>3 DEF SnapInv, Filling
  <2>6. s.ts <= s.ts
    BY <2>3, ConstTypes
  <2>7. ~overlapped => Filling(s, snaps', clock) /\ \A u \in Times : snaps'[u] # {} => u <= clock
    BY <2>3, <2>4, <2>5, <2>6 DEF Filling, SnapInv
  <2>8. Restorable(snaps) => Restorable(snaps')
    <3>1. ASSUME NEW t \in Times, snaps[t] = Contents PROVE snaps'[t] = Contents
      <4>1. CASE t = s.ts
        <5>1. snaps'[t] = Contents \cup {o}
          BY <2>4, <3>1, <4>1
        <5> QED BY <5>1
      <4>2. CASE t # s.ts
        BY <2>4, <3>1, <4>2
      <4> QED BY <4>1, <4>2
    <3> QED BY <3>1 DEF Restorable
  <2> QED BY <2>1, <2>3, <2>7, <2>8, OneRunMoves DEF SnapInv
<1>12. ASSUME NEW r \in Tasks, Stalls(r) PROVE SnapInv'
  <2> DEFINE s == [tasks[r] EXCEPT !.at = "stalled"]
  <2>1. tasks[r].at = "copy" /\ tasks' = [tasks EXCEPT ![r] = s]
        /\ UNCHANGED <<running, clock, good, overlapped, snaps>>
    BY <1>12 DEF Stalls, Task
  <2>2. tasks[r] \in TaskRec
    OBVIOUS
  <2>3. s.at = "stalled" /\ s.ts = tasks[r].ts /\ s.todo = tasks[r].todo /\ s.slot = tasks[r].slot
    BY <2>2 DEF TaskRec
  <2> HIDE DEF s
  <2>4. ~overlapped => Filling(s, snaps', clock)
    BY <2>1, <2>3 DEF Filling, SnapInv
  <2> QED BY <2>1, <2>3, <2>4, OneRunMoves DEF SnapInv
<1>13. ASSUME NEW r \in Tasks, ListSnapshots(r) PROVE SnapInv'
  <2>1. PICK dead : dead \in {PlanPrune(Snapshots, tasks[r].ts), {}}
            /\ Task(r, [tasks[r] EXCEPT !.at = "prune", !.prune = dead])
    BY <1>13 DEF ListSnapshots
  <2> DEFINE s == [tasks[r] EXCEPT !.at = "prune", !.prune = dead]
  <2>2. tasks[r].at = "copy" /\ tasks[r].todo = {} /\ tasks' = [tasks EXCEPT ![r] = s]
        /\ UNCHANGED <<running, clock, good, overlapped, snaps>>
    BY <1>13, <2>1 DEF ListSnapshots, Task
  <2>3. tasks[r] \in TaskRec
    OBVIOUS
  <2>4. s.at = "prune" /\ s.ts = tasks[r].ts /\ s.prune = dead /\ s.slot = tasks[r].slot
        /\ s.ts \in Times
    BY <2>3 DEF TaskRec
  <2> HIDE DEF s
  <2>5. ASSUME ~overlapped PROVE Filling(s, snaps', clock)
    <3>1. s.ts <= clock /\ \A u \in Times : snaps[u] # {} => u <= s.ts
      BY <2>2, <2>4, <2>5 DEF SnapInv, Filling
    <3>2. snaps[s.ts] = Contents
      BY <2>2, <2>4, <2>5 DEF SnapInv, Filling
    <3>3. s.ts \notin dead
      <4>1. Snapshots \in SUBSET Times /\ \A u \in Snapshots : u <= s.ts
        BY <3>1 DEF Snapshots
      <4> QED BY <2>1, <2>4, <4>1, NewestIsKept
    <3> QED BY <2>2, <2>4, <3>1, <3>2, <3>3 DEF Filling
  <2> QED BY <2>2, <2>4, <2>5, OneRunMoves DEF SnapInv
<1>14. ASSUME NEW r \in Tasks, NEW t \in Times, PruneNext(r, t) PROVE SnapInv'
  <2> DEFINE s == [tasks[r] EXCEPT !.prune = tasks[r].prune \ {t}]
  <2>1. tasks[r].at = "prune" /\ tasks' = [tasks EXCEPT ![r] = s]
        /\ UNCHANGED <<running, clock, good, overlapped, snaps>>
    BY <1>14 DEF PruneNext, Task
  <2>2. tasks[r] \in TaskRec
    OBVIOUS
  <2>3. s.at = "prune" /\ s.ts = tasks[r].ts /\ s.prune = tasks[r].prune \ {t}
        /\ s.slot = tasks[r].slot
    BY <2>1, <2>2 DEF TaskRec
  <2> HIDE DEF s
  <2>4. ~overlapped => Filling(s, snaps', clock)
    BY <2>1, <2>3 DEF Filling, SnapInv
  <2> QED BY <2>1, <2>3, <2>4, OneRunMoves DEF SnapInv
<1>15. ASSUME NEW r \in Tasks, NEW t \in Times, NEW o \in Contents, PruneObject(r, t, o)
       PROVE  SnapInv'
  <2>1. tasks[r].at = "prune" /\ t \in tasks[r].prune /\ tasks' = tasks
        /\ UNCHANGED <<running, clock, good, overlapped>>
        /\ snaps' = [snaps EXCEPT ![t] = snaps[t] \ {o}]
    BY <1>15 DEF PruneObject
  <2>2. tasks[r] \in TaskRec /\ tasks' = [tasks EXCEPT ![r] = tasks[r]] /\ tasks[r].ts \in Times
    BY <2>1 DEF TaskRec
  <2>3. snaps'[t] = snaps[t] \ {o} /\ \A u \in Times \ {t} : snaps'[u] = snaps[u]
    BY <2>1
  <2>4. ASSUME ~overlapped
        PROVE  /\ tasks[r].ts # t /\ snaps'[tasks[r].ts] = Contents
               /\ \A u \in Times : snaps'[u] # {} => snaps[u] # {}
    BY <2>1, <2>2, <2>3, <2>4 DEF SnapInv, Filling
  <2>5. ~overlapped => Filling(tasks[r], snaps', clock) /\ Restorable(snaps')
                        /\ \A u \in Times : snaps'[u] # {} => u <= clock
    BY <2>1, <2>2, <2>4 DEF SnapInv, Filling, Restorable
  <2> QED BY <2>1, <2>2, <2>5, OneRunMoves DEF SnapInv
<1>16. ASSUME NEW e \in Editors, BkEdit(e) PROVE SnapInv'
  BY <1>1, <1>16
     DEF BkEdit, RescheduleGet, RemoveEntry, AddEntry, DeleteBackup, UpdateBackup, Copies
<1>17. CASE (\E b \in Rows : CreateBackup(b)) \/ OthersWrite \/ UNCHANGED bkVars
  BY <1>1, <1>17 DEF CreateBackup, OthersWrite, Copies, bkVars
<1> QED BY <1>2, <1>3, <1>5, <1>6, <1>8, <1>9, <1>10, <1>11, <1>12, <1>13, <1>14, <1>15, <1>16, <1>17
        DEF BkNext, BkRun

(* A run that is recorded as a success leaves its whole snapshot.              *)
LEMMA SuccessStep ==
  BkTypeOK /\ SnapInv /\ [BkNext]_bkVars =>
    [~overlapped' => \A t \in good' \ good : snaps'[t] = Contents]_bkVars
<1> SUFFICES ASSUME BkTypeOK, SnapInv, BkNext, ~overlapped', NEW t \in good' \ good
             PROVE  snaps'[t] = Contents
  OBVIOUS
<1>1. PICK r \in Tasks : RecordResult(r)
  BY DEF BkNext, BkRun, BkEdit, Tick, OthersWrite, BackupRestart, CreateBackup, Fire, Trigger, Starts, Stalls,
     GetRow, RunFails, ListSnapshots, CopyObject, PruneNext, PruneObject, RescheduleGet,
     RemoveEntry, AddEntry, DeleteBackup, UpdateBackup, Copies
<1>2. t = tasks[r].ts /\ tasks[r].at = "prune" /\ snaps' = snaps /\ overlapped' = overlapped
  BY <1>1 DEF RecordResult, Release
<1> QED BY <1>2 DEF SnapInv, Filling

(* "the snapshot itself is safe": from the first success on some snapshot is    *)
(* complete, whatever runs fail, prune by half, stall or are cut by restarts,  *)
(* as long as no run is started by hand beside another one. The backup has a   *)
(* source prefix: without one the copy goes elsewhere (SnapshotsStayInPrefix). *)
THEOREM SomeSnapshotIsWhole ==
  ASSUME ~WholeBucket
  PROVE  BkSpec => []AlwaysRestorable
<1>1. BkInit => BkTypeOK /\ SnapInv
  BY BkTypeInit, SnapInvInit
<1>2. BkTypeOK /\ SnapInv /\ [BkNext]_bkVars => (BkTypeOK /\ SnapInv)'
  BY BkTypeStep, SnapInvStep
<1>3. SnapInv => AlwaysRestorable
  BY DEF SnapInv, AlwaysRestorable, Restorable
<1> QED BY <1>1, <1>2, <1>3, PTL DEF BkSpec

(* The overlap guard of fire: under the same provisos, a run that is recorded  *)
(* as a success has left a complete snapshot.                                  *)
SuccessIsComplete ==
  [][~overlapped' => \A t \in good' \ good : snaps'[t] = Contents]_bkVars

(* For every retention policy, and any number of objects, runs and edits.      *)
THEOREM SuccessMeansWhole ==
  ASSUME ~WholeBucket
  PROVE  BkSpec => SuccessIsComplete
<1>1. BkInit => BkTypeOK /\ SnapInv
  BY BkTypeInit, SnapInvInit
<1>2. BkTypeOK /\ SnapInv /\ [BkNext]_bkVars => (BkTypeOK /\ SnapInv)'
  BY BkTypeStep, SnapInvStep
<1>3. BkTypeOK /\ SnapInv /\ [BkNext]_bkVars =>
        [~overlapped' => \A t \in good' \ good : snaps'[t] = Contents]_bkVars
  BY SuccessStep
<1> QED BY <1>1, <1>2, <1>3, PTL DEF BkSpec, SuccessIsComplete

--------------------------------------------------------------------------------
(* Retention, whatever overlaps. What a run answers for, held being the         *)
(* snapshots, gone those that some run has decided to prune, now the clock:    *)
(* it deletes what is gone, and unless its own is, everything it no longer has *)
(* to copy is there.                                                           *)
Answers(t, held, gone, now) ==
  /\ t.prune \subseteq gone
  /\ t.at \in {"copy", "stalled", "prune"} => t.ts <= now
  /\ t.at \in {"copy", "stalled"} => t.ts \in gone \/ Contents \ t.todo \subseteq held[t.ts]
  /\ t.at = "prune" => t.ts \in gone \/ held[t.ts] = Contents

RetInv == (\A r \in Tasks : Answers(tasks[r], snaps, doomed, clock)) /\ RetentionIsHonoured

LEMMA RetInvInit == BkInit => RetInv
<1> SUFFICES ASSUME BkInit PROVE RetInv
  OBVIOUS
<1>1. \A r \in Tasks : tasks[r].at = "off" /\ tasks[r].prune = {}
  BY DEF BkInit, NoTask
<1> QED BY <1>1 DEF RetInv, Answers, RetentionIsHonoured, BkInit

LEMMA AnswersStay ==
  ASSUME NEW t \in TaskRec, NEW held, NEW bigger \in [Times -> SUBSET Contents],
         NEW gone, NEW more, gone \subseteq more, NEW now \in Nat, NEW later \in Nat,
         now <= later, \A u \in Times \ more : held[u] \subseteq bigger[u],
         Answers(t, held, gone, now)
  PROVE  Answers(t, bigger, more, later)
<1>1. t.ts \in Times /\ (\A u \in Times : u \in Nat)
  BY ConstTypes DEF TaskRec
<1>2. t.ts <= now => t.ts <= later
  BY <1>1
<1>3. t.ts \in more \/ held[t.ts] \subseteq bigger[t.ts]
  BY <1>1
<1>4. bigger[t.ts] \subseteq Contents
  BY <1>1
<1> QED BY <1>2, <1>3, <1>4 DEF Answers

(* Snapshots only grow until they are gone, and what goes is what the policy,  *)
(* at some moment so far, had given up.                                        *)
LEMMA RetStays ==
  ASSUME BkTypeOK, BkTypeOK', RetInv, doomed \subseteq doomed', clock <= clock',
         \A t \in Times \ doomed' : snaps[t] \subseteq snaps'[t],
         \A t \in doomed' \ doomed :
           t \in Snapshots /\ \E now \in Times : now <= clock /\ t \notin Kept(Snapshots, now),
         \A t \in good' \ good : t \in doomed' \/ snaps'[t] = Contents,
         \A r \in Tasks : tasks'[r] = tasks[r] \/ Answers(tasks'[r], snaps', doomed', clock')
  PROVE  RetInv'
<1>1. /\ clock \in Times /\ clock' \in Times /\ doomed' \subseteq Times /\ good \subseteq Times
      /\ snaps \in [Times -> SUBSET Contents] /\ snaps' \in [Times -> SUBSET Contents]
  BY DEF BkTypeOK
<1>2. Begun \subseteq Begun' /\ Begun' \subseteq Times
  BY <1>1 DEF Begun, Snapshots
<1>3. ASSUME NEW t \in doomed' PROVE t \notin Kept(Begun', clock')
  <2>1. CASE t \in doomed
    BY <1>1, <1>2, <2>1, GivenUp DEF RetInv, RetentionIsHonoured, Begun
  <2>2. CASE t \notin doomed
    <3>1. PICK now \in Times : now <= clock /\ t \in Snapshots /\ t \notin Kept(Snapshots, now)
      BY <2>2
    <3>2. now <= clock' /\ Snapshots \subseteq Begun' /\ Snapshots \subseteq Times
      BY <1>1, <1>2, <3>1, ConstTypes DEF Begun, Snapshots
    <3> QED BY <1>1, <1>2, <3>1, <3>2, GivenUp
  <2> QED BY <2>1, <2>2
<1>4. \A t \in good' \ doomed' : snaps'[t] = Contents
  <2>1. ASSUME NEW t \in good, t \notin doomed' PROVE snaps'[t] = Contents
    BY <1>1, <2>1 DEF RetInv, RetentionIsHonoured
  <2> QED BY <2>1
<1>5. ASSUME NEW r \in Tasks, tasks'[r] = tasks[r]
      PROVE  Answers(tasks'[r], snaps', doomed', clock')
  <2>1. tasks[r] \in TaskRec /\ clock \in Nat /\ clock' \in Nat
    BY <1>1, BkTypeRead, ConstTypes
  <2>2. Answers(tasks[r], snaps, doomed, clock)
    BY DEF RetInv
  <2>3. Answers(tasks[r], snaps', doomed', clock')
    BY <1>1, <2>1, <2>2, AnswersStay
  <2> QED BY <1>5, <2>3
<1>6. \A r \in Tasks : Answers(tasks'[r], snaps', doomed', clock')
  BY <1>5
<1> QED BY <1>3, <1>4, <1>6 DEF RetInv, RetentionIsHonoured, Answers, Begun

(* A step that moves one run and leaves the snapshots, and what is gone, alone. *)
LEMMA RetRun ==
  ASSUME BkTypeOK, BkTypeOK', RetInv, NEW r \in Tasks, NEW s, tasks' = [tasks EXCEPT ![r] = s],
         UNCHANGED <<snaps, doomed, clock>>, Answers(s, snaps, doomed, clock),
         \A t \in good' \ good : t \in doomed \/ snaps[t] = Contents
  PROVE  RetInv'
<1>1. tasks'[r] = s /\ \A q \in Tasks \ {r} : tasks'[q] = tasks[q]
  BY BkTypeRead
<1>a. clock \in Times /\ clock' = clock
  BY DEF BkTypeOK
<1>2. clock \in Nat /\ clock' = clock
  BY <1>a, ConstTypes
<1>3. clock <= clock'
  BY <1>2
<1> QED BY <1>1, <1>3, RetStays

LEMMA RetInvStep == ~WholeBucket /\ BkTypeOK /\ RetInv /\ [BkNext]_bkVars => RetInv'
<1> SUFFICES ASSUME ~WholeBucket, BkTypeOK, RetInv, [BkNext]_bkVars PROVE RetInv'
  OBVIOUS
<1> USE BkTypeRead
<1>0. BkTypeOK'
  BY BkTypeStep
<1>a. clock \in Times /\ clock' \in Times
  BY <1>0 DEF BkTypeOK
<1>b. clock \in Nat /\ clock' \in Nat
  BY <1>a, ConstTypes
<1>1. BkTypeOK' /\ clock \in Nat /\ clock' \in Nat /\ clock <= clock
  BY <1>0, <1>b
<1>2. ASSUME UNCHANGED <<tasks, snaps, clock, good, doomed>> PROVE RetInv'
  BY <1>1, <1>2, RetStays
<1>3. CASE Tick
  <2>1. clock <= clock' /\ UNCHANGED <<tasks, snaps, good, doomed>>
    BY <1>1, <1>3 DEF Tick
  <2> QED BY <1>1, <2>1, RetStays
<1>4. Answers(NoTask, snaps, doomed, clock)
  BY DEF Answers, NoTask
<1>5. CASE BackupRestart
  <2>1. (\A r \in Tasks : tasks'[r] = NoTask) /\ UNCHANGED <<snaps, clock, good, doomed>>
    BY <1>5 DEF BackupRestart
  <2> QED BY <1>1, <1>4, <2>1, RetStays
<1>6. ASSUME NEW r \in Tasks, Fire(r) \/ Trigger(r) PROVE RetInv'
  <2>1. PICK slot \in BOOLEAN : Starts(r, slot)
    BY <1>6 DEF Fire, Trigger
  <2> DEFINE s == [NoTask EXCEPT !.at = "get", !.slot = slot]
  <2>2. tasks' = [tasks EXCEPT ![r] = s] /\ UNCHANGED <<snaps, doomed, clock, good>>
    BY <2>1 DEF Starts, Task
  <2>3. Answers(s, snaps, doomed, clock)
    BY DEF Answers, NoTask
  <2> QED BY <1>1, <2>2, <2>3, RetRun
<1>7. ASSUME NEW r \in Tasks, Release(r), snaps' = snaps, doomed' = doomed,
             \A t \in good' \ good : t \in doomed \/ snaps[t] = Contents
      PROVE  RetInv'
  BY <1>1, <1>4, <1>7, RetRun DEF Release, Task
<1>8. ASSUME NEW r \in Tasks, GetRow(r) PROVE RetInv'
  <2>1. CASE Release(r)
    BY <1>7, <1>8, <2>1 DEF GetRow
  <2>2. CASE ~Release(r)
    <3> DEFINE s == [tasks[r] EXCEPT !.at = "copy", !.ts = clock, !.todo = Contents]
    <3>1. tasks' = [tasks EXCEPT ![r] = s] /\ UNCHANGED <<snaps, doomed, clock, good>>
      BY <1>8, <2>2 DEF GetRow, Task
    <3>2. tasks[r] \in TaskRec
      OBVIOUS
    <3>3. s.at = "copy" /\ s.ts = clock /\ s.todo = Contents /\ s.prune = tasks[r].prune
      BY <3>2 DEF TaskRec
    <3> HIDE DEF s
    <3>4. Answers(s, snaps, doomed, clock)
      BY <1>1, <3>3 DEF Answers, RetInv
    <3> QED BY <1>1, <3>1, <3>4, RetRun
  <2> QED BY <2>1, <2>2
<1>9. ASSUME NEW r \in Tasks, RunFails(r) PROVE RetInv'
  BY <1>7, <1>9 DEF RunFails
<1>10. ASSUME NEW r \in Tasks, RecordResult(r) PROVE RetInv'
  <2>1. tasks[r].ts \in doomed \/ snaps[tasks[r].ts] = Contents
    BY <1>10 DEF RecordResult, RetInv, Answers
  <2> QED BY <1>7, <1>10, <2>1 DEF RecordResult
<1>11. ASSUME NEW r \in Tasks, NEW o \in Contents, CopyObject(r, o) PROVE RetInv'
  <2> DEFINE s == [tasks[r] EXCEPT !.todo = tasks[r].todo \ {o}]
  <2>1. tasks[r].at = "copy" /\ tasks' = [tasks EXCEPT ![r] = s]
        /\ UNCHANGED <<clock, good, doomed>>
        /\ snaps' = [snaps EXCEPT ![tasks[r].ts] = snaps[tasks[r].ts] \cup {o}]
    BY <1>11 DEF CopyObject, Task
  <2>2. tasks[r] \in TaskRec
    OBVIOUS
  <2>3. s.at = "copy" /\ s.ts = tasks[r].ts /\ s.todo = tasks[r].todo \ {o}
        /\ s.prune = tasks[r].prune /\ s.ts \in Times
    BY <2>1, <2>2 DEF TaskRec
  <2> HIDE DEF s
  <2>4. snaps'[s.ts] = snaps[s.ts] \cup {o} /\ \A u \in Times \ {s.ts} : snaps'[u] = snaps[u]
    BY <2>1, <2>3
  <2>5. Answers(s, snaps', doomed', clock')
    BY <2>1, <2>3, <2>4 DEF RetInv, Answers
  <2>6. tasks'[r] = s /\ \A q \in Tasks \ {r} : tasks'[q] = tasks[q]
    BY <2>1
  <2>7. \A t \in Times : snaps[t] \subseteq snaps'[t]
    BY <2>4
  <2> QED BY <1>1, <2>1, <2>5, <2>6, <2>7, RetStays
<1>12. ASSUME NEW r \in Tasks, Stalls(r) PROVE RetInv'
  <2> DEFINE s == [tasks[r] EXCEPT !.at = "stalled"]
  <2>1. tasks[r].at = "copy" /\ tasks' = [tasks EXCEPT ![r] = s]
        /\ UNCHANGED <<snaps, doomed, clock, good>>
    BY <1>12 DEF Stalls, Task
  <2>2. tasks[r] \in TaskRec
    OBVIOUS
  <2>3. s.at = "stalled" /\ s.ts = tasks[r].ts /\ s.todo = tasks[r].todo /\ s.prune = tasks[r].prune
    BY <2>2 DEF TaskRec
  <2> HIDE DEF s
  <2>4. Answers(s, snaps, doomed, clock)
    BY <2>1, <2>3 DEF Answers, RetInv
  <2> QED BY <1>1, <2>1, <2>4, RetRun
<1>13. ASSUME NEW r \in Tasks, ListSnapshots(r) PROVE RetInv'
  <2>1. PICK dead : /\ dead \in {PlanPrune(Snapshots, tasks[r].ts), {}}
                    /\ Task(r, [tasks[r] EXCEPT !.at = "prune", !.prune = dead])
                    /\ doomed' = doomed \cup dead
    BY <1>13 DEF ListSnapshots
  <2> DEFINE s == [tasks[r] EXCEPT !.at = "prune", !.prune = dead]
  <2>2. tasks[r].at = "copy" /\ tasks[r].todo = {} /\ tasks' = [tasks EXCEPT ![r] = s]
        /\ UNCHANGED <<clock, good, snaps>>
    BY <1>13, <2>1 DEF ListSnapshots, Task
  <2>3. tasks[r] \in TaskRec
    OBVIOUS
  <2>4. s.at = "prune" /\ s.ts = tasks[r].ts /\ s.prune = dead /\ s.ts \in Times
    BY <2>3 DEF TaskRec
  <2> HIDE DEF s
  <2>5. s.ts <= clock /\ (s.ts \in doomed \/ snaps[s.ts] = Contents)
    BY <2>2, <2>4 DEF RetInv, Answers
  <2>6. Answers(s, snaps', doomed', clock')
    BY <2>1, <2>2, <2>4, <2>5 DEF Answers
  <2>7. \A t \in dead : t \in Snapshots /\ t \notin Kept(Snapshots, s.ts)
    BY <2>1, <2>4 DEF PlanPrune
  <2>8. \A t \in doomed' \ doomed :
          t \in Snapshots /\ \E now \in Times : now <= clock /\ t \notin Kept(Snapshots, now)
    BY <2>1, <2>4, <2>5, <2>7
  <2>9. tasks'[r] = s /\ \A q \in Tasks \ {r} : tasks'[q] = tasks[q]
    BY <2>2
  <2> QED BY <1>1, <2>1, <2>2, <2>6, <2>8, <2>9, RetStays
<1>14. ASSUME NEW r \in Tasks, NEW t \in Times, PruneNext(r, t) PROVE RetInv'
  <2> DEFINE s == [tasks[r] EXCEPT !.prune = tasks[r].prune \ {t}]
  <2>1. tasks[r].at = "prune" /\ tasks' = [tasks EXCEPT ![r] = s]
        /\ UNCHANGED <<snaps, doomed, clock, good>>
    BY <1>14 DEF PruneNext, Task
  <2>2. tasks[r] \in TaskRec
    OBVIOUS
  <2>3. s.at = "prune" /\ s.ts = tasks[r].ts /\ s.prune = tasks[r].prune \ {t}
    BY <2>1, <2>2 DEF TaskRec
  <2> HIDE DEF s
  <2>4. Answers(s, snaps, doomed, clock)
    BY <2>1, <2>3 DEF Answers, RetInv
  <2> QED BY <1>1, <2>1, <2>4, RetRun
<1>15. ASSUME NEW r \in Tasks, NEW t \in Times, NEW o \in Contents, PruneObject(r, t, o)
       PROVE  RetInv'
  <2>1. t \in tasks[r].prune /\ UNCHANGED <<tasks, clock, good, doomed>>
        /\ snaps' = [snaps EXCEPT ![t] = snaps[t] \ {o}]
    BY <1>15 DEF PruneObject
  <2>2. t \in doomed
    BY <2>1 DEF RetInv, Answers
  <2>3. \A u \in Times \ doomed' : snaps[u] \subseteq snaps'[u]
    BY <2>1, <2>2
  <2> QED BY <1>1, <2>1, <2>3, RetStays
<1>16. ASSUME NEW e \in Editors, BkEdit(e) PROVE RetInv'
  BY <1>2, <1>16
     DEF BkEdit, RescheduleGet, RemoveEntry, AddEntry, DeleteBackup, UpdateBackup, Copies
<1>17. CASE (\E b \in Rows : CreateBackup(b)) \/ OthersWrite \/ UNCHANGED bkVars
  BY <1>2, <1>17 DEF CreateBackup, OthersWrite, Copies, bkVars
<1> QED BY <1>3, <1>5, <1>6, <1>8, <1>9, <1>10, <1>11, <1>12, <1>13, <1>14, <1>15, <1>16, <1>17
        DEF BkNext, BkRun

(* PlanPrune and pruneSnapshots: a snapshot recorded as a success stays whole   *)
(* until a run decides to prune it, and what runs decide to prune the policy   *)
(* does not want back, judged at any later time over everything ever begun:    *)
(* whatever overlaps, by hand or not, fails, stalls or is cut by restarts, for *)
(* every retention policy and any number of runs and objects.                  *)
THEOREM RetentionKeepsItsWord ==
  ASSUME ~WholeBucket
  PROVE  BkSpec => []RetentionIsHonoured
<1>1. BkInit => BkTypeOK /\ RetInv
  BY BkTypeInit, RetInvInit
<1>2. BkTypeOK /\ RetInv /\ [BkNext]_bkVars => (BkTypeOK /\ RetInv)'
  BY BkTypeStep, RetInvStep
<1>3. RetInv => RetentionIsHonoured
  BY DEF RetInv
<1> QED BY <1>1, <1>2, <1>3, PTL DEF BkSpec

--------------------------------------------------------------------------------
(* The overlap guard of fire, and the safety half of SlotComesBack: the slot is *)
(* taken exactly while one run that has fired is alive, so nothing but a run   *)
(* that does not end - or the restart that ends it - can keep the schedule     *)
(* waiting. What Trigger starts beside it holds no slot.                       *)
SlotIsHeld ==
  /\ running <=> \E r \in Tasks : tasks[r].slot
  /\ \A r \in Tasks : tasks[r].slot => tasks[r].at # "off"
  /\ \A q, r \in Tasks : tasks[q].slot /\ tasks[r].slot => q = r

LEMMA NoSlot == NoTask.slot = FALSE /\ NoTask.at = "off"
BY DEF NoTask

LEMMA SlotInit == BkInit => SlotIsHeld
BY NoSlot DEF BkInit, SlotIsHeld

(* One run goes on as s: it keeps its slot, or gives it back, or takes it when  *)
(* nobody has it.                                                              *)
LEMMA SlotMoves ==
  ASSUME BkTypeOK, SlotIsHeld, NEW r \in Tasks, NEW s \in TaskRec, tasks' = [tasks EXCEPT ![r] = s],
         s.slot => s.at # "off",
         \/ s.slot = tasks[r].slot /\ running' = running
         \/ ~s.slot /\ running' = (running /\ ~tasks[r].slot)
         \/ s.slot /\ ~running /\ running'
  PROVE  SlotIsHeld'
<1>1. tasks'[r] = s /\ \A q \in Tasks \ {r} : tasks'[q] = tasks[q]
  BY BkTypeRead
<1>2. running \in BOOLEAN /\ running' \in BOOLEAN /\ \A q \in Tasks : tasks[q].slot \in BOOLEAN
  BY BkTypeRead DEF TaskRec
<1>3. CASE s.slot = tasks[r].slot /\ running' = running
  BY <1>1, <1>2, <1>3 DEF SlotIsHeld
<1>4. CASE ~s.slot /\ running' = (running /\ ~tasks[r].slot)
  BY <1>1, <1>2, <1>4 DEF SlotIsHeld
<1>5. CASE s.slot /\ ~running /\ running'
  BY <1>1, <1>2, <1>5 DEF SlotIsHeld
<1> QED BY <1>3, <1>4, <1>5

LEMMA SlotStep == BkTypeOK /\ SlotIsHeld /\ [BkNext]_bkVars => SlotIsHeld'
<1> SUFFICES ASSUME BkTypeOK, SlotIsHeld, [BkNext]_bkVars PROVE SlotIsHeld'
  OBVIOUS
<1>1. ASSUME UNCHANGED <<running, tasks>> PROVE SlotIsHeld'
  BY <1>1 DEF SlotIsHeld
<1>2. CASE BackupRestart
  BY <1>2, NoSlot DEF BackupRestart, SlotIsHeld
<1>3. ASSUME NEW r \in Tasks, Fire(r) \/ Trigger(r) PROVE SlotIsHeld'
  <2>1. PICK slot \in BOOLEAN :
          Starts(r, slot) /\ (IF slot THEN ~running /\ running' ELSE running' = running)
    BY <1>3 DEF Fire, Trigger
  <2> DEFINE s == [NoTask EXCEPT !.at = "get", !.slot = slot]
  <2>2. tasks' = [tasks EXCEPT ![r] = s] /\ tasks[r].at = "off"
    BY <2>1 DEF Starts, Task
  <2>3. s \in TaskRec /\ s.at = "get" /\ s.slot = slot
    BY TaskForms DEF NoTask
  <2>4. tasks[r].slot = FALSE
    BY <2>2, BkTypeRead DEF SlotIsHeld, TaskRec
  <2> HIDE DEF s
  <2> QED BY <2>1, <2>2, <2>3, <2>4, SlotMoves
<1>4. ASSUME NEW r \in Tasks, Release(r) PROVE SlotIsHeld'
  <2>1. tasks' = [tasks EXCEPT ![r] = NoTask] /\ running' = (running /\ ~tasks[r].slot)
    BY <1>4 DEF Release, Task
  <2> QED BY <2>1, NoSlot, ConstTypes, SlotMoves
<1>5. ASSUME NEW r \in Tasks, NEW s \in TaskRec, Task(r, s), running' = running,
             s.slot = tasks[r].slot, s.at # "off"
      PROVE  SlotIsHeld'
  BY <1>5, SlotMoves DEF Task
<1>6. ASSUME NEW r \in Tasks, BkRun(r) \/ Stalls(r), ~Release(r) PROVE SlotIsHeld'
  <2>1. tasks[r] \in TaskRec /\ running' = running
    BY <1>6, BkTypeRead DEF BkRun, Stalls, GetRow, RunFails, ListSnapshots, RecordResult,
         CopyObject, PruneNext, PruneObject
  <2>2. CASE GetRow(r)
    <3> DEFINE s == [tasks[r] EXCEPT !.at = "copy", !.ts = clock, !.todo = Contents]
    <3>1. s \in TaskRec /\ s.at = "copy" /\ s.slot = tasks[r].slot /\ Task(r, s)
      BY <1>6, <2>1, <2>2, TaskForms DEF TaskRec, GetRow
    <3> QED BY <1>5, <2>1, <3>1
  <2>3. ASSUME NEW o \in Contents, CopyObject(r, o) PROVE SlotIsHeld'
    <3> DEFINE s == [tasks[r] EXCEPT !.todo = tasks[r].todo \ {o}]
    <3>1. s \in TaskRec /\ s.at = "copy" /\ s.slot = tasks[r].slot /\ Task(r, s)
      BY <2>1, <2>3, TaskForms DEF TaskRec, CopyObject
    <3> QED BY <1>5, <2>1, <3>1
  <2>4. CASE Stalls(r)
    <3> DEFINE s == [tasks[r] EXCEPT !.at = "stalled"]
    <3>1. s \in TaskRec /\ s.at = "stalled" /\ s.slot = tasks[r].slot /\ Task(r, s)
      BY <2>1, <2>4, TaskForms DEF TaskRec, Stalls
    <3> QED BY <1>5, <2>1, <3>1
  <2>5. CASE ListSnapshots(r)
    <3>1. PICK dead : /\ dead \in {PlanPrune(Snapshots, tasks[r].ts), {}}
                      /\ Task(r, [tasks[r] EXCEPT !.at = "prune", !.prune = dead])
      BY <2>5 DEF ListSnapshots
    <3> DEFINE s == [tasks[r] EXCEPT !.at = "prune", !.prune = dead]
    <3>2. dead \in SUBSET Times
      BY <3>1 DEF PlanPrune, Snapshots
    <3>3. s \in TaskRec /\ s.at = "prune" /\ s.slot = tasks[r].slot
      BY <2>1, <3>2, TaskForms DEF TaskRec
    <3> QED BY <1>5, <2>1, <3>1, <3>3
  <2>6. ASSUME NEW t \in Times, PruneNext(r, t) PROVE SlotIsHeld'
    <3> DEFINE s == [tasks[r] EXCEPT !.prune = tasks[r].prune \ {t}]
    <3>1. s \in TaskRec /\ s.at = "prune" /\ s.slot = tasks[r].slot /\ Task(r, s)
      BY <2>1, <2>6, TaskForms DEF TaskRec, PruneNext
    <3> QED BY <1>5, <2>1, <3>1
  <2>7. ASSUME NEW t \in Times, NEW o \in Contents, PruneObject(r, t, o) PROVE SlotIsHeld'
    BY <1>1, <2>7 DEF PruneObject
  <2> QED BY <1>6, <2>2, <2>3, <2>4, <2>5, <2>6, <2>7 DEF BkRun, RunFails, RecordResult
<1>7. CASE Tick \/ OthersWrite \/ UNCHANGED bkVars
  BY <1>1, <1>7 DEF Tick, OthersWrite, Copies, bkVars
<1>8. ASSUME (\E b \in Rows : CreateBackup(b)) \/ \E e \in Editors : BkEdit(e) PROVE SlotIsHeld'
  BY <1>1, <1>8 DEF CreateBackup, BkEdit, RescheduleGet, RemoveEntry, AddEntry, DeleteBackup,
       UpdateBackup, Copies
<1> QED BY <1>2, <1>3, <1>4, <1>6, <1>7, <1>8 DEF BkNext

(* acquire's slot is given back on every path of a run: a missing row or source,*)
(* a failed write, a failed prune, a panic.                                    *)
THEOREM SlotNeverLeaks == BkSpec => []SlotIsHeld
<1>1. BkInit => BkTypeOK /\ SlotIsHeld
  BY BkTypeInit, SlotInit
<1>2. BkTypeOK /\ SlotIsHeld /\ [BkNext]_bkVars => (BkTypeOK /\ SlotIsHeld)'
  BY BkTypeStep, SlotStep
<1> QED BY <1>1, <1>2, PTL DEF BkSpec
================================================================================
