--------------------------- MODULE FederationFailover ---------------------------
(***************************************************************************)
(* The control plane of one federated bucket: who is its primary.            *)
(*                                                                           *)
(* The record (store.go) is written by four parties, each acting on a copy   *)
(* it read earlier: the watchdog, which probes the primary and promotes a    *)
(* replica (engine.go); the operator, who fails over by hand, saves the      *)
(* settings form or deletes (user_federated_buckets.go); and the polling     *)
(* tick, which writes back each replica's health (FederationReplication has  *)
(* its data). Every store call is atomic: it holds the store's lock.         *)
(***************************************************************************)
EXTENDS Naturals, FiniteSets

CONSTANTS
  Targets,         \* the (region, bucket) pairs of the federation
  Watchdogs,       \* watchdog goroutines alive at once: two when the policy is
                   \* switched off and on again during a probe
  Operators,       \* concurrent requests of the owner
  ProbesRequired,  \* failed probes that make an outage (AutoFailoverSec)
  StaleBound,      \* 10 x LagAlertSec; 0 when the lag alert is off
  MaxClock, MaxRequests, MaxFaults  \* model bounds; a fault is an outage, a
                   \* restart or a write that fails

ASSUME FailoverAssumption ==
  /\ Targets # {}
  /\ ProbesRequired \in Nat \ {0} /\ StaleBound \in Nat
  /\ MaxClock \in Nat /\ MaxRequests \in Nat /\ MaxFaults \in Nat

VARIABLES
  clock,      \* 0 is the zero time.Time
  row,        \* the stored record
  policy,     \* history: the policy of the last form saved
  shown,      \* history: the configurations of the record in its epoch
  up,         \* which backends answer
  failures,   \* the engine's consecutive-failure counters
  source, left, marks,    \* the tick: its primary, its replicas to do, their LastSync
  watch,      \* watch[w]: a watchdog's place, its copy of the record, its count
  op,         \* op[o]: a request's place and its copy of the record
  requests, faults   \* what the bounds have used up

budget == <<requests, faults>>
tick == <<source, left, marks>>
vars == <<clock, row, policy, shown, up, failures, tick, watch, op, budget>>

--------------------------------------------------------------------------------
Health == {"none", "in-sync", "lagging", "broken"}
Entry == [lastSync : Nat, health : Health]
Fresh == [lastSync |-> 0, health |-> "none"]
AllFresh == [t \in Targets |-> Fresh]
BrokenFailureThreshold == 3

(* FederatedBucket. rev stands for the policy fields besides AutoFailover.   *)
Policy == [auto : BOOLEAN, rev : Nat]
Record == [live : BOOLEAN, epoch : Nat, primary : Targets, replicas : SUBSET Targets,
           health : [Targets -> Entry], policy : Policy]

Configuration(record) == [primary |-> record.primary, replicas |-> record.replicas]

NoCopy == [live |-> FALSE, epoch |-> 0, primary |-> CHOOSE t \in Targets : TRUE,
           replicas |-> {}, health |-> AllFresh, policy |-> [auto |-> FALSE, rev |-> 0]]
Resting == [pc |-> "idle", copy |-> NoCopy, count |-> 0]
NoRequest == [pc |-> "idle", copy |-> NoCopy]

(* Create, after validateFederationRequest: distinct targets, at least one   *)
(* replica, health fields empty.                                             *)
Init ==
  /\ clock = 1
  /\ \E p \in Targets, auto \in BOOLEAN : \E reps \in SUBSET (Targets \ {p}) :
       /\ reps # {}
       /\ row = [live |-> TRUE, epoch |-> 0, primary |-> p, replicas |-> reps,
                 health |-> AllFresh, policy |-> [auto |-> auto, rev |-> 0]]
  /\ policy = row.policy /\ shown = {Configuration(row)}
  /\ up = [t \in Targets |-> TRUE]
  /\ failures = [t \in Targets |-> 0]
  /\ source = row.primary /\ left = {} /\ marks = [t \in Targets |-> 0]
  /\ watch = [w \in Watchdogs |-> Resting]
  /\ op = [o \in Operators |-> NoRequest]
  /\ requests = 0 /\ faults = 0

--------------------------------------------------------------------------------
(* History: a new epoch begins with the configuration it was promoted to.      *)
Remember ==
  shown' = IF row'.epoch = row.epoch THEN shown \cup {Configuration(row')}
           ELSE {Configuration(row')}

(* Promotion, by whichever party.                                            *)

(* The data-safety gate: never a replica that never synced, is broken or is  *)
(* stale by lag.                                                             *)
Eligible(copy, r) ==
  /\ r \in copy.replicas
  /\ copy.health[r].lastSync > 0 /\ copy.health[r].health # "broken"
  /\ StaleBound > 0 => clock <= copy.health[r].lastSync + StaleBound

(* pickHealthiestReplica: the least lag; ties, by name in the code, are free. *)
Healthiest(copy) ==
  {r \in Targets : Eligible(copy, r) /\ \A s \in Targets :
     Eligible(copy, s) => copy.health[s].lastSync <= copy.health[r].lastSync}

(* Mutants: the demoted primary is dropped, or added without removing the       *)
(* promoted replica.                                                          *)
SwapDropping(copy, r) ==
  [copy EXCEPT !.epoch = @ + 1, !.primary = r, !.replicas = @ \ {r}]
SwapAppending(copy, r) ==
  [copy EXCEPT !.epoch = @ + 1, !.primary = r, !.replicas = @ \cup {copy.primary}]

(* The patch: the demoted primary takes the promoted replica's entry, blank.  *)
Swap(copy, r) ==
  [copy EXCEPT !.epoch = @ + 1, !.primary = r,
               !.replicas = (@ \ {r}) \cup {copy.primary},
               !.health = [@ EXCEPT ![r] = Fresh, ![copy.primary] = Fresh]]

(* Mutant: the epoch is written but not compared.                            *)
BlindPromote(copy, r) ==
  IF row.live THEN row' = Swap(copy, r) /\ UNCHANGED faults
  ELSE UNCHANGED <<row, faults>>

(* The store's compare-and-swap: the whole patch, if the epoch is still the   *)
(* one that was read. A failed write is rolled back.                         *)
PromoteWithEpoch(copy, r) ==
  \/ /\ row.live /\ row.epoch = copy.epoch
     /\ row' = Swap(copy, r) /\ UNCHANGED faults
  \/ /\ ~(row.live /\ row.epoch = copy.epoch)
     /\ UNCHANGED <<row, faults>>
  \/ /\ faults < MaxFaults /\ faults' = faults + 1
     /\ UNCHANGED row

--------------------------------------------------------------------------------
(* The watchdog (tickWatchdog).                                              *)

WatchRead(w) ==
  /\ watch[w].pc = "idle" /\ row.live /\ row.policy.auto
  /\ watch' = [watch EXCEPT ![w].pc = "probe", ![w].copy = row]
  /\ UNCHANGED <<clock, row, policy, shown, up, failures, tick, op, budget>>

(* A record that is gone, or no longer asks for it, ends the watchdog; the   *)
(* next one starts counting from zero.                                       *)
WatchStop(w) ==
  /\ watch[w].pc = "idle" /\ ~(row.live /\ row.policy.auto) /\ watch[w].count > 0
  /\ watch' = [watch EXCEPT ![w] = Resting]
  /\ UNCHANGED <<clock, row, policy, shown, up, failures, tick, op, budget>>

(* Mutant: the count does not outlive the probe (a state local to the tick).  *)
ForgetfulProbe(w) ==
  /\ watch[w].pc = "probe"
  /\ watch' = [watch EXCEPT ![w] =
       IF up[watch[w].copy.primary] \/ ProbesRequired > 1 THEN Resting
       ELSE [@ EXCEPT !.pc = "promote", !.count = 1]]
  /\ UNCHANGED <<clock, row, policy, shown, up, failures, tick, op, budget>>

(* probePrimary probes the primary of the copy.                              *)
Probe(w) ==
  /\ watch[w].pc = "probe"
  /\ LET count == watch[w].count + 1 IN
     watch' = [watch EXCEPT ![w] =
       IF up[watch[w].copy.primary] THEN Resting
       ELSE IF count < ProbesRequired THEN [Resting EXCEPT !.count = count]
       ELSE [@ EXCEPT !.pc = "promote", !.count = count]]
  /\ UNCHANGED <<clock, row, policy, shown, up, failures, tick, op, budget>>

(* triggerAutoFailover, and the counter is reset whatever the outcome.       *)
AutoPromote(w) ==
  /\ watch[w].pc = "promote"
  /\ watch' = [watch EXCEPT ![w] = Resting]
  /\ \/ Healthiest(watch[w].copy) = {} /\ UNCHANGED <<row, faults>>
     \/ \E r \in Healthiest(watch[w].copy) : PromoteWithEpoch(watch[w].copy, r)
  /\ Remember
  /\ UNCHANGED <<clock, policy, up, failures, tick, op, requests>>

--------------------------------------------------------------------------------
(* The owner's requests.                                                     *)

(* requireOwnedFederation reads the record; the body is read after it.       *)
FailoverRead(o) ==
  /\ op[o].pc = "idle" /\ row.live
  /\ requests < MaxRequests /\ requests' = requests + 1
  /\ op' = [op EXCEPT ![o] = [pc |-> "failover", copy |-> row]]
  /\ UNCHANGED <<clock, row, policy, shown, up, failures, tick, watch, faults>>

(* The gates look at the copy; a target that fails them is refused.          *)
FailoverCommit(o, r) ==
  /\ op[o].pc = "failover"
  /\ op' = [op EXCEPT ![o] = NoRequest]
  /\ IF Eligible(op[o].copy, r) THEN PromoteWithEpoch(op[o].copy, r)
     ELSE UNCHANGED <<row, faults>>
  /\ Remember
  /\ UNCHANGED <<clock, policy, up, failures, tick, watch, requests>>

(* The settings form is filled from a GET and saved as a whole by a PUT.     *)
OpenForm(o) ==
  /\ op[o].pc = "idle" /\ row.live
  /\ requests < MaxRequests /\ requests' = requests + 1
  /\ op' = [op EXCEPT ![o] = [pc |-> "form", copy |-> row]]
  /\ UNCHANGED <<clock, row, policy, shown, up, failures, tick, watch, faults>>

(* Update replaces primary, replicas and policy and leaves the epoch, which    *)
(* it does not compare either; the targets of a request carry no health       *)
(* (targetFromRequest).                                                       *)
SaveForm(o, p, reps, auto) ==
  /\ op[o].pc = "form"
  /\ p \notin reps /\ reps # {}
  /\ op' = [op EXCEPT ![o] = NoRequest]
  /\ IF row.live
     THEN /\ policy' = [auto |-> auto, rev |-> policy.rev + 1]
          /\ row' = [row EXCEPT !.primary = p, !.replicas = reps, !.health = AllFresh,
                                !.policy = policy']
     ELSE UNCHANGED <<row, policy>>
  /\ Remember
  /\ UNCHANGED <<clock, up, failures, tick, watch, budget>>

(* The form is given up, or its save failed and was rolled back.              *)
CloseForm(o) ==
  /\ op[o].pc = "form"
  /\ op' = [op EXCEPT ![o] = NoRequest]
  /\ UNCHANGED <<clock, row, policy, shown, up, failures, tick, watch, budget>>

(* Delete, then RemoveLoop, which also forgets the failure counters.         *)
DeleteFederation ==
  /\ row.live
  /\ row' = [row EXCEPT !.live = FALSE]
  /\ failures' = [t \in Targets |-> 0]
  /\ UNCHANGED <<clock, policy, shown, up, tick, watch, op, budget>>

--------------------------------------------------------------------------------
(* The polling tick, reduced to the health it records.                       *)

TickStart ==
  /\ left = {} /\ row.live
  /\ source' = row.primary /\ left' = row.replicas
  /\ marks' = [t \in Targets |-> IF t \in row.replicas THEN row.health[t].lastSync ELSE 0]
  /\ UNCHANGED <<clock, row, policy, shown, up, failures, watch, op, budget>>

(* UpdateReplicaHealth: dropped when the record or the replica is gone, and   *)
(* rolled back when the write fails.                                         *)
UpdateReplicaHealth(r, entry) ==
  \/ /\ row.live /\ r \in row.replicas
     /\ row' = [row EXCEPT !.health[r] = entry] /\ UNCHANGED faults
  \/ /\ ~(row.live /\ r \in row.replicas)
     /\ UNCHANGED <<row, faults>>
  \/ /\ faults < MaxFaults /\ faults' = faults + 1
     /\ UNCHANGED row

(* A pass over r: it drained, it left work behind, or a backend of it - the   *)
(* PRIMARY included - did not answer (recordSuccess, recordFailure).         *)
TickReplica(r) ==
  /\ r \in left
  /\ left' = left \ {r} /\ marks' = [marks EXCEPT ![r] = 0]
  /\ IF up[source] /\ up[r]
     THEN /\ failures' = [failures EXCEPT ![r] = 0]
          /\ \/ UpdateReplicaHealth(r, [lastSync |-> clock, health |-> "in-sync"])
             \/ UpdateReplicaHealth(r, [lastSync |-> marks[r], health |-> "lagging"])
     ELSE /\ failures' = [failures EXCEPT ![r] = IF @ < BrokenFailureThreshold THEN @ + 1 ELSE @]
          /\ UpdateReplicaHealth(r, [lastSync |-> marks[r],
               health |-> IF failures'[r] >= BrokenFailureThreshold THEN "broken" ELSE "lagging"])
  /\ UNCHANGED <<clock, policy, shown, up, source, watch, op, requests>>

--------------------------------------------------------------------------------
(* The environment.                                                          *)

Advance ==
  /\ clock < MaxClock /\ clock' = clock + 1
  /\ UNCHANGED <<row, policy, shown, up, failures, tick, watch, op, budget>>

Outage(t) ==
  /\ up[t] /\ faults < MaxFaults
  /\ up' = [up EXCEPT ![t] = FALSE] /\ faults' = faults + 1
  /\ UNCHANGED <<clock, row, policy, shown, failures, tick, watch, op, requests>>

Recovery(t) ==
  /\ ~up[t] /\ up' = [up EXCEPT ![t] = TRUE]
  /\ UNCHANGED <<clock, row, policy, shown, failures, tick, watch, op, budget>>

(* The process restarts: only the record survives.                           *)
Restart ==
  /\ faults < MaxFaults /\ faults' = faults + 1
  /\ failures' = [t \in Targets |-> 0]
  /\ left' = {} /\ marks' = [t \in Targets |-> 0]
  /\ watch' = [w \in Watchdogs |-> Resting]
  /\ op' = [o \in Operators |-> IF op[o].pc = "form" THEN op[o] ELSE NoRequest]
  /\ UNCHANGED <<clock, row, policy, shown, up, source, requests>>

--------------------------------------------------------------------------------
Watchdog(w) == WatchRead(w) \/ WatchStop(w) \/ Probe(w) \/ AutoPromote(w)

Owner(o) ==
  \/ FailoverRead(o) \/ OpenForm(o) \/ CloseForm(o)
  \/ \E r \in Targets : FailoverCommit(o, r)
  \/ \E p \in Targets, reps \in SUBSET Targets, auto \in BOOLEAN : SaveForm(o, p, reps, auto)

Engine == TickStart \/ \E r \in Targets : TickReplica(r)

Environment == Advance \/ Restart \/ \E t \in Targets : Outage(t) \/ Recovery(t)

Next ==
  \/ \E w \in Watchdogs : Watchdog(w)
  \/ \E o \in Operators : Owner(o)
  \/ DeleteFederation \/ Engine \/ Environment

Spec == Init /\ [][Next]_vars

(* The watchdog's ticker keeps firing. The tick owes nothing: it skips a      *)
(* federation whose SyncMode is "scheduled", and a long pass delays the next. *)
FairSpec == Spec /\ \A w \in Watchdogs : WF_vars(Watchdog(w))

--------------------------------------------------------------------------------
TypeOK ==
  /\ clock \in Nat /\ row \in Record /\ policy \in Policy
  /\ shown \subseteq [primary : Targets, replicas : SUBSET Targets]
  /\ up \in [Targets -> BOOLEAN] /\ failures \in [Targets -> 0..BrokenFailureThreshold]
  /\ source \in Targets /\ left \subseteq Targets /\ marks \in [Targets -> Nat]
  /\ watch \in [Watchdogs -> [pc : {"idle", "probe", "promote"}, copy : Record, count : Nat]]
  /\ op \in [Operators -> [pc : {"idle", "failover", "form"}, copy : Record]]
  /\ requests \in Nat /\ faults \in Nat

(* The primary is never one of its own replicas, whatever forms, promotions   *)
(* and health writes interleave ("otherwise the engine would replicate from a *)
(* bucket back to itself").                                                   *)
PrimaryIsNoReplica == row.primary \notin row.replicas

(* The record implements the abstract primary: whatever copies watchdogs,      *)
(* requests and forms hold, stale ones included, a promotion counts one epoch   *)
(* and exchanges primary and replica within a configuration of the epoch it     *)
(* ends (PromoteWithEpoch), and nothing but a promotion or a saved form moves   *)
(* the targets. A form is not fenced: one loaded before a failover and saved    *)
(* after it undoes the failover (README, known disagreements).                  *)
Abstract == INSTANCE FederatedPrimary WITH
  live <- row.live, epoch <- row.epoch, primary <- row.primary,
  replicas <- row.replicas, edits <- policy.rev
ImplementsPrimary == Abstract!Spec

(* The watchdog does not sleep through an outage it may end: the primary does *)
(* not stay down while the record offers an eligible replica.                 *)
OutageSeen ==
  row.live /\ row.policy.auto /\ ~up[row.primary] /\ Healthiest(row) # {}
WatchdogActs == []<>~OutageSeen

(* "After AutoFailoverSec consecutive failures, promote the healthiest        *)
(* replica": an outage that starts with an eligible, reachable replica ends.  *)
(* The code does not keep it (README, known disagreements).                   *)
OutageEnds ==
  (OutageSeen /\ \E r \in Healthiest(row) : up[r]) ~>
    (up[row.primary] \/ ~row.policy.auto \/ ~row.live)

(* A saved policy stays until the next save ("policy edits ... take effect on *)
(* the next probe").                                                          *)
(* The code does not keep it (README, known disagreements).                   *)
PolicySticks == row.live => row.policy = policy
================================================================================
