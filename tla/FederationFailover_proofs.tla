------------------------ MODULE FederationFailover_proofs ------------------------
(***************************************************************************)
(* Proofs about FederationFailover, for any backends, watchdogs, requests    *)
(* and bounds: its types, that the primary is never its own replica, and     *)
(* that the epoch compare-and-swap makes the record implement                *)
(* FederatedPrimary, whatever forms are saved and however stale they are.     *)
(***************************************************************************)
EXTENDS FederationFailover, TLAPS

(* The blank values have the types of the places they fill.                  *)
LEMMA BlankTypes ==
  /\ Fresh \in Entry /\ AllFresh \in [Targets -> Entry]
  /\ NoCopy \in Record
  /\ Resting \in [pc : {"idle", "probe", "promote"}, copy : Record, count : Nat]
  /\ NoRequest \in [pc : {"idle", "failover", "form"}, copy : Record]
<1>1. Fresh \in Entry
  BY DEF Fresh, Entry, Health
<1>2. AllFresh \in [Targets -> Entry]
  BY <1>1 DEF AllFresh
<1>3. (CHOOSE t \in Targets : TRUE) \in Targets
  BY FailoverAssumption
<1>4. NoCopy \in Record
  BY <1>2, <1>3 DEF NoCopy, Record, Policy
<1> QED
  BY <1>1, <1>2, <1>4 DEF Resting, NoRequest

(* A promotion patch built from a copy is a record, one epoch further.        *)
LEMMA SwapIsRecord ==
  ASSUME NEW copy \in Record, NEW r \in Targets
  PROVE  /\ Swap(copy, r) \in Record
         /\ Swap(copy, r).epoch = copy.epoch + 1
         /\ Swap(copy, r).live = copy.live
         /\ Swap(copy, r).primary = r
         /\ Swap(copy, r).replicas = (copy.replicas \ {r}) \cup {copy.primary}
<1> DEFINE h == [copy.health EXCEPT ![r] = Fresh, ![copy.primary] = Fresh]
           reps == (copy.replicas \ {r}) \cup {copy.primary}
<1>1. /\ copy.live \in BOOLEAN /\ copy.epoch \in Nat /\ copy.primary \in Targets
      /\ copy.replicas \in SUBSET Targets /\ copy.health \in [Targets -> Entry]
      /\ copy.policy \in Policy
  BY DEF Record
<1>2. h \in [Targets -> Entry]
  BY <1>1, BlankTypes
<1>3. reps \in SUBSET Targets
  BY <1>1
<1> HIDE DEF h, reps
<1>4. Swap(copy, r) = [live |-> copy.live, epoch |-> copy.epoch + 1, primary |-> r,
                       replicas |-> reps, health |-> h, policy |-> copy.policy]
  <2>1. Swap(copy, r) = [copy EXCEPT !.epoch = copy.epoch + 1, !.primary = r,
                                     !.replicas = reps, !.health = h]
    BY DEF Swap, h, reps
  <2> QED
    BY <2>1 DEF Record
<1>5. Swap(copy, r) \in Record
  BY <1>1, <1>2, <1>3, <1>4 DEF Record
<1> QED
  BY <1>4, <1>5 DEF reps

(* Whatever promotes, what it leaves is a record.                            *)
LEMMA PromotionKeepsTypes ==
  ASSUME NEW copy \in Record, NEW r \in Targets, row \in Record, faults \in Nat,
         PromoteWithEpoch(copy, r)
  PROVE  row' \in Record /\ faults' \in Nat
  BY SwapIsRecord DEF PromoteWithEpoch

LEMMA RememberTypes ==
  ASSUME TypeOK, row' \in Record, Remember
  PROVE  shown' \subseteq [primary : Targets, replicas : SUBSET Targets]
<1>1. Configuration(row') \in [primary : Targets, replicas : SUBSET Targets]
  BY DEF Configuration, Record
<1> QED
  BY <1>1 DEF Remember, TypeOK

LEMMA TypesStep == TypeOK /\ [Next]_vars => TypeOK'
<1> SUFFICES ASSUME TypeOK, [Next]_vars PROVE TypeOK'
  OBVIOUS
<1> USE DEF TypeOK
<1> DEFINE Place == [pc : {"idle", "probe", "promote"}, copy : Record, count : Nat]
           Request == [pc : {"idle", "failover", "form"}, copy : Record]
<1>1. ASSUME NEW w \in Watchdogs, Watchdog(w) PROVE TypeOK'
  <2>1. CASE WatchRead(w)
    BY <2>1 DEF WatchRead, vars, tick, budget
  <2>2. CASE WatchStop(w)
    BY <2>2, BlankTypes DEF WatchStop, vars, tick, budget
  <2>3. CASE Probe(w)
    <3> DEFINE count == watch[w].count + 1
               next == IF up[watch[w].copy.primary] THEN Resting
                       ELSE IF count < ProbesRequired THEN [Resting EXCEPT !.count = count]
                       ELSE [watch[w] EXCEPT !.pc = "promote", !.count = count]
    <3>1. count \in Nat
      OBVIOUS
    <3>2. [Resting EXCEPT !.count = count] \in Place
      BY <3>1, BlankTypes DEF Resting
    <3>3. [watch[w] EXCEPT !.pc = "promote", !.count = count] \in Place
      BY <3>1
    <3>4. next \in Place
      BY <3>2, <3>3, BlankTypes
    <3>5. watch' = [watch EXCEPT ![w] = next]
      BY <2>3 DEF Probe
    <3> HIDE DEF next
    <3> QED
      BY <2>3, <3>4, <3>5 DEF Probe, tick, budget
  <2>4. CASE AutoPromote(w)
    <3>1. row' \in Record /\ faults' \in Nat
      <4>1. CASE UNCHANGED <<row, faults>>
        BY <4>1
      <4>2. ASSUME NEW r \in Healthiest(watch[w].copy), PromoteWithEpoch(watch[w].copy, r)
            PROVE  row' \in Record /\ faults' \in Nat
        <5>1. watch[w].copy \in Record /\ r \in Targets
          BY DEF Healthiest
        <5> QED
          BY <4>2, <5>1, PromotionKeepsTypes
      <4> QED
        BY <2>4, <4>1, <4>2 DEF AutoPromote
    <3>2. shown' \subseteq [primary : Targets, replicas : SUBSET Targets]
      BY <2>4, <3>1, RememberTypes DEF AutoPromote
    <3> QED
      BY <2>4, <3>1, <3>2, BlankTypes DEF AutoPromote, tick
  <2> QED
    BY <1>1, <2>1, <2>2, <2>3, <2>4 DEF Watchdog
<1>2. ASSUME NEW o \in Operators, Owner(o) PROVE TypeOK'
  <2>1. CASE FailoverRead(o)
    BY <2>1 DEF FailoverRead, tick
  <2>2. CASE OpenForm(o)
    BY <2>2 DEF OpenForm, tick
  <2>3. CASE CloseForm(o)
    BY <2>3, BlankTypes DEF CloseForm, tick, budget
  <2>4. ASSUME NEW r \in Targets, FailoverCommit(o, r) PROVE TypeOK'
    <3>1. row' \in Record /\ faults' \in Nat
      BY <2>4, PromotionKeepsTypes DEF FailoverCommit
    <3>2. shown' \subseteq [primary : Targets, replicas : SUBSET Targets]
      BY <2>4, <3>1, RememberTypes DEF FailoverCommit
    <3> QED
      BY <2>4, <3>1, <3>2, BlankTypes DEF FailoverCommit, tick
  <2>5. ASSUME NEW p \in Targets, NEW reps \in SUBSET Targets, NEW auto \in BOOLEAN,
               SaveForm(o, p, reps, auto)
        PROVE  TypeOK'
    <3>1. policy' \in Policy /\ row' \in Record
      <4>1. CASE row.live
        <5>1. policy' \in Policy
          BY <2>5, <4>1 DEF SaveForm, Policy
        <5>2. row' = [row EXCEPT !.primary = p, !.replicas = reps, !.health = AllFresh,
                                 !.policy = policy']
          BY <2>5, <4>1 DEF SaveForm
        <5> QED
          BY <5>1, <5>2, BlankTypes DEF Record
      <4>2. CASE ~row.live
        BY <2>5, <4>2 DEF SaveForm
      <4> QED
        BY <4>1, <4>2
    <3>2. shown' \subseteq [primary : Targets, replicas : SUBSET Targets]
      BY <2>5, <3>1, RememberTypes DEF SaveForm
    <3> QED
      BY <2>5, <3>1, <3>2, BlankTypes DEF SaveForm, tick, budget
  <2> QED
    <3>1. CASE \E r \in Targets : FailoverCommit(o, r)
      BY <2>4, <3>1
    <3>2. CASE \E p \in Targets, reps \in SUBSET Targets, auto \in BOOLEAN :
                 SaveForm(o, p, reps, auto)
      <4>1. PICK p \in Targets, reps \in SUBSET Targets, auto \in BOOLEAN :
              SaveForm(o, p, reps, auto)
        BY <3>2
      <4> HIDE DEF TypeOK
      <4> QED
        BY <2>5, <4>1
    <3> QED
      BY <1>2, <2>1, <2>2, <2>3, <3>1, <3>2 DEF Owner
<1>3. CASE DeleteFederation
  <2>1. row' \in Record
    BY <1>3 DEF DeleteFederation, Record
  <2>2. failures' \in [Targets -> 0..BrokenFailureThreshold]
    BY <1>3 DEF DeleteFederation, BrokenFailureThreshold
  <2> QED
    BY <1>3, <2>1, <2>2 DEF DeleteFederation, tick, budget
<1>4. CASE TickStart
  <2>1. marks' \in [Targets -> Nat]
    BY <1>4 DEF TickStart, Record, Entry
  <2> QED
    BY <1>4, <2>1 DEF TickStart, budget, Record
<1>5. ASSUME NEW r \in Targets, TickReplica(r) PROVE TypeOK'
  <2>1. failures' \in [Targets -> 0..BrokenFailureThreshold]
    BY <1>5 DEF TickReplica, BrokenFailureThreshold
  <2>2. ASSUME NEW e \in Entry, UpdateReplicaHealth(r, e)
        PROVE  row' \in Record /\ faults' \in Nat
    <3>1. [row EXCEPT !.health[r] = e] \in Record
      BY <2>2 DEF Record
    <3> QED
      BY <2>2, <3>1 DEF UpdateReplicaHealth
  <2>3. /\ [lastSync |-> clock, health |-> "in-sync"] \in Entry
        /\ \A h \in Health : [lastSync |-> marks[r], health |-> h] \in Entry
    BY DEF Entry, Health
  <2>4. row' \in Record /\ faults' \in Nat
    <3>1. CASE up[source] /\ up[r]
      BY <1>5, <2>2, <2>3, <3>1 DEF TickReplica, Health
    <3>2. CASE ~(up[source] /\ up[r])
      <4> DEFINE h == IF failures'[r] >= BrokenFailureThreshold THEN "broken" ELSE "lagging"
      <4>1. h \in Health
        BY DEF Health
      <4>2. UpdateReplicaHealth(r, [lastSync |-> marks[r], health |-> h])
        BY <1>5, <3>2 DEF TickReplica
      <4> HIDE DEF h
      <4> QED
        BY <2>2, <2>3, <4>1, <4>2
    <3> QED
      BY <3>1, <3>2
  <2> QED
    BY <1>5, <2>1, <2>4 DEF TickReplica
<1>6. CASE Environment
  <2>1. CASE Advance
    BY <2>1 DEF Advance, tick, budget
  <2>2. CASE Restart
    <3>1. op' \in [Operators -> Request]
      BY <2>2, BlankTypes DEF Restart
    <3> QED
      BY <2>2, <3>1, BlankTypes DEF Restart, BrokenFailureThreshold
  <2>3. ASSUME NEW t \in Targets, Outage(t) PROVE TypeOK'
    BY <2>3 DEF Outage, tick
  <2>4. ASSUME NEW t \in Targets, Recovery(t) PROVE TypeOK'
    BY <2>4 DEF Recovery, tick, budget
  <2> QED
    BY <1>6, <2>1, <2>2, <2>3, <2>4 DEF Environment
<1>7. CASE UNCHANGED vars
  BY <1>7 DEF vars, tick, budget
<1> QED
  BY <1>1, <1>2, <1>3, <1>4, <1>5, <1>6, <1>7 DEF Next, Engine

LEMMA TypesInit == Init => TypeOK
<1> SUFFICES ASSUME Init PROVE TypeOK
  OBVIOUS
<1>1. row \in Record /\ policy \in Policy
  BY BlankTypes DEF Init, Record, Policy
<1>2. shown \subseteq [primary : Targets, replicas : SUBSET Targets]
  BY <1>1 DEF Init, Configuration, Record
<1>3. source \in Targets /\ left \subseteq Targets /\ marks \in [Targets -> Nat]
  BY <1>1 DEF Init, Record
<1>4. failures \in [Targets -> 0..BrokenFailureThreshold] /\ up \in [Targets -> BOOLEAN]
  BY DEF Init, BrokenFailureThreshold
<1> QED
  BY <1>1, <1>2, <1>3, <1>4, BlankTypes DEF Init, TypeOK

(* Every variable keeps its type: health written back by a tick, a patch      *)
(* swapped in by a promotion and a saved form are all well-formed records.    *)
THEOREM TypeCorrect == Spec => []TypeOK
  BY TypesInit, TypesStep, PTL DEF Spec
--------------------------------------------------------------------------------
(* Who holds a copy of the record, and what one step does to the record and   *)
(* to the copies: the two facts every later proof rests on.                   *)

Holds(c) ==
  \/ \E w \in Watchdogs : watch[w].pc # "idle" /\ c = watch[w].copy
  \/ \E o \in Operators : op[o].pc # "idle" /\ c = op[o].copy

Kept ==
  /\ row'.epoch = row.epoch /\ row'.primary = row.primary /\ row'.replicas = row.replicas
  /\ row'.live = row.live \/ (row.live /\ row'.live = FALSE)
  /\ policy' = policy
  /\ shown' \in {shown, shown \cup {Configuration(row)}}

Promoted ==
  /\ \E c \in Record : \E r \in c.replicas :
       Holds(c) /\ Eligible(c, r) /\ row.live /\ row.epoch = c.epoch /\ row' = Swap(c, r)
  /\ policy' = policy /\ Remember

Saved ==
  /\ row.live /\ row'.live = row.live /\ row'.epoch = row.epoch
  /\ row'.primary \in Targets /\ row'.replicas \in SUBSET (Targets \ {row'.primary})
  /\ row'.replicas # {}
  /\ policy'.rev = policy.rev + 1
  /\ Remember

(* A step that leaves the record and the policy alone remembers nothing new.   *)
LEMMA Idle == ASSUME row' = row, policy' = policy, shown' = shown \/ Remember PROVE Kept
  BY DEF Kept, Remember, Configuration

(* PromoteWithEpoch writes the patch of a held copy, or nothing.              *)
LEMMA PromotionStep ==
  ASSUME NEW c \in Record, Holds(c), NEW r \in c.replicas, Eligible(c, r), row \in Record,
         PromoteWithEpoch(c, r), policy' = policy, Remember
  PROVE  Kept \/ Promoted
<1>1. CASE row.live /\ row.epoch = c.epoch /\ row' = Swap(c, r)
  BY <1>1 DEF Promoted
<1>2. CASE row' = row
  BY <1>2, Idle
<1> QED
  BY <1>1, <1>2 DEF PromoteWithEpoch

LEMMA RowStep == TypeOK /\ [Next]_vars => Kept \/ Promoted \/ Saved
<1> SUFFICES ASSUME TypeOK, [Next]_vars PROVE Kept \/ Promoted \/ Saved
  OBVIOUS
<1>1. row \in Record
  BY DEF TypeOK
<1>2. ASSUME NEW w \in Watchdogs, Watchdog(w) PROVE Kept \/ Promoted
  <2>1. ASSUME NEW r \in Healthiest(watch[w].copy), watch[w].pc = "promote",
               PromoteWithEpoch(watch[w].copy, r), policy' = policy, Remember
        PROVE  Kept \/ Promoted
    <3>1. watch[w].copy \in Record
      BY DEF TypeOK
    <3>2. Holds(watch[w].copy)
      BY <2>1 DEF Holds
    <3>3. r \in watch[w].copy.replicas /\ Eligible(watch[w].copy, r)
      BY DEF Healthiest, Eligible
    <3> QED
      BY <1>1, <2>1, <3>1, <3>2, <3>3, PromotionStep
  <2>2. CASE AutoPromote(w)
    BY <2>1, <2>2, Idle DEF AutoPromote
  <2>3. CASE WatchRead(w) \/ WatchStop(w) \/ Probe(w)
    BY <2>3, Idle DEF WatchRead, WatchStop, Probe
  <2> QED
    BY <1>2, <2>2, <2>3 DEF Watchdog
<1>3. ASSUME NEW o \in Operators, Owner(o) PROVE Kept \/ Promoted \/ Saved
  <2>1. ASSUME op[o].pc # "idle" PROVE op[o].copy \in Record /\ Holds(op[o].copy)
    BY <2>1 DEF TypeOK, Holds
  <2>2. ASSUME NEW r \in Targets, FailoverCommit(o, r) PROVE Kept \/ Promoted
    <3>1. policy' = policy /\ Remember
      BY <2>2 DEF FailoverCommit
    <3>2. CASE Eligible(op[o].copy, r)
      <4>1. r \in op[o].copy.replicas /\ op[o].pc # "idle" /\ PromoteWithEpoch(op[o].copy, r)
        BY <2>2, <3>2 DEF Eligible, FailoverCommit
      <4> QED
        BY <1>1, <2>1, <3>1, <3>2, <4>1, PromotionStep
    <3>3. CASE ~Eligible(op[o].copy, r)
      BY <2>2, <3>1, <3>3, Idle DEF FailoverCommit
    <3> QED
      BY <3>2, <3>3
  <2>3. ASSUME NEW p \in Targets, NEW reps \in SUBSET Targets, NEW auto \in BOOLEAN,
               SaveForm(o, p, reps, auto)
        PROVE  Kept \/ Saved
    <3>1. CASE row.live
      <4>1. /\ row'.live = row.live /\ row'.epoch = row.epoch
            /\ row'.primary = p /\ row'.replicas = reps
        BY <1>1, <2>3, <3>1 DEF SaveForm, Record
      <4>2. p \notin reps /\ reps # {} /\ policy'.rev = policy.rev + 1 /\ Remember
        BY <2>3, <3>1 DEF SaveForm
      <4> QED
        BY <3>1, <4>1, <4>2 DEF Saved
    <3>2. CASE ~row.live
      BY <2>3, <3>2, Idle DEF SaveForm
    <3> QED
      BY <3>1, <3>2
  <2>4. CASE \E r \in Targets : FailoverCommit(o, r)
    BY <2>2, <2>4
  <2>5. CASE \E p \in Targets, reps \in SUBSET Targets, auto \in BOOLEAN :
               SaveForm(o, p, reps, auto)
    <3>1. PICK p \in Targets, reps \in SUBSET Targets, auto \in BOOLEAN :
            SaveForm(o, p, reps, auto)
      BY <2>5
    <3> QED
      BY <2>3, <3>1
  <2>6. CASE FailoverRead(o) \/ OpenForm(o) \/ CloseForm(o)
    BY <2>6, Idle DEF FailoverRead, OpenForm, CloseForm
  <2> QED
    BY <1>3, <2>4, <2>5, <2>6 DEF Owner
<1>4. CASE DeleteFederation
  BY <1>1, <1>4 DEF DeleteFederation, Kept, Record
<1>5. CASE Engine
  <2>1. ASSUME NEW r \in Targets, TickReplica(r) PROVE Kept
    <3>1. policy' = policy /\ shown' = shown
      BY <2>1 DEF TickReplica
    <3>2. ASSUME NEW e, UpdateReplicaHealth(r, e) PROVE Kept
      BY <1>1, <3>1, <3>2 DEF UpdateReplicaHealth, Kept, Record
    <3> QED
      BY <2>1, <3>2 DEF TickReplica
  <2> QED
    BY <1>5, <2>1, Idle DEF Engine, TickStart
<1>6. CASE Environment \/ UNCHANGED vars
  BY <1>6, Idle DEF Environment, Advance, Restart, Outage, Recovery, vars
<1> QED
  BY <1>2, <1>3, <1>4, <1>5, <1>6 DEF Next

(* A copy held after a step was held before it, or is the record just read.   *)
LEMMA CopyStep ==
  TypeOK /\ [Next]_vars => \A c \in Record : Holds(c)' => Holds(c) \/ (row.live /\ c = row)
<1> SUFFICES ASSUME TypeOK, [Next]_vars, NEW c \in Record, Holds(c)'
             PROVE  Holds(c) \/ (row.live /\ c = row)
  OBVIOUS
<1> DEFINE Old == Holds(c) \/ (row.live /\ c = row)
<1>1. ASSUME watch' = watch, op' = op PROVE Old
  BY <1>1 DEF Holds
<1>2. ASSUME NEW w \in Watchdogs, Watchdog(w) PROVE Old
  <2>1. op' = op
    BY <1>2 DEF Watchdog, WatchRead, WatchStop, Probe, AutoPromote
  <2>2. \A v \in Watchdogs : watch'[v].pc # "idle" =>
          \/ watch[v].pc # "idle" /\ watch'[v].copy = watch[v].copy
          \/ row.live /\ watch'[v].copy = row
    <3>1. CASE WatchRead(w)
      BY <3>1 DEF WatchRead, TypeOK
    <3>2. CASE WatchStop(w) \/ AutoPromote(w)
      BY <3>2 DEF WatchStop, AutoPromote, Resting, TypeOK
    <3>3. CASE Probe(w)
      <4>1. watch'[w].pc # "idle" => watch[w].pc # "idle" /\ watch'[w].copy = watch[w].copy
        BY <3>3 DEF Probe, Resting, TypeOK
      <4>2. \A v \in Watchdogs \ {w} : watch'[v] = watch[v]
        BY <3>3 DEF Probe, TypeOK
      <4> QED
        BY <4>1, <4>2
    <3> QED
      BY <1>2, <3>1, <3>2, <3>3 DEF Watchdog
  <2> QED
    BY <2>1, <2>2 DEF Holds
<1>3. ASSUME NEW o \in Operators, Owner(o) PROVE Old
  <2>1. watch' = watch
    BY <1>3 DEF Owner, FailoverRead, OpenForm, CloseForm, FailoverCommit, SaveForm
  <2>2. \A q \in Operators : op'[q].pc # "idle" =>
          \/ op[q].pc # "idle" /\ op'[q].copy = op[q].copy
          \/ row.live /\ op'[q].copy = row
    <3>1. CASE FailoverRead(o) \/ OpenForm(o)
      BY <3>1 DEF FailoverRead, OpenForm, TypeOK
    <3>2. CASE op' = [op EXCEPT ![o] = NoRequest]
      BY <3>2 DEF NoRequest, TypeOK
    <3>3. CASE CloseForm(o) \/ \E r \in Targets : FailoverCommit(o, r)
      BY <3>2, <3>3 DEF CloseForm, FailoverCommit
    <3>4. CASE \E p \in Targets, reps \in SUBSET Targets, auto \in BOOLEAN :
                 SaveForm(o, p, reps, auto)
      BY <3>2, <3>4 DEF SaveForm
    <3> QED
      BY <1>3, <3>1, <3>3, <3>4 DEF Owner
  <2> QED
    BY <2>1, <2>2 DEF Holds
<1>4. CASE Restart
  BY <1>4 DEF Restart, Holds, Resting, NoRequest, TypeOK
<1>5. CASE DeleteFederation \/ Engine \/ Advance \/ UNCHANGED vars
           \/ \E t \in Targets : Outage(t) \/ Recovery(t)
  BY <1>1, <1>5 DEF DeleteFederation, Engine, TickStart, TickReplica, Advance, Outage,
                    Recovery, vars
<1> QED
  BY <1>2, <1>3, <1>4, <1>5 DEF Next, Environment

LEMMA NothingHeldInit == Init => \A c \in Record : ~Holds(c)
  BY DEF Init, Holds, Resting, NoRequest

--------------------------------------------------------------------------------
(* The primary is no replica of itself, in the record and in every copy held:  *)
(* a promotion writes back a whole copy, so the copies belong to the invariant. *)

DistinctInv ==
  /\ PrimaryIsNoReplica
  /\ \A c \in Record : Holds(c) => c.primary \notin c.replicas

LEMMA DistinctInit == Init => DistinctInv
<1> SUFFICES ASSUME Init PROVE DistinctInv
  OBVIOUS
<1>1. PICK p \in Targets : \E reps \in SUBSET (Targets \ {p}) :
        row.primary = p /\ row.replicas = reps
  BY DEF Init
<1>2. row.primary \notin row.replicas
  BY <1>1
<1> QED
  BY <1>2, NothingHeldInit DEF DistinctInv, PrimaryIsNoReplica

LEMMA DistinctStep == TypeOK /\ DistinctInv /\ [Next]_vars => DistinctInv'
<1> SUFFICES ASSUME TypeOK, DistinctInv, [Next]_vars PROVE DistinctInv'
  OBVIOUS
<1>1. \A c \in Record : Holds(c)' => c.primary \notin c.replicas
  BY CopyStep DEF DistinctInv, PrimaryIsNoReplica
<1>2. row'.primary \notin row'.replicas
  <2>1. CASE Kept
    BY <2>1 DEF Kept, DistinctInv, PrimaryIsNoReplica
  <2>2. CASE Promoted
    <3>1. PICK c \in Record : \E r \in c.replicas : Holds(c) /\ row' = Swap(c, r)
      BY <2>2 DEF Promoted
    <3>2. PICK r \in c.replicas : row' = Swap(c, r)
      BY <3>1
    <3>3. r \in Targets
      BY DEF Record
    <3>4. row'.primary = r /\ row'.replicas = (c.replicas \ {r}) \cup {c.primary}
      BY <3>2, <3>3, SwapIsRecord
    <3>5. c.primary \notin c.replicas
      BY <3>1 DEF DistinctInv
    <3> QED
      BY <3>4, <3>5
  <2>3. CASE Saved
    BY <2>3 DEF Saved
  <2> QED
    BY <2>1, <2>2, <2>3, RowStep
<1> QED
  BY <1>1, <1>2 DEF DistinctInv, PrimaryIsNoReplica

(* Whatever forms, promotions, restarts and health writes interleave, a        *)
(* federation never replicates its primary onto itself.                        *)
THEOREM PrimaryNeverReplica == Spec => []PrimaryIsNoReplica
<1>1. Init => DistinctInv
  BY DistinctInit
<1>2. DistinctInv => PrimaryIsNoReplica
  BY DEF DistinctInv
<1> QED
  BY <1>1, <1>2, TypeCorrect, DistinctStep, PTL DEF Spec

--------------------------------------------------------------------------------
(* The epoch, whatever the forms do: only promotions move it, so no copy is     *)
(* ahead of the record.                                                        *)

NotAhead == \A c \in Record : Holds(c) => c.epoch <= row.epoch

LEMMA NotAheadStep == TypeOK /\ NotAhead /\ [Next]_vars => NotAhead'
<1> SUFFICES ASSUME TypeOK, NotAhead, [Next]_vars, NEW c \in Record, Holds(c)'
             PROVE  c.epoch <= row'.epoch
  BY DEF NotAhead
<1>1. row.epoch \in Nat /\ c.epoch \in Nat
  BY DEF TypeOK, Record
<1>2. c.epoch <= row.epoch
  BY <1>1, CopyStep DEF NotAhead
<1>3. row'.epoch = row.epoch \/ row'.epoch = row.epoch + 1
  <2>1. CASE Promoted
    BY <2>1, SwapIsRecord DEF Promoted, Record
  <2> QED
    BY <2>1, RowStep DEF Kept, Saved
<1> QED
  BY <1>1, <1>2, <1>3

(* Forms, retargeting and stale ones included, cannot loosen this much: a      *)
(* promotion is the next epoch, it was decided on a copy of the epoch it ends, *)
(* in which the new primary passed the data-safety gate, and every other copy  *)
(* in hand is then of the past - so of all the promotions decided on one epoch,*)
(* by watchdogs and by hand, one at most is ever written.                      *)
PromotionIsGated ==
  [][row'.epoch # row.epoch =>
       /\ row'.epoch = row.epoch + 1
       /\ \E c \in Record : Holds(c) /\ c.epoch = row.epoch /\ Eligible(c, row'.primary)
       /\ \A c \in Record : Holds(c)' => c.epoch < row'.epoch]_row

LEMMA GatedStep ==
  TypeOK /\ NotAhead /\ [Next]_vars /\ row'.epoch # row.epoch =>
    /\ row'.epoch = row.epoch + 1
    /\ \E c \in Record : Holds(c) /\ c.epoch = row.epoch /\ Eligible(c, row'.primary)
    /\ \A c \in Record : Holds(c)' => c.epoch < row'.epoch
<1> SUFFICES ASSUME TypeOK, NotAhead, [Next]_vars, row'.epoch # row.epoch
             PROVE  /\ row'.epoch = row.epoch + 1
                    /\ \E c \in Record : /\ Holds(c) /\ c.epoch = row.epoch
                                        /\ Eligible(c, row'.primary)
                    /\ \A c \in Record : Holds(c)' => c.epoch < row'.epoch
  OBVIOUS
<1>1. PICK c \in Record : \E r \in c.replicas :
        Holds(c) /\ Eligible(c, r) /\ row.epoch = c.epoch /\ row' = Swap(c, r)
  BY RowStep DEF Kept, Saved, Promoted
<1>2. PICK r \in c.replicas : Eligible(c, r) /\ row' = Swap(c, r)
  BY <1>1
<1>3. r \in Targets
  BY DEF Record
<1>4. row'.primary = r /\ row'.epoch = row.epoch + 1
  BY <1>1, <1>2, <1>3, SwapIsRecord
<1>5. ASSUME NEW d \in Record, Holds(d)' PROVE d.epoch < row'.epoch
  <2>1. d.epoch \in Nat /\ row.epoch \in Nat
    BY DEF TypeOK, Record
  <2>2. d.epoch <= row.epoch
    BY <1>5, <2>1, CopyStep DEF NotAhead
  <2> QED
    BY <1>4, <2>1, <2>2
<1> QED
  BY <1>1, <1>2, <1>4, <1>5

(* A promotion counts one epoch, decided in it and past the gate, and ends all *)
(* other decisions of it: whatever the owner's forms do to the targets.        *)
THEOREM PromotionsAreGated == Spec => PromotionIsGated
<1> DEFINE A == row'.epoch # row.epoch =>
       /\ row'.epoch = row.epoch + 1
       /\ \E c \in Record : Holds(c) /\ c.epoch = row.epoch /\ Eligible(c, row'.primary)
       /\ \A c \in Record : Holds(c)' => c.epoch < row'.epoch
<1>1. Init => NotAhead
  BY NothingHeldInit DEF NotAhead
<1>2. TypeOK /\ NotAhead /\ [Next]_vars => [A]_row
  BY GatedStep
<1> QED
  BY <1>1, <1>2, TypeCorrect, NotAheadStep, PTL DEF Spec, PromotionIsGated

--------------------------------------------------------------------------------
(* The fence. A held copy is never ahead of the record, and the configuration  *)
(* of one of the same epoch is one that the record has had in it.              *)

Current(c) ==
  /\ c.live /\ c.epoch <= row.epoch
  /\ c.epoch = row.epoch => Configuration(c) \in shown

FenceInv ==
  /\ Configuration(row) \in shown
  /\ \A c \in Record : Holds(c) => Current(c)

LEMMA FenceStep == TypeOK /\ FenceInv /\ [Next]_vars => FenceInv'
<1> SUFFICES ASSUME TypeOK, FenceInv, [Next]_vars PROVE FenceInv'
  OBVIOUS
<1>1. row.epoch \in Nat /\ \A c \in Record : c.epoch \in Nat
  BY DEF TypeOK, Record
<1>2. ASSUME NEW c \in Record, Holds(c)' PROVE Current(c)
  BY <1>1, <1>2, CopyStep DEF FenceInv, Current
<1>3. CASE Kept
  <2>1. Configuration(row') = Configuration(row) /\ shown \subseteq shown' /\ row'.epoch = row.epoch
    BY <1>3 DEF Kept, Configuration
  <2> QED
    BY <1>2, <2>1 DEF FenceInv, Current
<1>4. CASE Promoted
  <2>1. row'.epoch = row.epoch + 1
    BY <1>4, SwapIsRecord DEF Promoted, Record
  <2>2. Configuration(row') \in shown'
    BY <1>1, <1>4, <2>1 DEF Promoted, Remember
  <2> QED
    BY <1>1, <1>2, <2>1, <2>2 DEF FenceInv, Current
<1>5. CASE Saved
  <2>1. Configuration(row') \in shown' /\ shown \subseteq shown' /\ row'.epoch = row.epoch
    BY <1>5 DEF Saved, Remember
  <2> QED
    BY <1>2, <2>1 DEF FenceInv, Current
<1> QED
  BY <1>3, <1>4, <1>5, RowStep

LEMMA FenceInvariant == Spec => [](TypeOK /\ FenceInv)
<1>1. Init => FenceInv
  BY NothingHeldInit DEF FenceInv, Init
<1>2. TypeOK /\ FenceInv /\ [Next]_vars => FenceInv'
  BY FenceStep
<1> QED
  BY <1>1, <1>2, TypeCorrect, PTL DEF Spec

(* The record behaves as the abstract primary, whatever the owner's forms hold  *)
(* and however stale they and the promotions' copies are: a promotion counts     *)
(* one epoch and exchanges primary and replica within a configuration of the     *)
(* epoch it ends, and nothing but a promotion or a saved form moves the targets. *)
THEOREM FailoverImplementsPrimary == Spec => ImplementsPrimary
<1>1. Init => Abstract!Init
  <2> SUFFICES ASSUME Init PROVE Abstract!Init
    OBVIOUS
  <2>1. PICK p \in Targets, auto \in BOOLEAN : \E reps \in SUBSET (Targets \ {p}) :
          row = [live |-> TRUE, epoch |-> 0, primary |-> p, replicas |-> reps,
                 health |-> AllFresh, policy |-> [auto |-> auto, rev |-> 0]]
    BY DEF Init
  <2> QED
    BY <2>1 DEF Init, Abstract!Init, Configuration, Abstract!Configuration
<1>2. TypeOK /\ FenceInv /\ [Next]_vars => [Abstract!Next]_(Abstract!vars)
  <2> SUFFICES ASSUME TypeOK, FenceInv, [Next]_vars PROVE [Abstract!Next]_(Abstract!vars)
    OBVIOUS
  <2>1. CASE Kept
    <3>1. shown' = shown /\ policy' = policy
      BY <2>1 DEF Kept, FenceInv
    <3> QED
      BY <2>1, <3>1 DEF Kept, Abstract!Next, Abstract!Remove, Abstract!vars
  <2>2. CASE Promoted
    <3>1. PICK c \in Record : \E r \in c.replicas :
            Holds(c) /\ row.live /\ row.epoch = c.epoch /\ row' = Swap(c, r)
      BY <2>2 DEF Promoted
    <3>2. PICK r \in c.replicas : row' = Swap(c, r)
      BY <3>1
    <3>3. r \in Targets
      BY DEF Record
    <3>4. /\ row'.epoch = row.epoch + 1 /\ row'.live = c.live /\ row'.primary = r
          /\ row'.replicas = (c.replicas \ {r}) \cup {c.primary}
      BY <3>1, <3>2, <3>3, SwapIsRecord
    <3>5. c.live /\ Configuration(c) \in shown
      BY <3>1 DEF FenceInv, Current
    <3>6. row.live \in BOOLEAN /\ c.live \in BOOLEAN /\ row.epoch \in Nat
      BY DEF TypeOK, Record
    <3>7. /\ Configuration(c).replicas = c.replicas /\ Configuration(c).primary = c.primary
          /\ Configuration(row') = Abstract!Configuration(row'.primary, row'.replicas)
      BY DEF Configuration, Abstract!Configuration
    <3>8. shown' = {Configuration(row')} /\ policy' = policy
      BY <2>2, <3>4, <3>6 DEF Promoted, Remember
    <3>9. row'.live = row.live /\ row.live
      BY <3>1, <3>4, <3>5, <3>6
    <3> QED
      BY <3>4, <3>5, <3>7, <3>8, <3>9 DEF Abstract!Next, Abstract!Promote
  <2>3. CASE Saved
    <3>1. shown' = shown \cup {Abstract!Configuration(row'.primary, row'.replicas)}
      BY <2>3 DEF Saved, Remember, Configuration, Abstract!Configuration
    <3> QED
      BY <2>3, <3>1 DEF Saved, Abstract!Next, Abstract!Retarget
  <2> QED
    BY <2>1, <2>2, <2>3, RowStep
<1> QED
  BY <1>1, <1>2, FenceInvariant, PTL DEF ImplementsPrimary, Abstract!Spec, Spec
================================================================================
