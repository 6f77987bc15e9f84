---------------------------- MODULE FederatedPrimary ----------------------------
(***************************************************************************)
(* What failover promises to a reader of a federation's record. A            *)
(* configuration is a primary and its replicas. Each generation (epoch)      *)
(* begins with a promotion, which exchanges the primary of a configuration   *)
(* of the generation it ends with one of its replicas: no promotion is       *)
(* decided on an older generation, and none loses or gains a member. Between *)
(* promotions the owner may choose other targets, which counts an edit and   *)
(* is fenced by nothing: not by the generation the owner saw, and a          *)
(* promotion may bring back the configuration an edit has just replaced.     *)
(* FederationFailover implements it.                                         *)
(***************************************************************************)
EXTENDS Naturals

CONSTANT Targets

VARIABLES
  live, epoch, primary, replicas,
  edits,      \* how often the owner saved the targets
  shown       \* the configurations the record has had in this generation

vars == <<live, epoch, primary, replicas, edits, shown>>

Configuration(p, reps) == [primary |-> p, replicas |-> reps]

Init ==
  /\ live = TRUE /\ epoch = 0 /\ edits = 0
  /\ primary \in Targets /\ replicas \in SUBSET (Targets \ {primary})
  /\ shown = {Configuration(primary, replicas)}

Promote ==
  /\ live /\ epoch' = epoch + 1
  /\ \E old \in shown :
       /\ primary' \in old.replicas
       /\ replicas' = (old.replicas \ {primary'}) \cup {old.primary}
  /\ shown' = {Configuration(primary', replicas')}
  /\ UNCHANGED <<live, edits>>

Retarget ==
  /\ live /\ edits' = edits + 1
  /\ primary' \in Targets /\ replicas' \in SUBSET (Targets \ {primary'}) /\ replicas' # {}
  /\ shown' = shown \cup {Configuration(primary', replicas')}
  /\ UNCHANGED <<live, epoch>>

Remove == live /\ live' = FALSE /\ UNCHANGED <<epoch, primary, replicas, edits, shown>>

Next == Promote \/ Retarget \/ Remove

Spec == Init /\ [][Next]_vars
================================================================================
