------------------------- MODULE WebhookDelivery_proofs -------------------------
(* The automatic disable of a failing webhook, for every threshold, number of  *)
(* attempts, queue and set of deliveries and owners.                           *)
EXTENDS WebhookDelivery, TLAPS

Ats == {"off", "attempt", "backoff", "record", "audit"}

SendRow == [at : Ats, tries : Nat, ok : BOOLEAN]

(* The rows have their types, and what a delivery records is a result.         *)
HookInv ==
  /\ {hook, hookFile} \subseteq Hooks \cup {NoHook}
  /\ sends \in [Deliveries -> SendRow]
  /\ renewed \in BOOLEAN

WebhookInv == HookInv /\ FailingHookIsOff

(* What RecordDelivery makes of a row, at the threshold and on either side.    *)
LEMMA RecordedRow ==
  ASSUME NEW h \in Hooks, NEW ok \in BOOLEAN
  PROVE  /\ Recorded(h, ok) \in Hooks
         /\ Recorded(h, ok).failures >= AutoDisableThreshold => ~Recorded(h, ok).enabled
<1>1. CASE ok
  <2>1. Recorded(h, ok) = [h EXCEPT !.failures = 0]
    BY <1>1 DEF Recorded
  <2>2. Recorded(h, ok).failures = 0 /\ Recorded(h, ok).enabled = h.enabled
    BY <2>1 DEF Hooks
  <2>3. Recorded(h, ok) \in Hooks
    BY <2>1, WebhookAssumption DEF Hooks
  <2> QED BY <2>2, <2>3, WebhookAssumption
<1>2. CASE ~ok
  <2> DEFINE n == IF h.failures > AutoDisableThreshold THEN h.failures ELSE h.failures + 1
             on == h.enabled /\ n < AutoDisableThreshold
  <2>1. n \in 0..(AutoDisableThreshold + 1)
    BY WebhookAssumption DEF Hooks
  <2>2. Recorded(h, ok) = [enabled |-> on, failures |-> n]
    BY <1>2 DEF Recorded
  <2>3. on \in BOOLEAN
    OBVIOUS
  <2>4. n >= AutoDisableThreshold => ~on
    BY <2>1, WebhookAssumption
  <2> HIDE DEF n, on
  <2>5. Recorded(h, ok) \in Hooks
    BY <2>1, <2>2, <2>3 DEF Hooks
  <2>6. Recorded(h, ok).enabled = on /\ Recorded(h, ok).failures = n
    BY <2>2
  <2> QED BY <2>4, <2>5, <2>6
<1> QED BY <1>1, <1>2

LEMMA WebhookInit == WhInit => WebhookInv
<1> SUFFICES ASSUME WhInit PROVE WebhookInv
  OBVIOUS
<1>1. hook = [enabled |-> TRUE, failures |-> 0] /\ hookFile = hook
  BY DEF WhInit
<1>2. hook \in Hooks /\ hook.failures = 0
  BY <1>1, WebhookAssumption DEF Hooks
<1>3. sends \in [Deliveries -> SendRow]
  BY DEF WhInit, NoSend, SendRow, Ats
<1>4. renewed = FALSE
  BY DEF WhInit
<1>5. HookInv
  BY <1>1, <1>2, <1>3, <1>4 DEF HookInv
<1>6. FailingHookIsOff
  <2>1. ~(0 >= AutoDisableThreshold)
    BY WebhookAssumption
  <2> QED BY <2>1, <1>2 DEF FailingHookIsOff
<1> QED BY <1>5, <1>6 DEF WebhookInv

LEMMA SendMoves ==
  ASSUME HookInv, NEW d \in Deliveries, NEW s \in SendRow,
         sends' = [sends EXCEPT ![d] = s]
  PROVE  sends' \in [Deliveries -> SendRow]
BY DEF HookInv

LEMMA SendSteps ==
  ASSUME HookInv, NEW d \in Deliveries, NEW at \in Ats,
         Send(d, at) \/ Ends(d)
  PROVE  sends' \in [Deliveries -> SendRow]
<1>1. CASE Ends(d)
  <2>1. NoSend \in SendRow
    BY DEF NoSend, SendRow, Ats
  <2> QED BY <1>1, <2>1, SendMoves DEF Ends
<1>2. CASE Send(d, at)
  <2> DEFINE s == [sends[d] EXCEPT !.at = at]
  <2>1. s \in SendRow
    BY DEF HookInv, SendRow
  <2>2. sends' = [sends EXCEPT ![d] = s]
    BY <1>2 DEF Send, HookInv
  <2> HIDE DEF s
  <2> QED BY <2>1, <2>2, SendMoves
<1> QED BY <1>1, <1>2

(* A step that leaves the store alone.                                         *)
LEMMA StoreKept ==
  ASSUME WebhookInv, UNCHANGED <<hook, hookFile, renewed>>, HookInv'
  PROVE  WebhookInv'
BY DEF WebhookInv, FailingHookIsOff

LEMMA RecordStep ==
  ASSUME WebhookInv, NEW d \in Deliveries, RecordDelivery(d)
  PROVE  WebhookInv'
<1> USE DEF WebhookInv, HookInv
<1>1. CASE hook = NoHook
  <2>1. Ends(d) /\ UNCHANGED <<hook, hookFile, renewed>> /\ sends[d].at = "record"
    BY <1>1 DEF RecordDelivery
  <2>2. sends' \in [Deliveries -> SendRow]
    BY <2>1, SendSteps DEF Ats
  <2>3. HookInv'
    BY <2>1, <2>2
  <2> QED BY <2>1, <2>2, <2>3, StoreKept
<1>2. CASE hook # NoHook
  <2>1. hook \in Hooks /\ sends[d].ok \in BOOLEAN
    BY <1>2 DEF SendRow
  <2> DEFINE new == Recorded(hook, sends[d].ok)
  <2>2. PICK written \in BOOLEAN :
          /\ Write(new, written)
          /\ IF written /\ TurnedOff(hook') THEN Send(d, "audit") ELSE Ends(d)
          /\ renewed' = FALSE
    BY <1>2 DEF RecordDelivery
  <2>3. hook' = new /\ hookFile' \in {new, hookFile}
    BY <2>2 DEF Write
  <2>4. new \in Hooks /\ (new.failures >= AutoDisableThreshold => ~new.enabled)
    BY <2>1, RecordedRow
  <2>5. sends[d].at = "record"
    BY DEF RecordDelivery
  <2>6. sends' \in [Deliveries -> SendRow]
       
    BY <2>2, <2>5, SendSteps DEF Ats
  <2>8. HookInv'
    BY <2>2, <2>3, <2>4, <2>6
  <2>9. FailingHookIsOff'
    BY <2>3, <2>4 DEF FailingHookIsOff
  <2> QED BY <2>8, <2>9
<1> QED BY <1>1, <1>2

LEMMA WebhookStep == WebhookInv /\ [WhNext]_whVars => WebhookInv'
<1> SUFFICES ASSUME WebhookInv, [WhNext]_whVars PROVE WebhookInv'
  OBVIOUS
<1>1. CASE UNCHANGED <<hook, hookFile, renewed, sends>>
  BY <1>1 DEF WebhookInv, HookInv, FailingHookIsOff
<1>2. CASE Emit \/ EmitAgain \/ DispatcherReturns \/ StopEngine
  BY <1>2, <1>1 DEF Emit, EmitAgain, DispatcherReturns, StopEngine, Store
<1>3. ASSUME NEW d \in Deliveries, dispatch(d) PROVE WebhookInv'
  <2>1. UNCHANGED <<hook, hookFile, renewed>> /\ sends[d].at = "off"
    BY <1>3 DEF dispatch, Sending, Store
  <2>2. Send(d, "attempt") \/ UNCHANGED sends
    BY <1>3 DEF dispatch
  <2>3. HookInv'
    BY <2>1, <2>2, SendSteps DEF WebhookInv, HookInv, Ats
  <2> QED BY <2>1, <2>3, StoreKept
<1>4. ASSUME NEW d \in Deliveries, attemptDelivery(d) PROVE WebhookInv'
  <2>1. UNCHANGED <<hook, hookFile, renewed>> /\ sends[d].at = "attempt"
    BY <1>4 DEF attemptDelivery, Store
  <2> DEFINE s == [NoSend EXCEPT !.at = "record"]
             n == sends[d].tries + 1
             t == [sends[d] EXCEPT !.at = "backoff", !.tries = n]
  <2>2. PICK u \in {s, [s EXCEPT !.ok = TRUE], t} : sends' = [sends EXCEPT ![d] = u]
    BY <1>4 DEF attemptDelivery, NoSend, WebhookInv, HookInv
  <2>3. n \in Nat
    BY DEF WebhookInv, HookInv, SendRow
  <2> HIDE DEF n
  <2>4. u \in SendRow
    <3>1. t \in SendRow
      BY <2>3 DEF WebhookInv, HookInv, SendRow, Ats
    <3>2. s \in SendRow /\ [s EXCEPT !.ok = TRUE] \in SendRow
      BY DEF NoSend, SendRow, Ats
    <3> QED BY <3>1, <3>2
  <2>5. HookInv'
    BY <2>1, <2>2, <2>4, SendMoves DEF WebhookInv, HookInv
  <2> QED BY <2>1, <2>5, StoreKept
<1>5. ASSUME NEW d \in Deliveries, Backoff(d) PROVE WebhookInv'
  <2>1. UNCHANGED <<hook, hookFile, renewed>> /\ sends[d].at = "backoff"
    BY <1>5 DEF Backoff, Store
  <2>2. Send(d, "attempt") \/ Ends(d)
    BY <1>5 DEF Backoff
  <2>3. HookInv'
    BY <2>1, <2>2, SendSteps DEF WebhookInv, HookInv, Ats
  <2> QED BY <2>1, <2>3, StoreKept
<1>6. ASSUME NEW d \in Deliveries, RecordDelivery(d) PROVE WebhookInv'
  BY <1>6, RecordStep
<1>7. ASSUME NEW d \in Deliveries, AutoDisabled(d) PROVE WebhookInv'
  BY <1>7 DEF AutoDisabled, Ends, NoSend, WebhookInv, HookInv, FailingHookIsOff, SendRow, Ats
<1>8. ASSUME NEW e \in Owners, EditRead(e) PROVE WebhookInv'
  BY <1>8, <1>1 DEF EditRead
<1>9. ASSUME NEW e \in Owners, EditWrite(e) PROVE WebhookInv'
  <2>1. CASE hook = NoHook
    BY <1>9, <1>1, <2>1 DEF EditWrite
  <2>2. CASE hook # NoHook
    <3> DEFINE new == [hook EXCEPT !.enabled = (puts[e] = "enable")]
    <3>1. hook' = new /\ hookFile' \in {new, hookFile} /\ UNCHANGED sends
          /\ renewed' = (renewed \/ puts[e] = "enable")
      BY <1>9, <2>2 DEF EditWrite, Write
    <3>2. hook \in Hooks
      BY <2>2 DEF WebhookInv, HookInv
    <3>3. (puts[e] = "enable") \in BOOLEAN
      OBVIOUS
    <3>4. new \in Hooks /\ new.failures = hook.failures /\ new.enabled = (puts[e] = "enable")
      BY <3>2, <3>3 DEF Hooks
    <3> HIDE DEF new
    <3>5. HookInv'
      BY <3>1, <3>4 DEF WebhookInv, HookInv
    <3>6. FailingHookIsOff'
      BY <3>1, <3>4, <2>2 DEF WebhookInv, FailingHookIsOff
    <3> QED BY <3>5, <3>6 DEF WebhookInv
  <2> QED BY <2>1, <2>2
<1>10. CASE DeleteHook
  BY <1>10 DEF DeleteHook, Write, WebhookInv, HookInv, FailingHookIsOff
<1>11. CASE WhRestart
  BY <1>11 DEF WhRestart, WebhookInv, HookInv, FailingHookIsOff, NoSend, SendRow, Ats
<1>12. CASE UNCHANGED whVars
  BY <1>12, <1>1 DEF whVars
<1> QED BY <1>2, <1>3, <1>4, <1>5, <1>6, <1>7, <1>8, <1>9, <1>10, <1>11, <1>12
        DEF WhNext, deliver

(* The store's auto-disable: a webhook at the threshold is off.                *)
THEOREM FailingHookOff == WhSpec => []FailingHookIsOff
BY WebhookInit, WebhookStep, PTL DEF WhSpec, WebhookInv
================================================================================
