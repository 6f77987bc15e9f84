----------------------------- MODULE WebhookDelivery -----------------------------
(* One webhook and the engine that delivers to it: the emit queue, the         *)
(* dispatcher, the delivery goroutines with their retries, the row in memory   *)
(* and in webhooks.json, and the handlers that write the row. Events are alike *)
(* (they all match when the webhook is enabled), so the queue is its length;   *)
(* FailureCount saturates one above the threshold, the only value it is        *)
(* compared with.                                                              *)
EXTENDS Naturals

CONSTANTS Deliveries, Emitters, Owners, NoHook, QueueCap, Attempts,
          AutoDisableThreshold

VARIABLES
  hook,        \* Store.rows: [enabled, failures]
  hookFile,    \* webhooks.json
  queue,       \* len(Engine.events)
  emits,       \* how many Emit calls are between their two looks at the queue
  dispatching, \* runDispatcher has not returned
  quit,        \* Engine.quit is closed
  sends,       \* delivery goroutines
  puts,        \* update, enable and disable requests: what they will write
  renewed,     \* history: "enabled" was written since the last result
  unsaid       \* history: the threshold turned the webhook off, and nothing says so

whVars == <<hook, hookFile, queue, emits, dispatching, quit, sends, puts, renewed,
            unsaid>>

Hooks == [enabled : BOOLEAN, failures : 0..(AutoDisableThreshold + 1)]
ASSUME WebhookAssumption == AutoDisableThreshold \in Nat \ {0} /\ NoHook \notin Hooks
NoSend == [at |-> "off", tries |-> 0, ok |-> FALSE]
Sending == {d \in Deliveries : sends[d].at # "off"}
Send(d, at) == sends' = [sends EXCEPT ![d].at = at]
Ends(d) == sends' = [sends EXCEPT ![d] = NoSend]

(* writeLocked: the map is ahead of the file when it fails.                   *)
Write(h, written) ==
  /\ hook' = h
  /\ hookFile' = IF written THEN h ELSE hookFile

WhInit ==
  /\ hook = [enabled |-> TRUE, failures |-> 0] /\ hookFile = hook
  /\ queue = 0 /\ emits = 0 /\ dispatching = TRUE /\ quit = FALSE
  /\ sends = [d \in Deliveries |-> NoSend] /\ puts = [e \in Owners |-> "idle"]
  /\ renewed = FALSE /\ unsaid = FALSE

Store == <<hook, hookFile, puts, renewed, unsaid>>

(* Emit does not block: on a full queue it takes the oldest event out, and     *)
(* gives its own up if another emitter fills the place first.                 *)
Emit ==
  /\ emits < Emitters
  /\ IF queue < QueueCap
     THEN queue' = queue + 1 /\ UNCHANGED emits
     ELSE queue' = queue - 1 /\ emits' = emits + 1
  /\ UNCHANGED <<dispatching, quit, sends>> /\ UNCHANGED Store

EmitAgain ==
  /\ emits > 0 /\ emits' = emits - 1
  /\ queue' = IF queue < QueueCap THEN queue + 1 ELSE queue
  /\ UNCHANGED <<dispatching, quit, sends>> /\ UNCHANGED Store

(* runDispatcher takes an event, even after quit (select takes any ready case), *)
(* and dispatch starts a delivery if the webhook is enabled. A free delivery   *)
(* stands for the goroutine.                                                  *)
dispatch(d) ==
  /\ dispatching /\ queue > 0 /\ queue' = queue - 1
  /\ d \notin Sending
  /\ IF hook # NoHook /\ hook.enabled THEN Send(d, "attempt") ELSE UNCHANGED sends
  /\ UNCHANGED <<emits, dispatching, quit>> /\ UNCHANGED Store

DispatcherReturns ==
  /\ dispatching /\ quit /\ dispatching' = FALSE
  /\ UNCHANGED <<queue, emits, quit, sends>> /\ UNCHANGED Store

Others == <<queue, emits, dispatching, quit>>

(* Mutant: the attempts are not counted.                                      *)
RetryForever(d) ==
  /\ sends[d].at = "attempt"
  /\ \/ sends' = [sends EXCEPT ![d] = [NoSend EXCEPT !.at = "record", !.ok = TRUE]]
     \/ Send(d, "backoff")
  /\ UNCHANGED Others /\ UNCHANGED Store

(* attemptDelivery: a 2xx ends the loop, and so does the last attempt.        *)
attemptDelivery(d) ==
  /\ sends[d].at = "attempt"
  /\ LET n == sends[d].tries + 1 IN
     \/ sends' = [sends EXCEPT ![d] = [NoSend EXCEPT !.at = "record", !.ok = TRUE]]
     \/ n < Attempts /\ sends' = [sends EXCEPT ![d].at = "backoff", ![d].tries = n]
     \/ n = Attempts /\ sends' = [sends EXCEPT ![d] = [NoSend EXCEPT !.at = "record"]]
  /\ UNCHANGED Others /\ UNCHANGED Store

(* Between attempts: the delay, or Stop, which leaves no record.              *)
Backoff(d) ==
  /\ sends[d].at = "backoff"
  /\ Send(d, "attempt") \/ (quit /\ Ends(d))
  /\ UNCHANGED Others /\ UNCHANGED Store

(* Mutant: the threshold is met exactly once.                                 *)
RecordAt(h, ok) ==
  IF ok THEN [h EXCEPT !.failures = 0]
  ELSE LET n == IF h.failures > AutoDisableThreshold THEN h.failures ELSE h.failures + 1
       IN [enabled |-> h.enabled /\ n # AutoDisableThreshold, failures |-> n]

(* RecordDelivery's new row, and the transition that deliver looks for: the    *)
(* webhook was enabled when it was dispatched and is not after the record.    *)
Recorded(h, ok) ==
  IF ok THEN [h EXCEPT !.failures = 0]
  ELSE LET n == IF h.failures > AutoDisableThreshold THEN h.failures ELSE h.failures + 1
       IN [enabled |-> h.enabled /\ n < AutoDisableThreshold, failures |-> n]
TurnedOff(h) == ~h.enabled

(* A failed write leaves the row changed in memory, and deliver returns before  *)
(* it looks for the transition.                                               *)
RecordDelivery(d) ==
  /\ sends[d].at = "record"
  /\ IF hook = NoHook
     THEN Ends(d) /\ UNCHANGED <<hook, hookFile, renewed, unsaid>>
     ELSE \E written \in BOOLEAN :
            /\ Write(Recorded(hook, sends[d].ok), written)
            /\ IF written /\ TurnedOff(hook') THEN Send(d, "audit") ELSE Ends(d)
            /\ unsaid' = (unsaid \/ (hook.enabled /\ ~hook'.enabled))
            /\ renewed' = FALSE
  /\ UNCHANGED puts /\ UNCHANGED Others

(* webhook:auto_disabled. *)
AutoDisabled(d) ==
  /\ sends[d].at = "audit"
  /\ unsaid' = FALSE /\ Ends(d)
  /\ UNCHANGED <<hook, hookFile, puts, renewed>> /\ UNCHANGED Others

(* The handlers read the row, and write all of it but the failures: Enabled is *)
(* the request's, or what was read.                                           *)
EditRead(e) ==
  /\ puts[e] = "idle" /\ hook # NoHook
  /\ \E at \in {"enable", "disable"} : puts' = [puts EXCEPT ![e] = at]
  /\ UNCHANGED <<hook, hookFile, sends, renewed, unsaid>> /\ UNCHANGED Others

EditWrite(e) ==
  /\ puts[e] # "idle" /\ puts' = [puts EXCEPT ![e] = "idle"]
  /\ IF hook = NoHook
     THEN UNCHANGED <<hook, hookFile, renewed, unsaid>>
     ELSE /\ \E written \in BOOLEAN :
               Write([hook EXCEPT !.enabled = (puts[e] = "enable")], written)
          /\ renewed' = (renewed \/ puts[e] = "enable")
          /\ unsaid' = FALSE
  /\ UNCHANGED sends /\ UNCHANGED Others

DeleteHook ==
  /\ hook # NoHook /\ \E written \in BOOLEAN : Write(NoHook, written)
  /\ unsaid' = FALSE
  /\ UNCHANGED <<sends, puts, renewed>> /\ UNCHANGED Others

(* Engine.Stop closes quit; the process ends when it returns, or it crashes.   *)
StopEngine ==
  /\ ~quit /\ quit' = TRUE
  /\ UNCHANGED <<queue, emits, dispatching, sends>> /\ UNCHANGED Store

WhRestart ==
  /\ hook' = hookFile /\ hookFile' = hookFile
  /\ queue' = 0 /\ emits' = 0 /\ dispatching' = TRUE /\ quit' = FALSE
  /\ sends' = [d \in Deliveries |-> NoSend] /\ puts' = [e \in Owners |-> "idle"]
  /\ renewed' = TRUE
  /\ unsaid' = (unsaid /\ hookFile # NoHook /\ ~hookFile.enabled)

deliver(d) == attemptDelivery(d) \/ Backoff(d) \/ RecordDelivery(d) \/ AutoDisabled(d)

WhNext ==
  \/ Emit \/ EmitAgain
  \/ \E d \in Deliveries : dispatch(d) \/ deliver(d)
  \/ \E e \in Owners : EditRead(e) \/ EditWrite(e)
  \/ DispatcherReturns \/ DeleteHook \/ StopEngine \/ WhRestart

(* The delays end, the HTTP client has a timeout, and select does not pass a   *)
(* closed channel over for ever.                                              *)
WhFair == WF_whVars(DispatcherReturns) /\ \A d \in Deliveries : WF_whVars(deliver(d))
WhSpec == WhInit /\ [][WhNext]_whVars /\ WhFair

--------------------------------------------------------------------------------
WhTypeOK ==
  /\ {hook, hookFile} \subseteq Hooks \cup {NoHook}
  /\ queue \in 0..QueueCap /\ emits \in 0..Emitters
  /\ sends \in [Deliveries -> [at : {"off", "attempt", "backoff", "record", "audit"},
                               tries : 0..Attempts, ok : BOOLEAN]]
  /\ puts \in [Owners -> {"idle", "enable", "disable"}]
  /\ {dispatching, quit, renewed, unsaid} \subseteq BOOLEAN

(* "after AutoDisableThreshold consecutive failures the store flips Enabled":  *)
(* however deliveries, edits and re-enablings interleave, a webhook with that  *)
(* many failures is off, unless it was enabled, or the process restarted, since*)
(* its last result.                                                           *)
FailingHookIsOff ==
  hook # NoHook /\ hook.failures >= AutoDisableThreshold => ~hook.enabled \/ renewed

(* "... and the engine emits webhook:auto_disabled": while a webhook that the  *)
(* threshold turned off has had no such entry, nor an owner's edit since, some *)
(* delivery is still to make one. The code does not keep this: the flip is in  *)
(* memory before the write that may fail, and a failed write (store.go:309-311)*)
(* sends deliver back before the audit (engine.go:508-515), with the webhook   *)
(* off; so does a crash between the write and the entry (README, known        *)
(* disagreements).                                                            *)
DisableIsAudited == unsaid => Sending # {}

(* Stop "waits for in-flight deliveries to complete": it returns, whatever is  *)
(* being retried or emitted meanwhile.                                        *)
StopReturns == quit ~> (~quit \/ (~dispatching /\ Sending = {}))
================================================================================
