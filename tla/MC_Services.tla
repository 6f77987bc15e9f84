------------------------------ MODULE MC_Services ------------------------------
(* The services, for TLC, with the federation engine's goroutines and what    *)
(* they do to one object through a failover. They share the process and       *)
(* nothing else - each has files, locks and goroutines of its own - so a      *)
(* behaviour follows one of them, and the run is over all those in Services.  *)
EXTENDS ClusterSecret, Connections, SyncJob, BackupRuns, WebhookDelivery,
        InviteRedemption, ShareDownloads, FederationLoops, PolicyGrants,
        FederationTakeover

CONSTANT Services
VARIABLE service

Daily == [len |-> 2, keep |-> 1]
Weekly == [len |-> 3, keep |-> 2]
Retention == {Daily, Weekly}
Wants == <<"host", "all">>

servicesVars == <<service, secretVars, connVars, syncVars, bkVars, whVars, inviteVars,
                  shareVars, loopVars, policyVars, tkVars>>

Init ==
  /\ service \in Services
  /\ SecretInit /\ ConnInit /\ SyncInit /\ BkInit /\ WhInit /\ InviteInit /\ ShareInit
  /\ LoopInit /\ PolicyInit /\ TkInit
  /\ service # "connections" => disk = [id \in ConnIds |-> NoConn]
  /\ service # "sync" => dst = {}
  /\ service # "loops" => fed = "none"
  /\ service # "takeover" => fb.primary = CHOOSE t \in Targets : TRUE

Secrets == service = "secrets" /\ SecretNext
Conns == service = "connections" /\ ConnNext
Syncs == service = "sync" /\ SyncNext
Backups == service = "backup" /\ BkNext
Webhooks == service = "webhook" /\ WhNext
Invites == service = "invites" /\ InviteNext
Shares == service = "shares" /\ ShareNext
Loops == service = "loops" /\ LoopNext
Grants == service = "policy" /\ PolicyNext
Takeovers == service = "takeover" /\ TkNext

Next ==
  /\ UNCHANGED service
  /\ \/ Secrets /\ UNCHANGED <<connVars, syncVars, bkVars, whVars, inviteVars, shareVars, loopVars, policyVars, tkVars>>
     \/ Conns /\ UNCHANGED <<secretVars, syncVars, bkVars, whVars, inviteVars, shareVars, loopVars, policyVars, tkVars>>
     \/ Syncs /\ UNCHANGED <<secretVars, connVars, bkVars, whVars, inviteVars, shareVars, loopVars, policyVars, tkVars>>
     \/ Backups /\ UNCHANGED <<secretVars, connVars, syncVars, whVars, inviteVars, shareVars, loopVars, policyVars, tkVars>>
     \/ Webhooks /\ UNCHANGED <<secretVars, connVars, syncVars, bkVars, inviteVars, shareVars, loopVars, policyVars, tkVars>>
     \/ Invites /\ UNCHANGED <<secretVars, connVars, syncVars, bkVars, whVars, shareVars, loopVars, policyVars, tkVars>>
     \/ Shares /\ UNCHANGED <<secretVars, connVars, syncVars, bkVars, whVars, inviteVars, loopVars, policyVars, tkVars>>
     \/ Loops /\ UNCHANGED <<secretVars, connVars, syncVars, bkVars, whVars, inviteVars, shareVars, policyVars, tkVars>>
     \/ Grants /\ UNCHANGED <<secretVars, connVars, syncVars, bkVars, whVars, inviteVars, shareVars, loopVars, tkVars>>
     \/ Takeovers /\ UNCHANGED <<secretVars, connVars, syncVars, bkVars, whVars, inviteVars, shareVars, loopVars, policyVars>>

(* The goroutines of a service are scheduled while it is the one followed, and *)
(* calls return that have a deadline or are cancelled. A backup's call that    *)
(* never returns is Stalls; a sync's is one that nothing makes return.        *)
Fair ==
  /\ \A r \in Runs : WF_syncVars(service = "sync" /\ SyncScheduled(r))
  /\ \A r \in Tasks : WF_bkVars(service = "backup" /\ BkRun(r))
  /\ \A d \in Deliveries : WF_whVars(service = "webhook" /\ deliver(d))
  /\ WF_whVars(service = "webhook" /\ DispatcherReturns)
  /\ \A g \in Threads : WF_loopVars(service = "loops" /\ Works(g))
  /\ \A g \in Threads : SF_loopVars(service = "loops" /\ Returns(g))

Spec == Init /\ [][Next]_servicesVars
FairSpec == Spec /\ Fair
================================================================================
