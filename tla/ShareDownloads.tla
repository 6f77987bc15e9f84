----------------------------- MODULE ShareDownloads -----------------------------
(* One share with a download limit, in memory and in shares.json, and the      *)
(* visitors who download through it. The file is written whole: a write for   *)
(* another share writes this one too.                                         *)
EXTENDS Naturals

CONSTANTS Visitors, DownloadLimit, NoShare

VARIABLES
  share,     \* sharesCache: [used, revoked]
  shareFile, \* shares.json
  visits,    \* shareGetHandler, per visitor
  served     \* history: redirects sent

shareVars == <<share, shareFile, visits, served>>

Share == [used : Nat, revoked : BOOLEAN]
ASSUME ShareAssumption == DownloadLimit \in Nat /\ NoShare \notin Share

(* saveJSON, with no rollback.                                                *)
SaveShare(new) == share' = new /\ shareFile' \in {new, shareFile}

ShareInit ==
  /\ share = NoShare /\ shareFile = NoShare
  /\ visits = [v \in Visitors |-> "idle"] /\ served = 0

CreateShare ==
  /\ share = NoShare /\ served = 0 /\ SaveShare([used |-> 0, revoked |-> FALSE])
  /\ UNCHANGED <<visits, served>>

RevokeShare ==
  /\ share # NoShare /\ ~share.revoked
  /\ SaveShare([share EXCEPT !.revoked = TRUE])
  /\ UNCHANGED <<visits, served>>

OtherShareSaved ==
  /\ shareFile' = share
  /\ UNCHANGED <<share, visits, served>>

(* validateShareBasic, the expiry, the limit and the password, on one copy.   *)
Validate(v) ==
  /\ visits[v] = "idle"
  /\ share # NoShare /\ ~share.revoked /\ share.used < DownloadLimit
  /\ visits' = [visits EXCEPT ![v] = "presign"]
  /\ UNCHANGED <<share, shareFile, served>>

PresignFails(v) ==
  /\ visits[v] = "presign" /\ visits' = [visits EXCEPT ![v] = "idle"]
  /\ UNCHANGED <<share, shareFile, served>>

(* Mutant: the limit is the handler's business.                               *)
CountOnly(v) ==
  /\ visits[v] = "presign" /\ visits' = [visits EXCEPT ![v] = "idle"]
  /\ IF share = NoShare \/ share.used > DownloadLimit
     THEN UNCHANGED <<share, shareFile, served>>
     ELSE /\ SaveShare([share EXCEPT !.used = @ + 1])
          /\ served' = IF shareFile' = share' THEN served + 1 ELSE served

(* IncrementDownloads looks at the limit again, but not at Revoked; the        *)
(* redirect is sent when the count is on disk.                                *)
IncrementDownloads(v) ==
  /\ visits[v] = "presign" /\ visits' = [visits EXCEPT ![v] = "idle"]
  /\ IF share = NoShare \/ share.used >= DownloadLimit
     THEN UNCHANGED <<share, shareFile, served>>
     ELSE /\ SaveShare([share EXCEPT !.used = @ + 1])
          /\ served' = IF shareFile' = share' THEN served + 1 ELSE served

ShareRestart ==
  /\ share' = shareFile /\ visits' = [v \in Visitors |-> "idle"]
  /\ UNCHANGED <<shareFile, served>>

ShareNext ==
  \/ CreateShare \/ RevokeShare \/ OtherShareSaved \/ ShareRestart
  \/ \E v \in Visitors : Validate(v) \/ PresignFails(v) \/ IncrementDownloads(v)

ShareSpec == ShareInit /\ [][ShareNext]_shareVars

--------------------------------------------------------------------------------
ShareTypeOK ==
  /\ {share, shareFile} \subseteq Share \cup {NoShare}
  /\ visits \in [Visitors -> {"idle", "presign"}] /\ served \in Nat

(* "Returns error if not found or limit reached": with any number of visitors  *)
(* past the first look at the limit, failed writes and restarts, the link     *)
(* sends no more redirects than its limit.                                    *)
ServedWithinLimit == served <= DownloadLimit
================================================================================
