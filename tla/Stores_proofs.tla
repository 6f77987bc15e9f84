------------------------------ MODULE Stores_proofs ------------------------------
(* The stores that are files and their copies in memory, for every set of ids, *)
(* users, rights, admins, callers, invites and redeemers, whatever saves fail  *)
(* and whenever the process restarts: the connections that are served are the  *)
(* file's, a share stays within its limit, a grant is what the operator was    *)
(* last told, a cluster has one key, and an invite makes one account and is    *)
(* redeemed by its newest token.                                               *)
EXTENDS Connections, ShareDownloads, PolicyGrants, ClusterSecret, InviteRedemption, TLAPS

--------------------------------------------------------------------------------
(* Connections.                                                               *)
(* The variables the property speaks of have their types: a row in the cache   *)
(* is never the mark for "no row", and neither is a row of the file.           *)
ServedInv == ConnTypeOK /\ MemoryIsOnDisk

LEMMA ToDiskType ==
  ASSUME NEW c \in Row \cup {NoConn}
  PROVE  /\ toDisk(c) \in DiskRow \cup {NoConn}
         /\ toDisk(c) = NoConn <=> c = NoConn
<1>1. CASE c = NoConn
  BY <1>1 DEF toDisk
<1>2. CASE c # NoConn
  <2>1. toDisk(c) = [label |-> c.label, plain |-> FALSE, enc |-> c.secret, csk |-> c.csk]
    BY <1>2 DEF toDisk
  <2>2. c.label \in Labels /\ c.secret \in BOOLEAN /\ c.csk \in BOOLEAN
    BY <1>2 DEF Row
  <2>3. toDisk(c) \in DiskRow
    BY <2>1, <2>2 DEF DiskRow
  <2> QED BY <2>3, <1>2, ConnAssumption
<1> QED BY <1>1, <1>2

LEMMA LoadedType ==
  ASSUME NEW d \in DiskRow \cup {NoConn}
  PROVE  loaded(d) \in Row \cup {NoConn}
BY DEF loaded, Row, DiskRow

(* A row that load keeps is the row the file holds, once it holds no secret in *)
(* clear.                                                                     *)
LEMMA LoadedBack ==
  ASSUME NEW d \in DiskRow \cup {NoConn}, d # NoConn => ~d.plain
  PROVE  d = toDisk(loaded(d)) \/ (loaded(d) = NoConn /\ Dropped(d))
<1>1. CASE d = NoConn
  BY <1>1 DEF loaded, toDisk
<1>2. CASE d # NoConn /\ Dropped(d)
  BY <1>2 DEF loaded
<1>3. CASE d # NoConn /\ ~Dropped(d)
  <2>1. loaded(d) = [label |-> d.label, secret |-> d.plain \/ d.enc, csk |-> d.csk]
    BY <1>3 DEF loaded
  <2>2. loaded(d) \in Row
    BY <2>1, <1>3 DEF Row, DiskRow
  <2>3. loaded(d) # NoConn
    BY <2>2, ConnAssumption
  <2>4. toDisk(loaded(d)) = [label |-> d.label, plain |-> FALSE, enc |-> d.enc, csk |-> d.csk]
    <3>1. d.plain = FALSE /\ d.enc \in BOOLEAN
      BY <1>3 DEF DiskRow
    <3>2. (d.plain \/ d.enc) = d.enc
      BY <3>1
    <3>3. loaded(d).label = d.label /\ loaded(d).secret = d.enc /\ loaded(d).csk = d.csk
      BY <2>1, <3>2
    <3> QED BY <2>3, <3>3 DEF toDisk
  <2>5. d = [label |-> d.label, plain |-> FALSE, enc |-> d.enc, csk |-> d.csk]
    BY <1>3 DEF DiskRow
  <2> QED BY <2>4, <2>5
<1> QED BY <1>1, <1>2, <1>3

(* saveLocked and the callers' rollback, for any new cache.                    *)
LEMMA SavedKeeps ==
  ASSUME ServedInv, NEW new \in [ConnIds -> Row \cup {NoConn}], Saved(new), opened' = opened
  PROVE  /\ cache' \in [ConnIds -> Row \cup {NoConn}]
         /\ disk' \in [ConnIds -> DiskRow \cup {NoConn}]
         /\ strayed' \in BOOLEAN
         /\ MemoryIsOnDisk'
<1>1. CASE cache' = new /\ disk' = [id \in ConnIds |-> toDisk(new[id])] /\ strayed' = FALSE
  BY <1>1, ToDiskType DEF MemoryIsOnDisk
<1>2. CASE UNCHANGED <<cache, disk, strayed>>
  BY <1>2 DEF ServedInv, ConnTypeOK, MemoryIsOnDisk, Dropped
<1> QED BY <1>1, <1>2 DEF Saved

LEMMA ServedInit == ConnInit => ServedInv
BY DEF ConnInit, ServedInv, ConnTypeOK, MemoryIsOnDisk

LEMMA ServedStep == ServedInv /\ [ConnNext]_connVars => ServedInv'
<1> SUFFICES ASSUME ServedInv, [ConnNext]_connVars PROVE ServedInv'
  OBVIOUS
<1> USE DEF ServedInv, ConnTypeOK
<1>1. CASE OpenConnections
  <2>1. cache' \in [ConnIds -> Row \cup {NoConn}] /\ known' \subseteq ConnIds
    BY <1>1, LoadedType DEF OpenConnections
  <2>2. CASE opened' = TRUE /\ (\E id \in ConnIds : disk[id] # NoConn /\ disk[id].plain)
    <3>1. disk' = [id \in ConnIds |-> toDisk(cache'[id])]
      BY <1>1, <2>2 DEF OpenConnections
    <3> QED BY <1>1, <2>1, <2>2, <3>1, ToDiskType DEF MemoryIsOnDisk, OpenConnections
  <2>3. CASE opened' = TRUE /\ \A id \in ConnIds : disk[id] # NoConn => ~disk[id].plain
    <3>1. disk' = disk /\ strayed' = FALSE /\ cache' = [id \in ConnIds |-> loaded(disk[id])]
      BY <1>1, <2>3 DEF OpenConnections
    <3>2. MemoryIsOnDisk'
      BY <3>1, <2>3, LoadedBack DEF MemoryIsOnDisk
    <3> QED BY <2>1, <2>3, <3>1, <3>2
  <2>4. CASE opened' # TRUE
    BY <1>1, <2>1, <2>4 DEF OpenConnections, MemoryIsOnDisk
  <2> QED BY <2>2, <2>3, <2>4
<1>2. CASE Stop
  BY <1>2 DEF Stop, MemoryIsOnDisk
<1>3. ASSUME NEW id \in ConnIds, Delete(id) PROVE ServedInv'
  BY <1>3, SavedKeeps DEF Delete
<1>4. ASSUME NEW id \in ConnIds, NEW l \in Labels, UpdateRefused(id, l) PROVE ServedInv'
  <2>1. [cache EXCEPT ![id].label = l] \in [ConnIds -> Row \cup {NoConn}]
    BY <1>4 DEF UpdateRefused, Cached, Row
  <2> QED BY <1>4, <2>1 DEF UpdateRefused, MemoryIsOnDisk
<1>5. ASSUME NEW id \in ConnIds, NEW l \in Labels, NEW s \in BOOLEAN, Create(id, l, s)
      PROVE  ServedInv'
  <2>1. [label |-> l, secret |-> s, csk |-> FALSE] \in Row
    BY DEF Row
  <2>2. [cache EXCEPT ![id] = [label |-> l, secret |-> s, csk |-> FALSE]]
          \in [ConnIds -> Row \cup {NoConn}]
    BY <2>1
  <2> QED BY <1>5, <2>2, SavedKeeps DEF Create
<1>6. ASSUME NEW id \in ConnIds, NEW l \in Labels, NEW s \in BOOLEAN, Update(id, l, s)
      PROVE  ServedInv'
  <2>1. [cache EXCEPT ![id].label = l, ![id].secret = s] \in [ConnIds -> Row \cup {NoConn}]
    BY <1>6 DEF Update, Cached, Row
  <2> QED BY <1>6, <2>1, SavedKeeps DEF Update
<1>7. CASE UNCHANGED connVars
  BY <1>7 DEF connVars, MemoryIsOnDisk, Dropped
<1> QED BY <1>1, <1>2, <1>3, <1>4, <1>5, <1>6, <1>7 DEF ConnNext

(* The rollbacks of Create, Update and Delete, and load: the cache is the      *)
(* file's contents, up to rows that load has dropped and refused updates.      *)
THEOREM ServedIsStored == ConnSpec => []MemoryIsOnDisk
BY ServedInit, ServedStep, PTL DEF ConnSpec, ServedInv

--------------------------------------------------------------------------------
(* Shares.                                                                    *)
Used(s) == IF s = NoShare THEN 0 ELSE s.used

(* Every redirect is on disk before it is sent, so the file's count bounds the *)
(* redirects; the cache is never behind the file; and the cache's count stops  *)
(* at the limit. None of the three is inductive without the others.           *)
CountsInv ==
  /\ {share, shareFile} \subseteq Share \cup {NoShare} /\ served \in Nat
  /\ served <= Used(shareFile) /\ Used(shareFile) <= Used(share)
  /\ Used(share) <= DownloadLimit

LEMMA CountsInit == ShareInit => CountsInv
BY ShareAssumption DEF ShareInit, CountsInv, Used

(* One more download, whether or not it reaches the file.                      *)
LEMMA OneMore ==
  ASSUME CountsInv, NEW v \in Visitors, IncrementDownloads(v)
  PROVE  CountsInv'
<1>1. CASE share = NoShare \/ share.used >= DownloadLimit
  BY <1>1 DEF IncrementDownloads, CountsInv, Used
<1>2. CASE ~(share = NoShare \/ share.used >= DownloadLimit)
  <2>1. share \in Share /\ share.used < DownloadLimit
    BY <1>2, ShareAssumption DEF CountsInv, Share
  <2>2. share' = [share EXCEPT !.used = @ + 1] /\ shareFile' \in {share', shareFile}
    BY <1>2 DEF IncrementDownloads, SaveShare
  <2>3. share' \in Share /\ share'.used = share.used + 1
    BY <2>1, <2>2 DEF Share
  <2>4. Used(share) = share.used /\ Used(share') = share.used + 1
    BY <2>1, <2>3, ShareAssumption DEF Used
  <2>5. served' = IF shareFile' = share' THEN served + 1 ELSE served
    BY <1>2 DEF IncrementDownloads
  <2>6. share.used \in Nat /\ Used(shareFile) \in Nat
    BY <2>1, ShareAssumption DEF CountsInv, Used, Share
  <2>7. Used(share)' = Used(share') /\ Used(shareFile)' = Used(shareFile')
    BY DEF Used
  <2>8. CASE shareFile' = share'
    BY <2>1, <2>3, <2>4, <2>5, <2>6, <2>7, <2>8, ShareAssumption DEF CountsInv
  <2>9. CASE shareFile' # share'
    <3>1. shareFile' = shareFile /\ served' = served
      BY <2>2, <2>5, <2>9
    <3> QED BY <3>1, <2>1, <2>3, <2>4, <2>6, <2>7, ShareAssumption DEF CountsInv
  <2> QED BY <2>8, <2>9
<1> QED BY <1>1, <1>2

LEMMA CountsStep == CountsInv /\ [ShareNext]_shareVars => CountsInv'
<1> SUFFICES ASSUME CountsInv, [ShareNext]_shareVars PROVE CountsInv'
  OBVIOUS
<1> USE ShareAssumption
<1>1. CASE CreateShare
  <2> DEFINE new == [used |-> 0, revoked |-> FALSE]
  <2>1. share' = new /\ shareFile' \in {new, shareFile} /\ served' = 0 /\ share = NoShare
    BY <1>1 DEF CreateShare, SaveShare
  <2>2. new \in Share /\ new.used = 0
    BY DEF Share
  <2>3. Used(new) = 0 /\ Used(share) = 0
    BY <2>1, <2>2 DEF Used
  <2>4. Used(share)' = 0 /\ Used(shareFile)' \in {0, Used(shareFile)}
    BY <2>1, <2>3 DEF Used
  <2>5. Used(shareFile) = 0
    <3>1. Used(shareFile) \in Nat
      BY DEF CountsInv, Used, Share
    <3> QED BY <3>1, <2>3 DEF CountsInv
  <2> HIDE DEF new
  <2> QED BY <2>1, <2>2, <2>4, <2>5 DEF CountsInv
<1>2. CASE RevokeShare
  <2>1. share \in Share
    BY <1>2 DEF RevokeShare, CountsInv
  <2>2. share' \in Share /\ share'.used = share.used
    BY <1>2, <2>1 DEF RevokeShare, SaveShare, Share
  <2>3. shareFile' = share' \/ shareFile' = shareFile
    BY <1>2 DEF RevokeShare, SaveShare
  <2>4. served' = served
    BY <1>2 DEF RevokeShare
  <2>5. Used(share') = Used(share) /\ Used(shareFile') \in {Used(share'), Used(shareFile)}
    BY <2>1, <2>2, <2>3 DEF Used
  <2>6. Used(share)' = Used(share') /\ Used(shareFile)' = Used(shareFile')
    BY DEF Used
  <2>7. Used(share) \in Nat /\ Used(shareFile) \in Nat
    BY DEF CountsInv, Used, Share
  <2> QED BY <2>1, <2>2, <2>3, <2>4, <2>5, <2>6, <2>7 DEF CountsInv
<1>3. CASE OtherShareSaved
  BY <1>3 DEF OtherShareSaved, CountsInv, Used, Share
<1>4. CASE ShareRestart
  BY <1>4 DEF ShareRestart, CountsInv, Used, Share
<1>5. ASSUME NEW v \in Visitors, Validate(v) PROVE CountsInv'
  BY <1>5 DEF Validate, CountsInv, Used
<1>6. ASSUME NEW v \in Visitors, PresignFails(v) PROVE CountsInv'
  BY <1>6 DEF PresignFails, CountsInv, Used
<1>7. ASSUME NEW v \in Visitors, IncrementDownloads(v) PROVE CountsInv'
  BY <1>7, OneMore
<1>8. CASE UNCHANGED shareVars
  BY <1>8 DEF shareVars, CountsInv, Used
<1> QED BY <1>1, <1>2, <1>3, <1>4, <1>5, <1>6, <1>7, <1>8 DEF ShareNext

(* shareGetHandler and IncrementDownloads: with any number of visitors, failed *)
(* writes and restarts, a share sends no more redirects than its limit.        *)
THEOREM ShareLimit == ShareSpec => []ServedWithinLimit
<1>1. CountsInv => ServedWithinLimit
  BY ShareAssumption DEF CountsInv, ServedWithinLimit, Used, Share
<1> QED BY CountsInit, CountsStep, <1>1, PTL DEF ShareSpec

--------------------------------------------------------------------------------
(* Policy grants. What a failed save leaves behind is in memory only, so the   *)
(* file holds no grant that memory does not: without that a grant taken away   *)
(* in memory, where it was not found, could come back from the file.           *)
Agree(live, filed, said) ==
  /\ filed \in {"none", live}
  /\ said = "given" => live = "manual" /\ filed = "manual"
  /\ said = "taken" => live = "none"

PolicyInv ==
  /\ PolicyTypeOK
  /\ \A u \in Users, g \in Rights :
       Agree(policy.grants[u][g], policyFile.grants[u][g], word[u][g])

LEMMA PolicyInvInit == PolicyInit => PolicyInv
BY DEF PolicyInit, PolicyInv, PolicyTypeOK, PolicyStates, Agree, NoGrants, Sources, Words

LEMMA GrantedType ==
  ASSUME PolicyInv, NEW u \in Users, NEW g \in Rights, NEW source \in Sources
  PROVE  /\ Granted(u, g, source) \in PolicyStates
         /\ \A v \in Users, k \in Rights : Granted(u, g, source).grants[v][k] =
              IF v = u /\ k = g THEN source ELSE policy.grants[v][k]
BY DEF PolicyInv, PolicyTypeOK, PolicyStates, Granted

LEMMA ToldType ==
  ASSUME PolicyInv, NEW u \in Users, NEW g \in Rights, NEW what \in Words,
         Told(u, g, what)
  PROVE  /\ word' \in [Users -> [Rights -> Words]]
         /\ \A v \in Users, k \in Rights :
              word'[v][k] = IF v = u /\ k = g THEN what ELSE word[v][k]
BY DEF PolicyInv, PolicyTypeOK, Told

LEMMA PolicyInvStep == PolicyInv /\ [PolicyNext]_policyVars => PolicyInv'
<1> SUFFICES ASSUME PolicyInv, [PolicyNext]_policyVars PROVE PolicyInv'
  OBVIOUS
<1> USE PolicyAssumption
<1>t. /\ policy \in PolicyStates /\ policyFile \in PolicyStates
      /\ seeding \in 0..(Len(SeedRights) + 1) /\ Len(SeedRights) \in Nat
      /\ word \in [Users -> [Rights -> Words]]
  BY DEF PolicyInv, PolicyTypeOK
<1>1. CASE PolicyRestart
  BY <1>1, <1>t DEF PolicyRestart, PolicyInv, PolicyTypeOK, Agree
<1>2. CASE SeedLook
  <2>1. seeding' \in 0..(Len(SeedRights) + 1) /\ UNCHANGED <<policy, policyFile, word>>
    BY <1>2, <1>t DEF SeedLook
  <2> QED BY <2>1, <1>t DEF PolicyInv, PolicyTypeOK, Agree
<1>3. CASE SeedNext
  <2> DEFINE g == SeedRights[seeding]
  <2>1. g \in Rights /\ seeding' \in 0..(Len(SeedRights) + 1)
    BY <1>3, <1>t DEF SeedNext
  <2>2. CASE policy.grants[EnvAdmin][g] # "none"
    BY <1>3, <2>1, <2>2, <1>t DEF SeedNext, PolicyInv, PolicyTypeOK, Agree
  <2>3. CASE policy.grants[EnvAdmin][g] = "none"
    <3>1. SavePolicy(Granted(EnvAdmin, g, "manual")) /\ Told(EnvAdmin, g, "nothing")
      BY <1>3, <2>3 DEF SeedNext
    <3> HIDE DEF g
    <3> DEFINE new == Granted(EnvAdmin, g, "manual")
    <3>2. new \in PolicyStates
      BY <2>1, GrantedType DEF Sources
    <3>3. policy' = new /\ policyFile' = new
      BY <3>1 DEF SavePolicy
    <3>4. \A v \in Users, k \in Rights : new.grants[v][k] =
            IF v = EnvAdmin /\ k = g THEN "manual" ELSE policy.grants[v][k]
      BY <2>1, GrantedType DEF Sources
    <3>5. \A v \in Users, k \in Rights :
            word'[v][k] = IF v = EnvAdmin /\ k = g THEN "nothing" ELSE word[v][k]
      BY <3>1, <2>1, ToldType DEF Words
    <3>6. word' \in [Users -> [Rights -> Words]]
      BY <3>1, <2>1, ToldType DEF Words
    <3> HIDE DEF new
    <3>p. PolicyTypeOK'
      BY <3>2, <3>3, <3>4, <3>5, <3>6, <2>1 DEF PolicyTypeOK
    <3>q. ASSUME NEW v \in Users, NEW k \in Rights
         PROVE  Agree(policy.grants[v][k], policyFile.grants[v][k], word[v][k])'
      <4>1. Agree(policy.grants[v][k], policyFile.grants[v][k], word[v][k])
        BY DEF PolicyInv
      <4> QED BY <4>1, <3>2, <3>3, <3>4, <3>5, <3>6, <2>1 DEF Agree
    <3> QED BY <3>p, <3>q DEF PolicyInv
  <2> QED BY <2>2, <2>3
<1>4. CASE DeleteRole
  <2> DEFINE new == [grants |-> WithoutOwn, own |-> FALSE]
  <2>1. new \in PolicyStates /\ policy' = new /\ policyFile' = new
    BY <1>4, <1>t DEF DeleteRole, SavePolicy, WithoutOwn, PolicyStates, Sources
  <2>2. \A u \in Users, g \in Rights : new.grants[u][g] =
          IF g \in OwnRights THEN "none" ELSE policy.grants[u][g]
    BY DEF WithoutOwn
  <2>3. /\ word' \in [Users -> [Rights -> Words]]
        /\ \A u \in Users, g \in Rights :
             word'[u][g] = IF g \in OwnRights THEN "taken" ELSE word[u][g]
    BY <1>4, <1>t DEF DeleteRole, Words
  <2>4. seeding' = seeding
    BY <1>4 DEF DeleteRole
  <2> HIDE DEF new
  <2>p. PolicyTypeOK'
    BY <2>1, <2>2, <2>3, <2>4, <1>t DEF PolicyTypeOK
  <2>q. ASSUME NEW v \in Users, NEW k \in Rights
       PROVE  Agree(policy.grants[v][k], policyFile.grants[v][k], word[v][k])'
    <3>1. Agree(policy.grants[v][k], policyFile.grants[v][k], word[v][k])
      BY DEF PolicyInv
    <3> QED BY <3>1, <2>1, <2>2, <2>3, <2>4, <1>t DEF Agree
  <2> QED BY <2>p, <2>q DEF PolicyInv
<1>5. ASSUME NEW own \in BOOLEAN, UpsertRole(own) PROVE PolicyInv'
  <2> DEFINE new == [policy EXCEPT !.own = own]
  <2>1. new \in PolicyStates /\ new.grants = policy.grants
    BY <1>t DEF PolicyStates
  <2>2. policy' = new /\ policyFile' \in {new, policyFile} /\ seeding' = seeding /\ word' = word
    BY <1>5 DEF UpsertRole, SavePolicy, SaveFails
  <2> HIDE DEF new
  <2>p. PolicyTypeOK'
    BY <2>1, <2>2, <1>t DEF PolicyTypeOK
  <2>q. ASSUME NEW v \in Users, NEW k \in Rights
       PROVE  Agree(policy.grants[v][k], policyFile.grants[v][k], word[v][k])'
    <3>1. Agree(policy.grants[v][k], policyFile.grants[v][k], word[v][k])
      BY DEF PolicyInv
    <3> QED BY <3>1, <2>1, <2>2, <1>t DEF Agree
  <2> QED BY <2>p, <2>q DEF PolicyInv
<1>6. ASSUME NEW u \in Users, NEW g \in Rights, AssignRole(u, g) PROVE PolicyInv'
  <2> DEFINE new == Granted(u, g, "manual")
  <2>1. new \in PolicyStates /\ \A v \in Users, k \in Rights : new.grants[v][k] =
          IF v = u /\ k = g THEN "manual" ELSE policy.grants[v][k]
    BY GrantedType DEF Sources
  <2>2. seeding' = seeding
    BY <1>6 DEF AssignRole
  <2>3. policy.grants[u][g] = "none" => policyFile.grants[u][g] = "none"
    BY DEF PolicyInv, Agree
  <2>4. CASE policy' = new /\ policyFile' = new /\ Told(u, g, "given")
    <3>1. /\ word' \in [Users -> [Rights -> Words]]
          /\ \A v \in Users, k \in Rights :
               word'[v][k] = IF v = u /\ k = g THEN "given" ELSE word[v][k]
      BY <2>4, ToldType DEF Words
    <3> HIDE DEF new
    <3>p. PolicyTypeOK'
      BY <2>1, <2>2, <2>4, <3>1, <1>t DEF PolicyTypeOK
    <3>q. ASSUME NEW v \in Users, NEW k \in Rights
         PROVE  Agree(policy.grants[v][k], policyFile.grants[v][k], word[v][k])'
      <4>1. Agree(policy.grants[v][k], policyFile.grants[v][k], word[v][k])
        BY DEF PolicyInv
      <4> QED BY <4>1, <2>1, <2>2, <2>4, <3>1, <1>t DEF Agree
    <3> QED BY <3>p, <3>q DEF PolicyInv
  <2>5. CASE /\ policy.grants[u][g] = "none" /\ policy' = new /\ policyFile' = policyFile
             /\ Told(u, g, "nothing")
    <3>1. /\ word' \in [Users -> [Rights -> Words]]
          /\ \A v \in Users, k \in Rights :
               word'[v][k] = IF v = u /\ k = g THEN "nothing" ELSE word[v][k]
      BY <2>5, ToldType DEF Words
    <3> HIDE DEF new
    <3>p. PolicyTypeOK'
      BY <2>1, <2>2, <2>3, <2>5, <3>1, <1>t DEF PolicyTypeOK
    <3>q. ASSUME NEW v \in Users, NEW k \in Rights
         PROVE  Agree(policy.grants[v][k], policyFile.grants[v][k], word[v][k])'
      <4>1. Agree(policy.grants[v][k], policyFile.grants[v][k], word[v][k])
        BY DEF PolicyInv
      <4> QED BY <4>1, <2>1, <2>2, <2>3, <2>5, <3>1, <1>t DEF Agree
    <3> QED BY <3>p, <3>q DEF PolicyInv
  <2>6. CASE UNCHANGED <<policy, policyFile, word>>
    BY <2>2, <2>6, <1>t DEF PolicyInv, PolicyTypeOK, Agree
  <2> QED BY <1>6, <2>4, <2>5, <2>6 DEF AssignRole, SavePolicy, SaveFails
<1>7. ASSUME NEW u \in Users, NEW g \in Rights, UnassignRole(u, g) PROVE PolicyInv'
  <2>1. /\ word' \in [Users -> [Rights -> Words]]
        /\ \A v \in Users, k \in Rights :
             word'[v][k] = IF v = u /\ k = g THEN "taken" ELSE word[v][k]
    BY <1>7, ToldType DEF UnassignRole, Words
  <2>2. seeding' = seeding
    BY <1>7 DEF UnassignRole
  <2>3. CASE policy.grants[u][g] = "none"
    <3>1. UNCHANGED <<policy, policyFile>> /\ policyFile.grants[u][g] = "none"
      BY <1>7, <2>3 DEF UnassignRole, PolicyInv, Agree
    <3>p. PolicyTypeOK'
      BY <2>1, <2>2, <2>3, <3>1, <1>t DEF PolicyTypeOK
    <3>q. ASSUME NEW v \in Users, NEW k \in Rights
         PROVE  Agree(policy.grants[v][k], policyFile.grants[v][k], word[v][k])'
      <4>1. Agree(policy.grants[v][k], policyFile.grants[v][k], word[v][k])
        BY DEF PolicyInv
      <4> QED BY <4>1, <2>1, <2>2, <2>3, <3>1, <1>t DEF Agree
    <3> QED BY <3>p, <3>q DEF PolicyInv
  <2>4. CASE policy.grants[u][g] # "none"
    <3> DEFINE new == Granted(u, g, "none")
    <3>1. new \in PolicyStates /\ \A v \in Users, k \in Rights : new.grants[v][k] =
            IF v = u /\ k = g THEN "none" ELSE policy.grants[v][k]
      BY GrantedType DEF Sources
    <3>2. policy' = new /\ policyFile' = new
      BY <1>7, <2>4 DEF UnassignRole, SavePolicy
    <3> HIDE DEF new
    <3>p. PolicyTypeOK'
      BY <2>1, <2>2, <3>1, <3>2, <1>t DEF PolicyTypeOK
    <3>q. ASSUME NEW v \in Users, NEW k \in Rights
         PROVE  Agree(policy.grants[v][k], policyFile.grants[v][k], word[v][k])'
      <4>1. Agree(policy.grants[v][k], policyFile.grants[v][k], word[v][k])
        BY DEF PolicyInv
      <4> QED BY <4>1, <2>1, <2>2, <3>1, <3>2, <1>t DEF Agree
    <3> QED BY <3>p, <3>q DEF PolicyInv
  <2> QED BY <2>3, <2>4
<1>8. ASSUME NEW u \in Users \ {EnvAdmin}, NEW wanted \in SUBSET Rights,
             SyncOIDCAssignments(u, wanted)
      PROVE  PolicyInv'
  <2> DEFINE row == Synced(u, wanted)
             new == [policy EXCEPT !.grants[u] = row]
  <2>1. row \in [Rights -> Sources] /\ \A g \in Rights :
          /\ policy.grants[u][g] = "manual" => row[g] = "manual"
          /\ policy.grants[u][g] = "none" => row[g] \in {"none", "oidc"}
    BY DEF Synced, Sources
  <2>2. /\ word' \in [Users -> [Rights -> Words]]
        /\ \A v \in Users, g \in Rights : word'[v][g] =
             IF v = u /\ row[g] = "oidc" THEN "nothing" ELSE word[v][g]
    BY <1>8, <1>t DEF SyncOIDCAssignments, Words
  <2>3. policy' = new /\ policyFile' = new /\ seeding' = seeding
    BY <1>8 DEF SyncOIDCAssignments, SavePolicy
  <2> HIDE DEF row
  <2>4. new \in PolicyStates /\ \A v \in Users, g \in Rights :
          new.grants[v][g] = IF v = u THEN row[g] ELSE policy.grants[v][g]
    BY <2>1, <1>t DEF PolicyStates
  <2> HIDE DEF new
  <2>p. PolicyTypeOK'
    BY <2>1, <2>2, <2>3, <2>4, <1>t DEF PolicyTypeOK
  <2>q. ASSUME NEW v \in Users, NEW k \in Rights
       PROVE  Agree(policy.grants[v][k], policyFile.grants[v][k], word[v][k])'
    <3>1. Agree(policy.grants[v][k], policyFile.grants[v][k], word[v][k])
      BY DEF PolicyInv
    <3> QED BY <3>1, <2>1, <2>2, <2>3, <2>4, <1>t DEF Agree
  <2> QED BY <2>p, <2>q DEF PolicyInv
<1>9. CASE UNCHANGED policyVars
  BY <1>9, <1>t DEF policyVars, PolicyInv, PolicyTypeOK, Agree
<1> QED BY <1>1, <1>2, <1>3, <1>4, <1>5, <1>6, <1>7, <1>8, <1>9 DEF PolicyNext

(* "Manual assignments are sacred" and a privilege taken away stays away: for  *)
(* any users, rights and claims, through failed saves and restarts, for every  *)
(* grant that a save gave or an unassignment took; an assignment answered from *)
(* memory, without a save, is not among them.                                 *)
THEOREM WordIsKept == PolicySpec => []OperatorsWord
<1>1. PolicyInv => OperatorsWord
  BY DEF PolicyInv, Agree, OperatorsWord
<1> QED BY PolicyInvInit, PolicyInvStep, <1>1, PTL DEF PolicySpec

--------------------------------------------------------------------------------
(* ClusterSecret.                                                             *)
(* A request that carries a key it will write, wrap, cache or seal with.       *)
Carries(c) == calls[c].at \in {"cacheFirst", "wrap", "put", "unlock", "seal"}
Bootstraps(c) == calls[c].at \in {"wrapFirst", "cacheFirst"}
Agrees(k) == Staffed # {} /\ \A a \in Staffed : wrapped[a] = k

(* bootstrapMu. *)
OneBootstrap == \A c, d \in Callers : Bootstraps(c) /\ Bootstraps(d) => c = d

(* What a caller does next is decided by its place, so that is typed with what *)
(* it carries: a key, and the admin whose row it writes.                      *)
CallsOK ==
  \A c \in Callers :
    /\ Carries(c) \/ calls[c].at = "wrapFirst" => calls[c].key \in Keys
    /\ calls[c].at \in {"bootstrap", "wrapFirst", "add", "wrap", "put"} => calls[c].who \in Admins

(* OneKey is about the rows, the memory and the ciphertexts; it is inductive   *)
(* once the keys in the hands of requests are among those that must agree, and *)
(* a first admin is only written while there is none.                          *)
AllAgree ==
  ~orphaned =>
    /\ \A a \in Staffed : Agrees(wrapped[a])
    /\ \A k \in sealed : Agrees(k)
    /\ held # NoKey => Agrees(held)
    /\ \A c \in Callers : Carries(c) => Agrees(calls[c].key)
    /\ \A c \in Callers : calls[c].at = "wrapFirst" => Staffed = {}

SecretInv == SecretTypeOK /\ CallsOK /\ OneBootstrap /\ AllAgree

LEMMA SecretInvInit == SecretInit => SecretInv
<1> SUFFICES ASSUME SecretInit PROVE SecretInv
  OBVIOUS
<1>1. \A c \in Callers : calls[c] = Idle
  BY DEF SecretInit
<1>2. Idle \in Calls /\ Idle.at = "idle"
  BY DEF Idle, Calls
<1>3. calls \in [Callers -> Calls]
  BY <1>2 DEF SecretInit
<1>4. SecretTypeOK
  <2>1. wrapped \in [Admins -> Keys \cup {NoKey}]
    BY DEF SecretInit
  <2>2. made \in 0..MaxKeys
    BY SecretAssumption DEF SecretInit
  <2>3. held \in Keys \cup {NoKey} /\ sealed \subseteq Keys /\ orphaned \in BOOLEAN
    BY DEF SecretInit
  <2> QED BY <1>3, <2>1, <2>2, <2>3 DEF SecretTypeOK
<1>5. CallsOK /\ OneBootstrap
  BY <1>1, <1>2 DEF CallsOK, OneBootstrap, Carries, Bootstraps
<1>6. Staffed = {} /\ sealed = {} /\ held = NoKey
  BY DEF SecretInit, Staffed
<1>7. AllAgree
  BY <1>1, <1>2, <1>6 DEF AllAgree, Carries
<1> QED BY <1>4, <1>5, <1>7 DEF SecretInv

LEMMA KeysAreKeys == \A k \in Keys : k # NoKey
BY SecretAssumption DEF Keys

(* Most steps leave the rows alone: then the agreement is about what is new.   *)
LEMMA RowsKept ==
  ASSUME SecretInv, wrapped' = wrapped, orphaned' = orphaned,
         ~orphaned => \A k \in sealed' : k \in sealed \/ Agrees(k),
         ~orphaned => held' \in {held, NoKey} \/ Agrees(held'),
         ~orphaned => \A c \in Callers : Carries(c)' =>
                        (Carries(c) /\ calls'[c].key = calls[c].key) \/ Agrees(calls'[c].key),
         ~orphaned => \A c \in Callers : calls'[c].at = "wrapFirst" =>
                        calls[c].at = "wrapFirst" \/ Staffed = {}
  PROVE  AllAgree'
<1>1. Staffed' = Staffed /\ \A k : Agrees(k)' <=> Agrees(k)
  BY DEF Staffed, Agrees
<1>2. ASSUME ~orphaned PROVE \A a \in Staffed : Agrees(wrapped[a])
  BY <1>2 DEF SecretInv, AllAgree
<1> QED BY <1>1, <1>2 DEF SecretInv, AllAgree

(* A request that ends, or goes on with nothing in its hands but what it had.  *)
LEMMA CallMoves ==
  ASSUME SecretInv, NEW c \in Callers,
         NEW s \in Calls, calls' = [calls EXCEPT ![c] = s],
         s.at \in {"idle", "bootstrap", "add"} \/ s.key \in Keys,
         s.at \in {"bootstrap", "wrapFirst", "add", "wrap", "put"} => s.who \in Admins,
         s.at \in {"wrapFirst", "cacheFirst"} =>
           \A d \in Callers \ {c} : ~Bootstraps(d)
  PROVE  calls' \in [Callers -> Calls] /\ CallsOK' /\ OneBootstrap'
<1>1. calls' \in [Callers -> Calls] /\ calls'[c] = s
      /\ \A d \in Callers \ {c} : calls'[d] = calls[d]
  BY DEF SecretInv, SecretTypeOK
<1>2. CallsOK'
  BY <1>1 DEF SecretInv, CallsOK, Carries
<1>3. OneBootstrap'
  BY <1>1 DEF SecretInv, OneBootstrap, Bootstraps
<1> QED BY <1>1, <1>2, <1>3

LEMMA IdleCall == Idle \in Calls /\ Idle.at = "idle"
BY DEF Idle, Calls

(* The step of one request that leaves the rows alone.                         *)
LEMMA SecretQuiet ==
  ASSUME SecretInv, NEW c \in Callers, NEW s \in Calls,
         calls' = [calls EXCEPT ![c] = s],
         UNCHANGED <<wrapped, orphaned>>,
         made' \in 0..MaxKeys,
         s.at \in {"idle", "bootstrap", "add"} \/ s.key \in Keys,
         s.at \in {"bootstrap", "wrapFirst", "add", "wrap", "put"} => s.who \in Admins,
         s.at \in {"wrapFirst", "cacheFirst"} => \A d \in Callers \ {c} : ~Bootstraps(d),
         ~orphaned /\ s.at \in {"cacheFirst", "wrap", "put", "unlock", "seal"} => Agrees(s.key),
         ~orphaned /\ s.at = "wrapFirst" => Staffed = {},
         sealed' = sealed \/ \E k \in Keys : sealed' = sealed \cup {k} /\ (~orphaned => Agrees(k)),
         held' = held \/ (held' \in Keys /\ (~orphaned => Agrees(held')))
  PROVE  SecretInv'
<1>1. calls' \in [Callers -> Calls] /\ CallsOK' /\ OneBootstrap'
  BY CallMoves
<1>2. SecretTypeOK'
  BY <1>1 DEF SecretInv, SecretTypeOK
<1>3. calls'[c] = s /\ \A d \in Callers \ {c} : calls'[d] = calls[d]
  BY DEF SecretInv, SecretTypeOK
<1>4. ~orphaned => \A d \in Callers : Carries(d)' =>
        (Carries(d) /\ calls'[d].key = calls[d].key) \/ Agrees(calls'[d].key)
  BY <1>3 DEF Carries
<1>5. ~orphaned => \A d \in Callers : calls'[d].at = "wrapFirst" =>
        calls[d].at = "wrapFirst" \/ Staffed = {}
  BY <1>3
<1>6. AllAgree'
  BY <1>4, <1>5, RowsKept
<1> QED BY <1>1, <1>2, <1>6 DEF SecretInv

(* Step and Return, as one new value for the request.                          *)
LEMMA StepIs ==
  ASSUME SecretInv, NEW c \in Callers, NEW at, NEW key \in Keys \cup {NoKey}, Step(c, at, key),
         at \in {"idle", "bootstrap", "wrapFirst", "cacheFirst", "add", "wrap", "put",
                "unlock", "seal"}
  PROVE  \E s \in Calls :
           /\ calls' = [calls EXCEPT ![c] = s]
           /\ s.at = at /\ s.key = key /\ s.who = calls[c].who
<1> DEFINE s == [at |-> at, who |-> calls[c].who, key |-> key]
<1>1. calls[c] \in Calls
  BY DEF SecretInv, SecretTypeOK
<1>2. s \in Calls
  BY <1>1 DEF Calls
<1>3. calls' = [calls EXCEPT ![c] = s]
  BY DEF Step
<1> QED BY <1>2, <1>3

LEMMA BootstrapDrawKeeps ==
  ASSUME SecretInv, NEW c \in Callers, BootstrapDraw(c) PROVE SecretInv'
<1>1. UNCHANGED <<wrapped, orphaned, held, sealed>> /\ calls[c].at = "bootstrap"
      /\ \A d \in Callers : ~Bootstraps(d)
  BY DEF BootstrapDraw, Bootstraps
<1>2. CASE Staffed = {}
  <2>1. made < MaxKeys /\ made' = made + 1 /\ Step(c, "wrapFirst", made')
    BY <1>2 DEF BootstrapDraw
  <2>2. made' \in Keys /\ made' \in 0..MaxKeys
    BY <2>1, SecretAssumption DEF SecretInv, SecretTypeOK, Keys
  <2>3. PICK s \in Calls : /\ calls' = [calls EXCEPT ![c] = s]
                           /\ s.at = "wrapFirst" /\ s.key = made' /\ s.who = calls[c].who
    BY <2>1, <2>2, StepIs
  <2>4. calls[c].who \in Admins
    BY <1>1 DEF SecretInv, CallsOK
  <2> QED BY <1>1, <1>2, <2>2, <2>3, <2>4, SecretQuiet
<1>3. CASE Staffed # {}
  BY <1>1, <1>3, IdleCall, SecretQuiet DEF BootstrapDraw, Return, SecretInv, SecretTypeOK
<1> QED BY <1>2, <1>3

(* The first record: there was none, so nothing had to agree with anything.    *)
LEMMA FirstRecord ==
  ASSUME SecretInv, NEW c \in Callers, calls[c].at = "wrapFirst",
         PutWrappedCSK(c), Step(c, "cacheFirst", calls[c].key),
         UNCHANGED <<held, made, sealed, orphaned>>
  PROVE  SecretInv'
<1>1. PICK k \in Keys, a \in Admins : k = calls[c].key /\ a = calls[c].who
  BY DEF SecretInv, CallsOK
<1>2. PICK s \in Calls : /\ calls' = [calls EXCEPT ![c] = s]
                         /\ s.at = "cacheFirst" /\ s.key = k /\ s.who = a
  BY <1>1, StepIs
<1>3. \A d \in Callers \ {c} : ~Bootstraps(d)
  BY DEF SecretInv, OneBootstrap, Bootstraps
<1>4. calls' \in [Callers -> Calls] /\ CallsOK' /\ OneBootstrap'
  BY <1>1, <1>2, <1>3, CallMoves
<1>5. wrapped' = [wrapped EXCEPT ![a] = k] /\ wrapped' \in [Admins -> Keys \cup {NoKey}]
  BY <1>1 DEF PutWrappedCSK, SecretInv, SecretTypeOK
<1>6. SecretTypeOK'
  BY <1>4, <1>5 DEF SecretInv, SecretTypeOK
<1>7. ASSUME ~orphaned PROVE AllAgree'
  <2>1. Staffed = {}
    BY <1>7 DEF SecretInv, AllAgree
  <2>2. sealed = {} /\ held = NoKey /\ \A d \in Callers : ~Carries(d)
    BY <1>7, <2>1 DEF SecretInv, AllAgree, Agrees
  <2>3. Staffed' = {a} /\ wrapped'[a] = k
    BY <1>1, <1>5, <2>1, KeysAreKeys DEF Staffed, SecretInv, SecretTypeOK
  <2>4. Agrees(k)'
    BY <2>3 DEF Agrees
  <2>5. calls'[c] = s /\ \A d \in Callers \ {c} : calls'[d] = calls[d]
    BY <1>2 DEF SecretInv, SecretTypeOK
  <2>6. \A d \in Callers : Carries(d)' => d = c
    BY <2>2, <2>5 DEF Carries
  <2>7. \A d \in Callers : calls'[d].at # "wrapFirst"
    BY <1>2, <1>3, <2>5 DEF Bootstraps
  <2>8. \A d \in Callers : Carries(d)' => (Agrees(calls[d].key))'
    BY <1>2, <2>4, <2>5, <2>6 DEF Agrees
  <2>9. \A b \in Staffed' : Agrees(wrapped[b])'
    BY <2>3, <2>4 DEF Agrees
  <2> QED BY <2>2, <2>7, <2>8, <2>9 DEF AllAgree
<1> QED BY <1>4, <1>6, <1>7 DEF SecretInv, AllAgree

(* One more record of a key that agrees with the others.                       *)
LEMMA NextRecord ==
  ASSUME SecretInv, NEW c \in Callers, calls[c].at = "put",
         PutWrappedCSK(c), Return(c), UNCHANGED <<held, made, sealed, orphaned>>
  PROVE  SecretInv'
<1>1. PICK k \in Keys, a \in Admins : k = calls[c].key /\ a = calls[c].who
  BY DEF SecretInv, CallsOK, Carries
<1>2. calls' \in [Callers -> Calls] /\ CallsOK' /\ OneBootstrap'
  BY IdleCall, CallMoves DEF Return
<1>3. wrapped' = [wrapped EXCEPT ![a] = k] /\ wrapped' \in [Admins -> Keys \cup {NoKey}]
  BY <1>1 DEF PutWrappedCSK, SecretInv, SecretTypeOK
<1>4. SecretTypeOK'
  BY <1>2, <1>3 DEF SecretInv, SecretTypeOK
<1>5. ASSUME ~orphaned PROVE AllAgree'
  <2>1. Agrees(k)
    BY <1>1, <1>5 DEF SecretInv, AllAgree, Carries
  <2>2. Staffed' = Staffed \cup {a}
    BY <1>1, <1>3, KeysAreKeys DEF Staffed, SecretInv, SecretTypeOK
  <2>3. \A b \in Staffed' : wrapped'[b] = k
    BY <1>1, <1>3, <2>1, <2>2 DEF Agrees, Staffed, SecretInv, SecretTypeOK
  <2>4. ASSUME NEW x, Agrees(x) PROVE Agrees(x)'
    <3>1. x = k
      BY <2>1, <2>4 DEF Agrees
    <3> QED BY <2>2, <2>3, <3>1 DEF Agrees
  <2>5. \A d \in Callers : calls'[d] = calls[d] \/ calls'[d].at = "idle"
    BY IdleCall DEF Return, SecretInv, SecretTypeOK
  <2>6. \A d \in Callers : Carries(d)' => Agrees(calls[d].key)'
    <3>1. \A d \in Callers : Carries(d)' => Carries(d) /\ calls'[d] = calls[d]
      BY <2>5 DEF Carries
    <3>2. ASSUME NEW d \in Callers, Carries(d)' PROVE Agrees(calls[d].key)'
      <4>1. Agrees(calls[d].key) /\ calls'[d] = calls[d]
        BY <1>5, <3>1, <3>2 DEF SecretInv, AllAgree
      <4> QED BY <4>1, <2>4 DEF Agrees
    <3> QED BY <3>2
  <2>7. \A d \in Callers : calls'[d].at # "wrapFirst"
    BY <1>5, <2>1, <2>5 DEF SecretInv, AllAgree, Agrees
  <2>8. \A b \in Staffed' : Agrees(wrapped[b])'
    BY <2>2, <2>3 DEF Agrees
  <2>9. \A x \in sealed' : Agrees(x)'
    BY <1>5, <2>4 DEF SecretInv, AllAgree
  <2>10. held' # NoKey => Agrees(held)'
    BY <1>5, <2>4 DEF SecretInv, AllAgree, Agrees
  <2> QED BY <2>6, <2>7, <2>8, <2>9, <2>10 DEF AllAgree
<1> QED BY <1>2, <1>4, <1>5 DEF SecretInv, AllAgree

(* One record less, of several: what agreed with all agrees with the rest.     *)
LEMMA RemoveKeeps ==
  ASSUME SecretInv, NEW a \in Admins, RemoveAdmin(a) PROVE SecretInv'
<1>1. wrapped' = [wrapped EXCEPT ![a] = NoKey] /\ UNCHANGED <<held, made, sealed, calls>>
      /\ orphaned' = (orphaned \/ Staffed = {a})
  BY DEF RemoveAdmin
<1>2. SecretTypeOK' /\ CallsOK' /\ OneBootstrap'
  BY <1>1 DEF SecretInv, SecretTypeOK, CallsOK, OneBootstrap, Carries, Bootstraps
<1>3. ASSUME ~orphaned' PROVE AllAgree'
  <2>1. ~orphaned /\ Staffed # {a}
    BY <1>1, <1>3 DEF SecretInv, SecretTypeOK
  <2>2. a \in Staffed /\ Staffed' = Staffed \ {a}
    BY <1>1 DEF RemoveAdmin, Staffed, SecretInv, SecretTypeOK
  <2>3. Staffed' # {} /\ \A b \in Staffed' : wrapped'[b] = wrapped[b]
    BY <1>1, <2>1, <2>2 DEF SecretInv, SecretTypeOK, Staffed
  <2>4. \A x : Agrees(x) => Agrees(x)'
    BY <2>2, <2>3 DEF Agrees
  <2>5. \A b \in Staffed' : Agrees(wrapped[b])'
    <3>1. \A b \in Staffed' : Agrees(wrapped[b])
      BY <2>1, <2>2 DEF SecretInv, AllAgree
    <3> QED BY <2>3, <2>4, <3>1 DEF Agrees
  <2>6. \A d \in Callers : Carries(d)' => Agrees(calls[d].key)'
    BY <1>1, <2>1, <2>4 DEF SecretInv, AllAgree, Carries, Agrees
  <2>7. \A d \in Callers : calls'[d].at # "wrapFirst"
    BY <1>1, <2>1, <2>2 DEF SecretInv, AllAgree
  <2>8. \A x \in sealed' : Agrees(x)'
    BY <1>1, <2>1, <2>4 DEF SecretInv, AllAgree
  <2>9. held' # NoKey => Agrees(held)'
    BY <1>1, <2>1, <2>4 DEF SecretInv, AllAgree, Agrees
  <2> QED BY <2>5, <2>6, <2>7, <2>8, <2>9 DEF AllAgree
<1> QED BY <1>2, <1>3 DEF SecretInv, AllAgree

LEMMA SecretCallKeeps ==
  ASSUME SecretInv, NEW c \in Callers, SecretCall(c) PROVE SecretInv'
<1>0. calls[c] \in Calls /\ made \in 0..MaxKeys
  BY DEF SecretInv, SecretTypeOK
<1>1. CASE BootstrapDraw(c)
  BY <1>1, BootstrapDrawKeeps
<1>2. CASE BootstrapPut(c)
  <2>1. CASE PutWrappedCSK(c) /\ Step(c, "cacheFirst", calls[c].key)
    BY <1>2, <2>1, FirstRecord DEF BootstrapPut
  <2>2. CASE Return(c) /\ UNCHANGED wrapped
    BY <1>0, <1>2, <2>2, IdleCall, SecretQuiet DEF BootstrapPut, Return
  <2> QED BY <1>2, <2>1, <2>2 DEF BootstrapPut
<1>3. CASE BootstrapCache(c)
  <2>1. calls[c].key \in Keys /\ (~orphaned => Agrees(calls[c].key))
    BY <1>3 DEF BootstrapCache, SecretInv, CallsOK, AllAgree, Carries
  <2> QED BY <1>0, <1>3, <2>1, IdleCall, SecretQuiet DEF BootstrapCache, Return
<1>4. CASE AddAdminCopy(c)
  <2>1. CASE held = NoKey
    BY <1>0, <1>4, <2>1, IdleCall, SecretQuiet DEF AddAdminCopy, Return
  <2>2. CASE held # NoKey
    <3>1. held \in Keys /\ (~orphaned => Agrees(held)) /\ calls[c].who \in Admins
      BY <1>4, <2>2 DEF AddAdminCopy, SecretInv, SecretTypeOK, CallsOK, AllAgree
    <3>2. PICK s \in Calls : /\ calls' = [calls EXCEPT ![c] = s]
                             /\ s.at = "wrap" /\ s.key = held /\ s.who = calls[c].who
      BY <1>4, <2>2, <3>1, StepIs DEF AddAdminCopy
    <3> QED BY <1>0, <1>4, <3>1, <3>2, SecretQuiet DEF AddAdminCopy
  <2> QED BY <2>1, <2>2
<1>5. CASE AddAdminCheck(c)
  <2>1. CASE wrapped[calls[c].who] # NoKey
    BY <1>0, <1>5, <2>1, IdleCall, SecretQuiet DEF AddAdminCheck, Return
  <2>2. CASE wrapped[calls[c].who] = NoKey
    <3>1. calls[c].key \in Keys /\ (~orphaned => Agrees(calls[c].key))
          /\ calls[c].who \in Admins
      BY <1>5 DEF AddAdminCheck, SecretInv, CallsOK, AllAgree, Carries
    <3>2. PICK s \in Calls : /\ calls' = [calls EXCEPT ![c] = s]
                             /\ s.at = "put" /\ s.key = calls[c].key /\ s.who = calls[c].who
      BY <1>5, <2>2, <3>1, StepIs DEF AddAdminCheck
    <3> QED BY <1>0, <1>5, <3>1, <3>2, SecretQuiet DEF AddAdminCheck
  <2> QED BY <2>1, <2>2
<1>6. CASE AddAdminPut(c)
  <2>1. CASE PutWrappedCSK(c)
    BY <1>6, <2>1, NextRecord DEF AddAdminPut
  <2>2. CASE UNCHANGED wrapped
    BY <1>0, <1>6, <2>2, IdleCall, SecretQuiet DEF AddAdminPut, Return
  <2> QED BY <1>6, <2>1, <2>2 DEF AddAdminPut
<1>7. CASE UnlockStore(c)
  <2>1. calls[c].key \in Keys /\ (~orphaned => Agrees(calls[c].key))
    BY <1>7 DEF UnlockStore, SecretInv, CallsOK, AllAgree, Carries
  <2> QED BY <1>0, <1>7, <2>1, IdleCall, SecretQuiet DEF UnlockStore, Return
<1>8. CASE EncryptCopy(c)
  <2>1. held \in Keys /\ (~orphaned => Agrees(held))
    BY <1>8 DEF EncryptCopy, SecretInv, SecretTypeOK, AllAgree
  <2>2. PICK s \in Calls : /\ calls' = [calls EXCEPT ![c] = s]
                           /\ s.at = "seal" /\ s.key = held /\ s.who = calls[c].who
    BY <1>8, <2>1, StepIs DEF EncryptCopy
  <2> QED BY <1>0, <1>8, <2>1, <2>2, SecretQuiet DEF EncryptCopy
<1>9. CASE EncryptSeal(c)
  <2>1. calls[c].key \in Keys /\ (~orphaned => Agrees(calls[c].key))
    BY <1>9 DEF EncryptSeal, SecretInv, CallsOK, AllAgree, Carries
  <2> QED BY <1>0, <1>9, <2>1, IdleCall, SecretQuiet DEF EncryptSeal, Return
<1>10. ASSUME NEW a \in Admins, AddAdminHandler(c, a) PROVE SecretInv'
  <2>1. PICK at \in {"bootstrap", "add"} :
          calls' = [calls EXCEPT ![c] = [at |-> at, who |-> a, key |-> NoKey]]
    BY <1>10 DEF AddAdminHandler
  <2>2. [at |-> at, who |-> a, key |-> NoKey] \in Calls
    BY DEF Calls
  <2> QED BY <1>0, <1>10, <2>1, <2>2, SecretQuiet DEF AddAdminHandler
<1>11. ASSUME NEW a \in Admins, UnlockRead(c, a) PROVE SecretInv'
  <2>1. wrapped[a] \in Keys /\ (~orphaned => Agrees(wrapped[a]))
    BY <1>11 DEF UnlockRead, SecretInv, SecretTypeOK, AllAgree, Staffed
  <2>2. PICK s \in Calls : /\ calls' = [calls EXCEPT ![c] = s]
                           /\ s.at = "unlock" /\ s.key = wrapped[a] /\ s.who = calls[c].who
    BY <1>11, <2>1, StepIs DEF UnlockRead
  <2> QED BY <1>0, <1>11, <2>1, <2>2, SecretQuiet DEF UnlockRead
<1> QED BY <1>1, <1>2, <1>3, <1>4, <1>5, <1>6, <1>7, <1>8, <1>9, <1>10, <1>11 DEF SecretCall

LEMMA SecretInvStep == SecretInv /\ [SecretNext]_secretVars => SecretInv'
<1> SUFFICES ASSUME SecretInv, [SecretNext]_secretVars PROVE SecretInv'
  OBVIOUS
<1>1. ASSUME NEW c \in Callers, SecretCall(c) PROVE SecretInv'
  BY <1>1, SecretCallKeeps
<1>2. ASSUME NEW a \in Admins, RemoveAdmin(a) PROVE SecretInv'
  BY <1>2, RemoveKeeps
<1>3. CASE Lock
  BY <1>3 DEF Lock, SecretInv, SecretTypeOK, CallsOK, OneBootstrap, AllAgree, Carries,
              Bootstraps, Agrees, Staffed
<1>4. CASE SecretRestart
  <2>1. calls' \in [Callers -> Calls] /\ \A c \in Callers : calls'[c].at = "idle"
    BY <1>4, IdleCall DEF SecretRestart
  <2>2. SecretTypeOK'
    BY <1>4, <2>1 DEF SecretRestart, SecretInv, SecretTypeOK
  <2>3. CallsOK' /\ OneBootstrap'
    BY <2>1 DEF CallsOK, OneBootstrap, Carries, Bootstraps
  <2>4. AllAgree'
    BY <1>4, <2>1 DEF SecretRestart, SecretInv, AllAgree, Agrees, Staffed, Carries
  <2> QED BY <2>2, <2>3, <2>4 DEF SecretInv
<1>5. CASE UNCHANGED secretVars
  BY <1>5 DEF secretVars, SecretInv, SecretTypeOK, CallsOK, OneBootstrap, AllAgree, Carries,
              Bootstraps, Agrees, Staffed
<1> QED BY <1>1, <1>2, <1>3, <1>4, <1>5 DEF SecretNext

(* ADR-0007's one key per cluster: whatever unlocks, additions, removals,      *)
(* locks and restarts interleave, what was sealed can be opened by every admin *)
(* until the last record of a key is deleted.                                  *)
THEOREM OneKeyPerCluster == SecretSpec => []OneKey
<1>1. SecretInv => OneKey
  BY DEF SecretInv, AllAgree, Agrees, OneKey
<1> QED BY SecretInvInit, SecretInvStep, <1>1, PTL DEF SecretSpec

--------------------------------------------------------------------------------
(* InviteRedemption.                                                          *)
InviteRows == [InviteIds -> Invite \cup {NoInvite}]
RedeemRow == [at : {"idle", "name", "create"}, inv : InviteIds \cup {NoInvite}, plain : BOOLEAN]

RowsInv ==
  /\ {invites, invitesFile} \subseteq InviteRows
  /\ handed \in [InviteIds -> 0..MaxTokens]
  /\ HandedTokenWorks

(* A consumed invite is in neither place, and its id has been handed out, so    *)
(* that it is never created again.                                             *)
Gone(i) == invites[i] = NoInvite /\ invitesFile[i] = NoInvite /\ handed[i] # 0

(* OneAccountPerInvite is not inductive: a redemption under way is as good as  *)
(* an account, and both rest on the invite being gone for good.                *)
RedeemsInv ==
  /\ redeems \in [Redeemers -> RedeemRow]
  /\ from \in Seq(InviteIds \cup {NoInvite})
  /\ \A c \in Redeemers : redeems[c].inv # NoInvite =>
       /\ Gone(redeems[c].inv)
       /\ \A u \in DOMAIN from : from[u] # redeems[c].inv
       /\ \A d \in Redeemers : redeems[d].inv = redeems[c].inv => d = c
  /\ \A u \in DOMAIN from : from[u] # NoInvite => Gone(from[u])
  /\ OneAccountPerInvite

InviteInv == RowsInv /\ RedeemsInv

LEMMA InviteInvInit == InviteInit => InviteInv
<1> SUFFICES ASSUME InviteInit PROVE InviteInv
  OBVIOUS
<1>1. /\ invites = [i \in InviteIds |-> NoInvite] /\ invitesFile = invites
      /\ handed = [i \in InviteIds |-> 0] /\ from = << >>
      /\ redeems = [c \in Redeemers |-> NoRedeem]
  BY DEF InviteInit
<1>2. RowsInv
  BY <1>1, InviteAssumption DEF RowsInv, InviteRows, HandedTokenWorks
<1>3. NoRedeem \in RedeemRow /\ NoRedeem.inv = NoInvite
  BY DEF NoRedeem, RedeemRow
<1>4. RedeemsInv
  BY <1>1, <1>3 DEF RedeemsInv, OneAccountPerInvite
<1> QED BY <1>2, <1>4 DEF InviteInv

LEMMA IssuedRow ==
  ASSUME RowsInv, NEW i \in InviteIds, NEW t \in 1..MaxTokens
  PROVE  /\ Issued(i, t) \in InviteRows /\ Issued(i, t)[i].token = t
         /\ Issued(i, t)[i] # NoInvite
         /\ \A j \in InviteIds \ {i} : Issued(i, t)[j] = invites[j]
<1> DEFINE r == [token |-> t, lapsed |-> FALSE]
<1>1. r \in Invite /\ r.token = t
  BY DEF Invite
<1>2. r # NoInvite
  BY <1>1, InviteAssumption
<1>3. Issued(i, t) = [invites EXCEPT ![i] = r]
  BY DEF Issued
<1> HIDE DEF r
<1> QED BY <1>1, <1>2, <1>3 DEF RowsInv, InviteRows

LEMMA LapsedRow ==
  ASSUME NEW rows \in InviteRows, NEW i \in InviteIds
  PROVE  /\ Lapsed(rows, i) \in InviteRows
         /\ \A j \in InviteIds : /\ Lapsed(rows, i)[j] = NoInvite <=> rows[j] = NoInvite
                                 /\ rows[j] # NoInvite => Lapsed(rows, i)[j].token = rows[j].token
<1>1. CASE rows[i] = NoInvite
  BY <1>1 DEF Lapsed
<1>2. CASE rows[i] # NoInvite
  <2> DEFINE r == [rows[i] EXCEPT !.lapsed = TRUE]
  <2>1. rows[i] \in Invite
    BY <1>2 DEF InviteRows
  <2>2. r \in Invite /\ r.token = rows[i].token
    BY <2>1 DEF Invite
  <2>3. r # NoInvite
    BY <2>2, InviteAssumption
  <2>4. Lapsed(rows, i) = [rows EXCEPT ![i] = r]
    BY <1>2 DEF Lapsed, InviteRows
  <2> HIDE DEF r
  <2> QED BY <1>2, <2>2, <2>3, <2>4 DEF InviteRows
<1> QED BY <1>1, <1>2

(* What a step may do to the rows: take some out, issue the newest token of     *)
(* one it had or had never handed out, or copy the file over the cache or back. *)
RowStep(i) ==
  \/ UNCHANGED <<invites, invitesFile, handed>>
  \/ CreateInvite(i) \/ Rotate(i) \/ Revoke(i) \/ Expire(i)
  \/ /\ handed' = handed /\ invites' = [invites EXCEPT ![i] = NoInvite]
     /\ invitesFile' \in {invites', invitesFile}
  \/ handed' = handed /\ invites' = invitesFile /\ invitesFile' = invitesFile

LEMMA RowsStep ==
  ASSUME RowsInv, NEW i \in InviteIds, RowStep(i)
  PROVE  RowsInv' /\ \A j \in InviteIds : Gone(j) => Gone(j)'
<1> USE DEF RowsInv
<1>1. CASE UNCHANGED <<invites, invitesFile, handed>>
  BY <1>1 DEF HandedTokenWorks, Gone
<1>2. ASSUME NEW t \in 1..MaxTokens, Written(Issued(i, t)), handed' = [handed EXCEPT ![i] = t],
             ~Gone(i)
      PROVE  RowsInv' /\ \A j \in InviteIds : Gone(j) => Gone(j)'
  <2>1. invites' = Issued(i, t) /\ invitesFile' = Issued(i, t)
    BY <1>2 DEF Written
  <2>2. handed' \in [InviteIds -> 0..MaxTokens] /\ handed'[i] = t
        /\ \A j \in InviteIds \ {i} : handed'[j] = handed[j]
    BY <1>2
  <2>3. HandedTokenWorks'
    BY <2>1, <2>2, IssuedRow DEF HandedTokenWorks
  <2>4. \A j \in InviteIds : Gone(j) => Gone(j)'
    BY <1>2, <2>1, <2>2, IssuedRow DEF Gone
  <2> QED BY <2>1, <2>2, <2>3, <2>4, IssuedRow
<1>3. CASE CreateInvite(i)
  <2>1. Written(Issued(i, 1)) /\ handed' = [handed EXCEPT ![i] = 1] /\ handed[i] = 0
    BY <1>3 DEF CreateInvite
  <2>2. 1 \in 1..MaxTokens
    BY InviteAssumption
  <2> QED BY <1>2, <2>1, <2>2 DEF Gone
<1>4. CASE Rotate(i)
  <2>1. Written(Issued(i, handed[i] + 1)) /\ handed' = [handed EXCEPT ![i] = handed[i] + 1]
        /\ invites[i] # NoInvite /\ handed[i] < MaxTokens
    BY <1>4 DEF Rotate
  <2>2. PICK t \in 1..MaxTokens : t = handed[i] + 1
    BY <2>1, InviteAssumption
  <2> QED BY <1>2, <2>1, <2>2 DEF Gone
<1>5. CASE /\ handed' = handed /\ invites' = [invites EXCEPT ![i] = NoInvite]
           /\ invitesFile' \in {invites', invitesFile}
  <2>1. invites' \in InviteRows /\ invitesFile' \in InviteRows
    BY <1>5 DEF InviteRows
  <2>2. HandedTokenWorks' /\ \A j \in InviteIds : Gone(j) => Gone(j)'
    BY <1>5 DEF HandedTokenWorks, Gone, InviteRows
  <2> QED BY <1>5, <2>1, <2>2
<1>6. CASE Revoke(i)
  BY <1>5, <1>6 DEF Revoke
<1>7. CASE Expire(i)
  <2>1. invites' = Lapsed(invites, i) /\ invitesFile' = Lapsed(invitesFile, i)
        /\ handed' = handed
    BY <1>7 DEF Expire
  <2>2. invites \in InviteRows /\ invitesFile \in InviteRows
    OBVIOUS
  <2>3. /\ \A j \in InviteIds : /\ invites'[j] = NoInvite <=> invites[j] = NoInvite
                                /\ invites[j] # NoInvite => invites'[j].token = invites[j].token
        /\ invites' \in InviteRows
    BY <2>1, <2>2, LapsedRow
  <2>4. /\ \A j \in InviteIds : /\ invitesFile'[j] = NoInvite <=> invitesFile[j] = NoInvite
                                /\ invitesFile[j] # NoInvite =>
                                      invitesFile'[j].token = invitesFile[j].token
        /\ invitesFile' \in InviteRows
    BY <2>1, <2>2, LapsedRow
  <2>5. HandedTokenWorks'
    BY <2>1, <2>3, <2>4 DEF HandedTokenWorks
  <2>6. \A j \in InviteIds : Gone(j) => Gone(j)'
    BY <2>1, <2>3, <2>4 DEF Gone
  <2> QED BY <2>1, <2>3, <2>4, <2>5, <2>6
<1>8. CASE handed' = handed /\ invites' = invitesFile /\ invitesFile' = invitesFile
  BY <1>8 DEF HandedTokenWorks, Gone
<1> QED BY <1>1, <1>3, <1>4, <1>5, <1>6, <1>7, <1>8 DEF RowStep

LEMMA NextRows ==
  ASSUME RowsInv, [InviteNext]_inviteVars, NEW j \in InviteIds
  PROVE  RowsInv' /\ \A i \in InviteIds : Gone(i) => Gone(i)'
<1>1. \E i \in InviteIds : RowStep(i)
  <2>1. ASSUME NEW i \in InviteIds, CreateInvite(i) \/ Rotate(i) \/ Revoke(i) \/ Expire(i)
        PROVE  RowStep(i)
    BY <2>1 DEF RowStep
  <2>2. ASSUME NEW c \in Redeemers, CreateUserHandler(c) \/ PickName(c) \/ HashFails(c)
                                      \/ CreateUser(c)
        PROVE  RowStep(j)
    BY <2>2 DEF RowStep, CreateUserHandler, PickName, HashFails, CreateUser
  <2>3. ASSUME NEW c \in Redeemers, NEW i \in InviteIds, NEW t \in 1..MaxTokens, Consume(c, i, t)
        PROVE  RowStep(i)
    BY <2>3 DEF RowStep, Consume, Written
  <2>4. ASSUME NEW u \in accounts, DeleteUser(u) PROVE RowStep(j)
    BY <2>4 DEF RowStep, DeleteUser
  <2>5. CASE InviteRestart
    BY <2>5 DEF RowStep, InviteRestart
  <2>6. CASE UNCHANGED inviteVars
    BY <2>6 DEF RowStep, inviteVars
  <2> QED BY <2>1, <2>2, <2>3, <2>4, <2>5, <2>6 DEF InviteNext
<1> QED BY <1>1, RowsStep

(* A step that starts no redemption and makes no account: each request keeps    *)
(* its invite or has none.                                                     *)
LEMMA RedeemsKept ==
  ASSUME InviteInv, \A i \in InviteIds : Gone(i) => Gone(i)', from' = from,
         redeems' \in [Redeemers -> RedeemRow],
         \A c \in Redeemers : redeems'[c].inv \in {redeems[c].inv, NoInvite}
  PROVE  RedeemsInv'
<1>1. \A c \in Redeemers : redeems[c].inv \in InviteIds \cup {NoInvite}
  BY DEF InviteInv, RedeemsInv, RedeemRow
<1>2. \A u \in DOMAIN from : from[u] # NoInvite => from[u] \in InviteIds
  BY DEF InviteInv, RedeemsInv
<1>3. ASSUME NEW c \in Redeemers, redeems'[c].inv # NoInvite
      PROVE  /\ Gone(redeems[c].inv)'
             /\ \A u \in DOMAIN from' : from'[u] # redeems'[c].inv
             /\ \A d \in Redeemers : redeems'[d].inv = redeems'[c].inv => d = c
  <2>1. redeems'[c].inv = redeems[c].inv /\ redeems[c].inv \in InviteIds
    BY <1>1, <1>3
  <2>2. Gone(redeems[c].inv)
    BY <1>3, <2>1 DEF InviteInv, RedeemsInv
  <2>3. Gone(redeems[c].inv)'
    BY <2>1, <2>2 DEF Gone
  <2> QED BY <1>3, <2>1, <2>3 DEF InviteInv, RedeemsInv
<1>4. \A u \in DOMAIN from' : from'[u] # NoInvite => Gone(from[u])'
  BY <1>2 DEF InviteInv, RedeemsInv, Gone
<1>5. OneAccountPerInvite'
  BY DEF InviteInv, RedeemsInv, OneAccountPerInvite
<1> QED BY <1>3, <1>4, <1>5 DEF InviteInv, RedeemsInv

(* The requests that keep their invite, or give it up.                         *)
LEMMA RequestMoves ==
  ASSUME InviteInv, NEW c \in Redeemers, NEW r \in RedeemRow,
         r.inv \in {redeems[c].inv, NoInvite}, redeems' = [redeems EXCEPT ![c] = r]
  PROVE  /\ redeems' \in [Redeemers -> RedeemRow]
         /\ \A d \in Redeemers : redeems'[d].inv \in {redeems[d].inv, NoInvite}
BY DEF InviteInv, RedeemsInv

LEMMA IdleRequest == NoRedeem \in RedeemRow /\ NoRedeem.inv = NoInvite
BY DEF NoRedeem, RedeemRow

(* A redemption starts by taking its invite away from everybody.               *)
LEMMA ConsumeKeeps ==
  ASSUME InviteInv, \A i \in InviteIds : Gone(i) => Gone(i)',
         NEW c \in Redeemers, NEW i \in InviteIds, NEW t \in 1..MaxTokens, Consume(c, i, t)
  PROVE  RedeemsInv'
<1>1. invites[i] # NoInvite /\ handed[i] = t /\ from' = from
  BY DEF Consume, Accounts, InviteInv, RowsInv, HandedTokenWorks
<1>2. CASE invites[i].lapsed
  <2>1. redeems' = redeems
    BY <1>2 DEF Consume
  <2> QED BY <1>1, <2>1, RedeemsKept DEF InviteInv, RedeemsInv
<1>3. CASE ~invites[i].lapsed
  <2> DEFINE r == [at |-> "name", inv |-> i, plain |-> FALSE]
  <2>1. redeems' = [redeems EXCEPT ![c] = r] /\ handed' = handed
        /\ invites' = [invites EXCEPT ![i] = NoInvite] /\ invitesFile' = invites'
    BY <1>3 DEF Consume, Redeems, Written
  <2>2. r \in RedeemRow /\ r.inv = i
    BY DEF RedeemRow
  <2> HIDE DEF r
  <2>3. Gone(i)'
    BY <1>1, <2>1 DEF Gone, InviteInv, RowsInv, InviteRows
  <2>4. \A u \in DOMAIN from : from[u] # i
    BY <1>1, InviteAssumption DEF InviteInv, RedeemsInv, Gone
  <2>5. \A d \in Redeemers : redeems[d].inv # i
    BY <1>1, InviteAssumption DEF InviteInv, RedeemsInv, Gone
  <2>6. redeems' \in [Redeemers -> RedeemRow] /\ redeems'[c] = r
        /\ \A d \in Redeemers \ {c} : redeems'[d] = redeems[d]
    BY <2>1, <2>2 DEF InviteInv, RedeemsInv
  <2>7. \A d \in Redeemers \ {c} : redeems[d].inv # NoInvite =>
          redeems[d].inv \in InviteIds /\ Gone(redeems[d].inv)
    BY DEF InviteInv, RedeemsInv, RedeemRow
  <2>8. \A j \in InviteIds : Gone(j) => invites'[j] = NoInvite /\ invitesFile'[j] = NoInvite
                                          /\ handed'[j] # 0
    BY DEF Gone
  <2>9. ASSUME NEW d \in Redeemers, redeems'[d].inv # NoInvite
        PROVE  /\ Gone(redeems[d].inv)'
               /\ \A u \in DOMAIN from' : from'[u] # redeems'[d].inv
               /\ \A e \in Redeemers : redeems'[e].inv = redeems'[d].inv => e = d
    <3>1. CASE d = c
      BY <1>1, <2>2, <2>3, <2>4, <2>5, <2>6, <3>1 DEF Gone
    <3>2. CASE d # c
      <4>1. redeems'[d] = redeems[d]
        BY <2>6, <3>2
      <4>2. Gone(redeems[d].inv)'
        BY <2>7, <2>8, <2>9, <3>2, <4>1 DEF Gone
      <4> QED BY <1>1, <2>2, <2>5, <2>6, <2>9, <4>1, <4>2 DEF InviteInv, RedeemsInv
    <3> QED BY <3>1, <3>2
  <2>10. \A u \in DOMAIN from' : from'[u] # NoInvite => Gone(from[u])'
    BY <1>1, <2>8 DEF InviteInv, RedeemsInv, Gone
  <2>11. OneAccountPerInvite'
    BY <1>1 DEF InviteInv, RedeemsInv, OneAccountPerInvite
  <2> QED BY <1>1, <2>6, <2>9, <2>10, <2>11 DEF InviteInv, RedeemsInv
<1> QED BY <1>2, <1>3

(* The account is made, and the request is over.                               *)
LEMMA CreateUserKeeps ==
  ASSUME InviteInv, \A i \in InviteIds : Gone(i) => Gone(i)',
         NEW c \in Redeemers, CreateUser(c)
  PROVE  RedeemsInv'
<1>1. PICK i \in InviteIds \cup {NoInvite} : i = redeems[c].inv
  BY DEF InviteInv, RedeemsInv, RedeemRow
<1>2. from' = Append(from, i) /\ redeems' = [redeems EXCEPT ![c] = NoRedeem]
      /\ UNCHANGED <<invites, invitesFile, handed>>
  BY <1>1 DEF CreateUser
<1>3. /\ from' \in Seq(InviteIds \cup {NoInvite}) /\ DOMAIN from' = DOMAIN from \cup {Len(from) + 1}
      /\ from'[Len(from) + 1] = i /\ \A u \in DOMAIN from : from'[u] = from[u]
      /\ Len(from) + 1 \notin DOMAIN from
  BY <1>2 DEF InviteInv, RedeemsInv
<1>4. redeems' \in [Redeemers -> RedeemRow] /\ redeems'[c] = NoRedeem
      /\ \A d \in Redeemers \ {c} : redeems'[d] = redeems[d]
  BY <1>2, IdleRequest DEF InviteInv, RedeemsInv
<1>5. \A x : Gone(x)' <=> Gone(x)
  BY <1>2 DEF Gone
<1>6. i # NoInvite => Gone(i) /\ \A u \in DOMAIN from : from[u] # i
  BY <1>1 DEF InviteInv, RedeemsInv
<1>7. ASSUME NEW d \in Redeemers, redeems'[d].inv # NoInvite
      PROVE  /\ Gone(redeems[d].inv)'
             /\ \A u \in DOMAIN from' : from'[u] # redeems'[d].inv
             /\ \A e \in Redeemers : redeems'[e].inv = redeems'[d].inv => e = d
  <2>1. d # c /\ redeems'[d] = redeems[d]
    BY <1>4, <1>7, IdleRequest
  <2>2. Gone(redeems[d].inv) /\ redeems[d].inv # i
    BY <1>1, <1>7, <2>1 DEF InviteInv, RedeemsInv
  <2>3. Gone(redeems[d].inv)'
    BY <1>5, <2>1, <2>2 DEF Gone
  <2>4. \A u \in DOMAIN from' : from'[u] # redeems'[d].inv
    BY <1>3, <1>7, <2>1, <2>2 DEF InviteInv, RedeemsInv
  <2>5. \A e \in Redeemers : redeems'[e].inv = redeems'[d].inv => e = d
    BY <1>4, <1>7, <2>1, IdleRequest DEF InviteInv, RedeemsInv
  <2> QED BY <2>3, <2>4, <2>5
<1>8. \A u \in DOMAIN from' : from'[u] # NoInvite => Gone(from[u])'
  BY <1>2, <1>3, <1>6 DEF InviteInv, RedeemsInv, Gone
<1>9. OneAccountPerInvite'
  BY <1>3, <1>6 DEF InviteInv, RedeemsInv, OneAccountPerInvite
<1> QED BY <1>3, <1>4, <1>7, <1>8, <1>9 DEF InviteInv, RedeemsInv

LEMMA InviteInvStep == InviteInv /\ [InviteNext]_inviteVars => InviteInv'
<1> SUFFICES ASSUME InviteInv, [InviteNext]_inviteVars PROVE InviteInv'
  OBVIOUS
<1>0. RowsInv' /\ \A i \in InviteIds : Gone(i) => Gone(i)'
  <2>1. ASSUME NEW j \in InviteIds PROVE RowsInv' /\ \A i \in InviteIds : Gone(i) => Gone(i)'
    BY NextRows DEF InviteInv
  <2> QED BY <2>1, InviteAssumption
<1>1. RedeemsInv'
  <2>1. ASSUME UNCHANGED <<redeems, from>> PROVE RedeemsInv'
    <3>1. redeems' \in [Redeemers -> RedeemRow]
      BY <2>1 DEF InviteInv, RedeemsInv
    <3> QED BY <1>0, <2>1, <3>1, RedeemsKept
  <2>2. ASSUME NEW i \in InviteIds, CreateInvite(i) \/ Rotate(i) \/ Revoke(i) \/ Expire(i)
        PROVE  UNCHANGED <<redeems, from>>
    BY <2>2 DEF CreateInvite, Rotate, Revoke, Expire, Accounts
  <2>3. ASSUME NEW c \in Redeemers, CreateUserHandler(c) PROVE RedeemsInv'
    <3>1. [at |-> "create", inv |-> NoInvite, plain |-> TRUE] \in RedeemRow
      BY DEF RedeemRow
    <3> QED BY <1>0, <2>3, <3>1, RequestMoves, RedeemsKept DEF CreateUserHandler, Redeems, Accounts
  <2>4. ASSUME NEW c \in Redeemers, PickName(c) PROVE RedeemsInv'
    <3>1. PICK bare \in BOOLEAN : bare = (plain \cap accounts = {})
      OBVIOUS
    <3>2. [at |-> "create", inv |-> redeems[c].inv, plain |-> bare] \in RedeemRow
      BY DEF RedeemRow, InviteInv, RedeemsInv
    <3>3. redeems' = [redeems EXCEPT ![c] = [at |-> "create", inv |-> redeems[c].inv,
                                             plain |-> bare]]
      BY <2>4, <3>1 DEF PickName, Redeems
    <3> QED BY <1>0, <2>4, <3>2, <3>3, RequestMoves, RedeemsKept DEF PickName, Accounts
  <2>5. ASSUME NEW c \in Redeemers, HashFails(c) PROVE RedeemsInv'
    BY <1>0, <2>5, IdleRequest, RequestMoves, RedeemsKept DEF HashFails, Accounts
  <2>6. ASSUME NEW c \in Redeemers, CreateUser(c) PROVE RedeemsInv'
    BY <1>0, <2>6, CreateUserKeeps
  <2>7. ASSUME NEW c \in Redeemers, NEW i \in InviteIds, NEW t \in 1..MaxTokens, Consume(c, i, t)
        PROVE  RedeemsInv'
    BY <1>0, <2>7, ConsumeKeeps
  <2>8. ASSUME NEW u \in accounts, DeleteUser(u) PROVE UNCHANGED <<redeems, from>>
    BY <2>8 DEF DeleteUser
  <2>9. CASE InviteRestart
    <3>1. redeems' \in [Redeemers -> RedeemRow] /\ from' = from
          /\ \A c \in Redeemers : redeems'[c].inv = NoInvite
      BY <2>9, IdleRequest DEF InviteRestart
    <3> QED BY <1>0, <3>1, RedeemsKept
  <2>10. CASE UNCHANGED inviteVars
    BY <2>1, <2>10 DEF inviteVars
  <2> QED BY <2>1, <2>2, <2>3, <2>4, <2>5, <2>6, <2>7, <2>8, <2>9, <2>10 DEF InviteNext
<1> QED BY <1>0, <1>1 DEF InviteInv

(* Redeem consumes the invite before the account is made: an invite makes one. *)
THEOREM OneAccount == InviteSpec => []OneAccountPerInvite
<1>1. InviteInv => OneAccountPerInvite
  BY DEF InviteInv, RedeemsInv
<1> QED BY InviteInvInit, InviteInvStep, <1>1, PTL DEF InviteSpec

(* Rotate and its rollback: the newest token handed out redeems the invite.    *)
THEOREM NewestTokenWorks == InviteSpec => []HandedTokenWorks
<1>1. InviteInv => HandedTokenWorks
  BY DEF InviteInv, RowsInv
<1> QED BY InviteInvInit, InviteInvStep, <1>1, PTL DEF InviteSpec
================================================================================
