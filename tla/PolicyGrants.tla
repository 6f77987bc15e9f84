------------------------------ MODULE PolicyGrants ------------------------------
(* policies.json and the enforcer's cache of it: who holds which right, a      *)
(* right being a role at a scope, and where the grant comes from. The seed     *)
(* roles are always there; the operator's own roles come and go together. All  *)
(* methods of the enforcer hold its lock throughout; who may call them is the  *)
(* handlers' gate and left out.                                               *)
EXTENDS Naturals, Sequences

CONSTANTS Users, Rights,
          EnvAdmin,     \* BASEMENT_ADMIN_USER, who does not log in by OIDC
          OwnRights,    \* the rights whose role the operator has made
          SeedRights    \* SeedEnvAdmin's wants, in order

ASSUME PolicyAssumption ==
  EnvAdmin \in Users /\ OwnRights \subseteq Rights /\ SeedRights \in Seq(Rights \ OwnRights)

VARIABLES
  policy,      \* fileEnforcer: the grants, and whether the own roles exist
  policyFile,  \* policies.json
  seeding,     \* SeedEnvAdmin: 0 at its look, then its next want, then past them
  word         \* history: what the operator was told when a grant was last changed

policyVars == <<policy, policyFile, seeding, word>>

Sources == {"none", "manual", "oidc"}
Words == {"nothing", "given", "taken"}
Up == seeding > Len(SeedRights)
NoGrants == [u \in Users |-> [g \in Rights |-> "none"]]
Exists(g) == g \notin OwnRights \/ policy.own
Granted(u, g, source) == [policy EXCEPT !.grants[u][g] = source]
Told(u, g, what) == word' = [word EXCEPT ![u][g] = what]

(* saveLocked writes everything, also what earlier failures left in memory.    *)
SavePolicy(new) == policy' = new /\ policyFile' = new
SaveFails(new) == policy' = new /\ UNCHANGED policyFile

PolicyInit ==
  /\ policy = [grants |-> NoGrants, own |-> FALSE] /\ policyFile = policy
  /\ seeding = 0 /\ word = [u \in Users |-> [g \in Rights |-> "nothing"]]

--------------------------------------------------------------------------------
(* Open and SeedEnvAdmin, before any request. A want that cannot be saved ends *)
(* the process.                                                               *)
PolicyRestart == policy' = policyFile /\ seeding' = 0 /\ UNCHANGED <<policyFile, word>>
SeedLook ==
  /\ seeding = 0
  /\ seeding' = IF \E g \in Rights : policy.grants[EnvAdmin][g] # "none"
                THEN Len(SeedRights) + 1 ELSE 1
  /\ UNCHANGED <<policy, policyFile, word>>
SeedNext ==
  /\ seeding \in DOMAIN SeedRights /\ seeding' = seeding + 1
  /\ LET g == SeedRights[seeding]
     IN IF policy.grants[EnvAdmin][g] # "none"
        THEN UNCHANGED <<policy, policyFile, word>>
        ELSE SavePolicy(Granted(EnvAdmin, g, "manual")) /\ Told(EnvAdmin, g, "nothing")

(* A save that fails leaves the new grant in memory. A grant that is there     *)
(* already, whatever its source and saved or not, is left as it is and answered*)
(* with success; word holds to what a save has given.                         *)
AssignRole(u, g) ==
  /\ Up /\ Exists(g)
  /\ \/ /\ policy.grants[u][g] = "none"
        /\ \/ SavePolicy(Granted(u, g, "manual")) /\ Told(u, g, "given")
           \/ SaveFails(Granted(u, g, "manual")) /\ Told(u, g, "nothing")
     \/ policy.grants[u][g] # "none" /\ UNCHANGED <<policy, policyFile, word>>
  /\ UNCHANGED seeding

UnassignRole(u, g) ==
  /\ Up /\ Told(u, g, "taken")
  /\ IF policy.grants[u][g] = "none" THEN UNCHANGED <<policy, policyFile>>
     ELSE SavePolicy(Granted(u, g, "none"))
  /\ UNCHANGED seeding

WithoutOwn == [u \in Users |-> [g \in Rights |->
              IF g \in OwnRights THEN "none" ELSE policy.grants[u][g]]]
DeleteRole ==
  /\ Up /\ policy.own
  /\ SavePolicy([grants |-> WithoutOwn, own |-> FALSE])
  /\ word' = [u \in Users |-> [g \in Rights |->
                IF g \in OwnRights THEN "taken" ELSE word[u][g]]]
  /\ UNCHANGED seeding

(* A new role, or an edited one; editing a seed role only saves.               *)
UpsertRole(own) ==
  /\ Up /\ own \in {policy.own, TRUE}
  /\ LET new == [policy EXCEPT !.own = own] IN SavePolicy(new) \/ SaveFails(new)
  /\ UNCHANGED <<seeding, word>>

(* Mutant: the claims decide about every grant of the user.                    *)
ClaimsOnly(u, wanted) ==
  [g \in Rights |-> IF g \in wanted /\ Exists(g) THEN "oidc" ELSE "none"]

(* A login: the user's claims decide about the grants that claims have made.   *)
Synced(u, wanted) ==
  [g \in Rights |-> IF policy.grants[u][g] = "manual" THEN "manual"
                    ELSE IF g \in wanted /\ Exists(g) THEN "oidc" ELSE "none"]
SyncOIDCAssignments(u, wanted) ==
  /\ Up /\ Synced(u, wanted) # policy.grants[u]
  /\ SavePolicy([policy EXCEPT !.grants[u] = Synced(u, wanted)])
  /\ word' = [word EXCEPT ![u] = [g \in Rights |->
                IF Synced(u, wanted)[g] = "oidc" THEN "nothing" ELSE word[u][g]]]
  /\ UNCHANGED seeding

PolicyNext ==
  \/ PolicyRestart \/ SeedLook \/ SeedNext \/ DeleteRole
  \/ \E own \in BOOLEAN : UpsertRole(own)
  \/ \E u \in Users, g \in Rights : AssignRole(u, g) \/ UnassignRole(u, g)
  \/ \E u \in Users \ {EnvAdmin}, wanted \in SUBSET Rights : SyncOIDCAssignments(u, wanted)

PolicySpec == PolicyInit /\ [][PolicyNext]_policyVars

--------------------------------------------------------------------------------
PolicyStates == [grants : [Users -> [Rights -> Sources]], own : BOOLEAN]
PolicyTypeOK ==
  /\ {policy, policyFile} \subseteq PolicyStates /\ seeding \in 0..(Len(SeedRights) + 1)
  /\ word \in [Users -> [Rights -> Words]]

(* "Manual assignments are sacred", and a privilege taken away is not restored *)
(* "on the next boot": a grant that a save has given, and one that was taken   *)
(* away, is so in memory and in the file, whatever logins, failed saves,       *)
(* restarts and roles deleted and made again come after - until a claim grants *)
(* it anew, or a boot that finds the environment's admin with nothing. A grant *)
(* that was answered for from memory, without a save, is not among them.      *)
OperatorsWord ==
  \A u \in Users, g \in Rights, where \in {policy, policyFile} :
    /\ word[u][g] = "given" => where.grants[u][g] = "manual"
    /\ word[u][g] = "taken" => where.grants[u][g] = "none"

(* "a persist failure must not leave in-memory authz state diverged from disk" *)
(* (DeleteRole). The code does not keep it (README, known disagreements): a    *)
(* failed AssignRole or UpsertRole is not rolled back, the retry is answered   *)
(* with success from memory, and a restart forgets the grant.                 *)
MemoryIsTheFile == policy = policyFile

(* "re-running on each boot ... safely adds the missing * row": an admin that  *)
(* nobody has touched holds every seed.                                        *)
(* The code does not keep it (README, known disagreements).                   *)
SeedsWhole ==
  Up /\ (\A g \in Rights : word[EnvAdmin][g] = "nothing")
    => \A i \in DOMAIN SeedRights : policy.grants[EnvAdmin][SeedRights[i]] # "none"
================================================================================
