---------------------------- MODULE InviteRedemption ----------------------------
(* Invites (invites.json) and the accounts made from them (users.json). All    *)
(* labels sanitize to one name, the case in which the handlers have to look    *)
(* for a collision; a name with a suffix is unique, as the account's id is.    *)
(* A token is the number of its draw for that invite; each store operation     *)
(* holds its store's lock, and a write may fail in any of them.                *)
EXTENDS Naturals, Sequences

CONSTANTS InviteIds, Redeemers, NoInvite, MaxTokens, MaxAccounts

VARIABLES
  invites,      \* invitesStore.cache: [token, lapsed]
  invitesFile,  \* invites.json
  handed,       \* the newest token handed out for an invite, 0 before the first
  accounts,     \* usersCache, as numbers in the order of creation
  accountsFile, \* users.json
  plain,        \* the accounts named by the bare label
  redeems,      \* redeem and create-user requests under way
  from          \* history: the invite each account was made from

inviteVars == <<invites, invitesFile, handed, accounts, accountsFile, plain, redeems, from>>

Invite == [token : 1..MaxTokens, lapsed : BOOLEAN]
ASSUME InviteAssumption ==
  InviteIds # {} /\ MaxTokens \in Nat \ {0} /\ NoInvite \notin Invite \cup InviteIds
NoRedeem == [at |-> "idle", inv |-> NoInvite, plain |-> FALSE]
Redeems(c, at, i, bare) ==
  redeems' = [redeems EXCEPT ![c] = [at |-> at, inv |-> i, plain |-> bare]]

InviteInit ==
  /\ invites = [i \in InviteIds |-> NoInvite] /\ invitesFile = invites
  /\ handed = [i \in InviteIds |-> 0]
  /\ accounts = {} /\ accountsFile = {} /\ plain = {} /\ from = <<>>
  /\ redeems = [c \in Redeemers |-> NoRedeem]

Accounts == <<accounts, accountsFile, plain, from>>
Written(new) == invites' = new /\ invitesFile' = new
Issued(i, token) == [invites EXCEPT ![i] = [token |-> token, lapsed |-> FALSE]]

(* Create: a failed write takes the row out again, and hands nothing out.     *)
CreateInvite(i) ==
  /\ handed[i] = 0 /\ invites[i] = NoInvite
  /\ Written(Issued(i, 1)) /\ handed' = [handed EXCEPT ![i] = 1]
  /\ UNCHANGED redeems /\ UNCHANGED Accounts

(* Mutant: the failed write of a rotation leaves the new token in memory.     *)
RotateAhead(i) ==
  /\ invites[i] # NoInvite /\ handed[i] < MaxTokens
  /\ invites' = Issued(i, handed[i] + 1)
  /\ \/ invitesFile' = invites' /\ handed' = [handed EXCEPT ![i] = @ + 1]
     \/ UNCHANGED <<invitesFile, handed>>
  /\ UNCHANGED redeems /\ UNCHANGED Accounts

(* Rotate: a new token and a new expiry, or the original row.                 *)
Rotate(i) ==
  /\ invites[i] # NoInvite /\ handed[i] < MaxTokens
  /\ Written(Issued(i, handed[i] + 1)) /\ handed' = [handed EXCEPT ![i] = @ + 1]
  /\ UNCHANGED redeems /\ UNCHANGED Accounts

(* Revoke: the row stays in the file when it cannot be written.               *)
Revoke(i) ==
  /\ invites[i] # NoInvite
  /\ invites' = [invites EXCEPT ![i] = NoInvite]
  /\ invitesFile' \in {invites', invitesFile}
  /\ UNCHANGED <<handed, redeems>> /\ UNCHANGED Accounts

Lapsed(rows, i) ==
  IF rows[i] = NoInvite THEN rows ELSE [rows EXCEPT ![i].lapsed = TRUE]
Expire(i) ==
  /\ invites' = Lapsed(invites, i) /\ invitesFile' = Lapsed(invitesFile, i)
  /\ UNCHANGED <<handed, redeems>> /\ UNCHANGED Accounts

(* Mutant: an invite that could not be taken out of the file is redeemed.     *)
ConsumeAnyway(c, i, token) ==
  /\ redeems[c].at = "idle"
  /\ invites[i] # NoInvite /\ invites[i].token = token /\ ~invites[i].lapsed
  /\ invites' = [invites EXCEPT ![i] = NoInvite]
  /\ invitesFile' \in {invites', invitesFile}
  /\ Redeems(c, "name", i, FALSE)
  /\ UNCHANGED handed /\ UNCHANGED Accounts

(* Store.Redeem: whoever presents the token of a row consumes the row, and it  *)
(* is restored when the file cannot be written; an expired one goes away, from *)
(* memory at least, and is refused.                                           *)
Consume(c, i, token) ==
  /\ redeems[c].at = "idle"
  /\ invites[i] # NoInvite /\ invites[i].token = token
  /\ IF invites[i].lapsed
     THEN /\ invites' = [invites EXCEPT ![i] = NoInvite]
          /\ invitesFile' \in {invites', invitesFile}
          /\ UNCHANGED redeems
     ELSE /\ Written([invites EXCEPT ![i] = NoInvite])
          /\ Redeems(c, "name", i, FALSE)
  /\ UNCHANGED handed /\ UNCHANGED Accounts

(* createUserHandler, for the same name: refused if UserByUsername finds it.  *)
CreateUserHandler(c) ==
  /\ redeems[c].at = "idle" /\ plain \cap accounts = {}
  /\ Redeems(c, "create", NoInvite, TRUE)
  /\ UNCHANGED <<invites, invitesFile, handed>> /\ UNCHANGED Accounts

(* UserByUsername decides between the bare name and one with a suffix; then    *)
(* the password is hashed.                                                    *)
PickName(c) ==
  /\ redeems[c].at = "name"
  /\ Redeems(c, "create", redeems[c].inv, plain \cap accounts = {})
  /\ UNCHANGED <<invites, invitesFile, handed>> /\ UNCHANGED Accounts

HashFails(c) ==
  /\ redeems[c].at = "create"
  /\ redeems' = [redeems EXCEPT ![c] = NoRedeem]
  /\ UNCHANGED <<invites, invitesFile, handed>> /\ UNCHANGED Accounts

(* CreateUser appends without another look; the account stays in memory when   *)
(* the file cannot be written.                                                *)
CreateUser(c) ==
  /\ redeems[c].at = "create" /\ Len(from) < MaxAccounts
  /\ from' = Append(from, redeems[c].inv)
  /\ accounts' = accounts \cup {Len(from')}
  /\ accountsFile' \in {accounts', accountsFile}
  /\ plain' = IF redeems[c].plain THEN plain \cup {Len(from')} ELSE plain
  /\ redeems' = [redeems EXCEPT ![c] = NoRedeem]
  /\ UNCHANGED <<invites, invitesFile, handed>>

DeleteUser(u) ==
  /\ u \in accounts /\ accounts' = accounts \ {u}
  /\ accountsFile' \in {accounts', accountsFile}
  /\ UNCHANGED <<invites, invitesFile, handed, plain, redeems, from>>

InviteRestart ==
  /\ invites' = invitesFile /\ accounts' = accountsFile
  /\ redeems' = [c \in Redeemers |-> NoRedeem]
  /\ UNCHANGED <<invitesFile, handed, accountsFile, plain, from>>

InviteNext ==
  \/ \E i \in InviteIds : CreateInvite(i) \/ Rotate(i) \/ Revoke(i) \/ Expire(i)
  \/ \E c \in Redeemers :
       \/ CreateUserHandler(c) \/ PickName(c) \/ HashFails(c) \/ CreateUser(c)
       \/ \E i \in InviteIds, token \in 1..MaxTokens : Consume(c, i, token)
  \/ \E u \in accounts : DeleteUser(u)
  \/ InviteRestart

InviteSpec == InviteInit /\ [][InviteNext]_inviteVars

--------------------------------------------------------------------------------
InviteTypeOK ==
  /\ {invites, invitesFile} \subseteq [InviteIds -> Invite \cup {NoInvite}]
  /\ handed \in [InviteIds -> 0..MaxTokens]
  /\ from \in Seq(InviteIds \cup {NoInvite})
  /\ accounts \cup accountsFile \cup plain \subseteq DOMAIN from
  /\ redeems \in [Redeemers -> [at : {"idle", "name", "create"},
                                inv : InviteIds \cup {NoInvite}, plain : BOOLEAN]]

(* "we don't want a half-redeemed invite where the user creation might still   *)
(* succeed but the invite reappears on reload": whatever redemptions, failed   *)
(* writes and restarts interleave, an invite makes one account.               *)
OneAccountPerInvite ==
  \A u, v \in DOMAIN from : u # v /\ from[u] = from[v] => from[u] = NoInvite

(* Rotate's rollback: as long as an invite exists, in memory or in the file,   *)
(* the newest token that was handed out is the one that redeems it.           *)
HandedTokenWorks ==
  \A i \in InviteIds : \A rows \in {invites, invitesFile} :
    rows[i] # NoInvite => rows[i].token = handed[i]

(* "Avoid collision with an existing user": no two accounts have one name.    *)
(* The code does not keep it (README, known disagreements).                   *)
UsernamesUnique ==
  \A u, v \in plain \cap accounts : u = v
================================================================================
