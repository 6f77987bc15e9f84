----------------------------- MODULE ClusterSecret -----------------------------
(* The per-cluster secret key (CSK) of ADR-0007: wrapped once per admin on     *)
(* disk, unwrapped in memory while the cluster is unlocked. One cluster: the  *)
(* manager's map and the store's rows are per cluster. Keys are the numbers   *)
(* of the draws from the random source, so that two draws always differ.      *)
EXTENDS Naturals

CONSTANTS Admins, Callers, NoKey, MaxKeys

ASSUME SecretAssumption == MaxKeys \in Nat /\ NoKey \notin Nat

VARIABLES
  wrapped,   \* cluster_secrets.json: the key each admin's password unwraps
  held,      \* ClusterSecretManager.csks: the key in memory
  made,      \* keys drawn so far
  sealed,    \* the keys ciphertexts have been made with
  calls,     \* requests under way
  orphaned   \* history: the last wrapped copy of a key has been deleted

secretVars == <<wrapped, held, made, sealed, calls, orphaned>>

Keys == 1..MaxKeys
Staffed == {a \in Admins : wrapped[a] # NoKey}
NoCall(c) == calls[c].at = "idle"
Idle == [at |-> "idle", who |-> NoKey, key |-> NoKey]
Step(c, at, key) ==
  calls' = [calls EXCEPT ![c] = [at |-> at, who |-> calls[c].who, key |-> key]]
Return(c) == calls' = [calls EXCEPT ![c] = Idle]

SecretInit ==
  /\ wrapped = [a \in Admins |-> NoKey] /\ held = NoKey
  /\ made = 0 /\ sealed = {} /\ orphaned = FALSE
  /\ calls = [c \in Callers |-> Idle]

(* addAdminHandler: HasAdmins decides which of the two calls it makes; the     *)
(* second one is made only if requireUnlocked finds the key in memory.        *)
AddAdminHandler(c, a) ==
  /\ NoCall(c)
  /\ Staffed # {} => held # NoKey
  /\ calls' = [calls EXCEPT ![c] =
       [at |-> IF Staffed = {} THEN "bootstrap" ELSE "add", who |-> a, key |-> NoKey]]
  /\ UNCHANGED <<wrapped, held, made, sealed, orphaned>>

(* Mutant: the handler's look is trusted, and nobody looks again.             *)
BlindDraw(c) ==
  /\ calls[c].at = "bootstrap"
  /\ \A d \in Callers : calls[d].at \notin {"wrapFirst", "cacheFirst"}
  /\ made < MaxKeys /\ made' = made + 1 /\ Step(c, "wrapFirst", made')
  /\ UNCHANGED <<wrapped, held, sealed, orphaned>>

(* BootstrapFirstAdmin takes bootstrapMu, looks again for admins, and draws a *)
(* key; it is refused when somebody was faster.                               *)
BootstrapDraw(c) ==
  /\ calls[c].at = "bootstrap"
  /\ \A d \in Callers : calls[d].at \notin {"wrapFirst", "cacheFirst"}
  /\ IF Staffed = {}
     THEN made < MaxKeys /\ made' = made + 1 /\ Step(c, "wrapFirst", made')
     ELSE Return(c) /\ UNCHANGED made
  /\ UNCHANGED <<wrapped, held, sealed, orphaned>>

(* PutWrappedCSK writes the admin's record, whether or not there is one; it is *)
(* rolled back when the file cannot be written.                               *)
PutWrappedCSK(c) == wrapped' = [wrapped EXCEPT ![calls[c].who] = calls[c].key]

BootstrapPut(c) ==
  /\ calls[c].at = "wrapFirst"
  /\ \/ PutWrappedCSK(c) /\ Step(c, "cacheFirst", calls[c].key)
     \/ Return(c) /\ UNCHANGED wrapped
  /\ UNCHANGED <<held, made, sealed, orphaned>>

BootstrapCache(c) ==
  /\ calls[c].at = "cacheFirst"
  /\ held' = calls[c].key /\ Return(c)
  /\ UNCHANGED <<wrapped, made, sealed, orphaned>>

(* AddAdmin copies the key under the lock, and is refused when the cluster    *)
(* was locked since requireUnlocked.                                          *)
AddAdminCopy(c) ==
  /\ calls[c].at = "add"
  /\ IF held = NoKey THEN Return(c) ELSE Step(c, "wrap", held)
  /\ UNCHANGED <<wrapped, held, made, sealed, orphaned>>

(* It refuses an admin who has a record, as far as it can see before it wraps *)
(* the copy, which takes as long as an unlock; then it writes.                *)
AddAdminCheck(c) ==
  /\ calls[c].at = "wrap"
  /\ IF wrapped[calls[c].who] # NoKey THEN Return(c) ELSE Step(c, "put", calls[c].key)
  /\ UNCHANGED <<wrapped, held, made, sealed, orphaned>>

AddAdminPut(c) ==
  /\ calls[c].at = "put"
  /\ PutWrappedCSK(c) \/ UNCHANGED wrapped
  /\ Return(c)
  /\ UNCHANGED <<held, made, sealed, orphaned>>

(* RemoveAdmin: one delete. The other records are unaffected.                 *)
RemoveAdmin(a) ==
  /\ wrapped[a] # NoKey
  /\ wrapped' = [wrapped EXCEPT ![a] = NoKey]
  /\ orphaned' = (orphaned \/ Staffed = {a})
  /\ UNCHANGED <<held, made, sealed, calls>>

(* Unlock reads the records, and derives a key from the password for a second *)
(* or so before it stores what it unwrapped; a wrong password stores nothing. *)
UnlockRead(c, a) ==
  /\ NoCall(c) /\ wrapped[a] # NoKey
  /\ Step(c, "unlock", wrapped[a])
  /\ UNCHANGED <<wrapped, held, made, sealed, orphaned>>

UnlockStore(c) ==
  /\ calls[c].at = "unlock"
  /\ held' = calls[c].key /\ Return(c)
  /\ UNCHANGED <<wrapped, made, sealed, orphaned>>

Lock ==
  /\ held # NoKey /\ held' = NoKey
  /\ UNCHANGED <<wrapped, made, sealed, calls, orphaned>>

(* Encrypt copies the key under the lock, and seals after it.                 *)
EncryptCopy(c) ==
  /\ NoCall(c) /\ held # NoKey
  /\ Step(c, "seal", held)
  /\ UNCHANGED <<wrapped, held, made, sealed, orphaned>>

EncryptSeal(c) ==
  /\ calls[c].at = "seal"
  /\ sealed' = sealed \cup {calls[c].key} /\ Return(c)
  /\ UNCHANGED <<wrapped, held, made, orphaned>>

(* A restart loses the memory and the requests; the records are on disk.      *)
SecretRestart ==
  /\ held' = NoKey /\ calls' = [c \in Callers |-> Idle]
  /\ UNCHANGED <<wrapped, made, sealed, orphaned>>

SecretCall(c) ==
  \/ BootstrapDraw(c) \/ BootstrapPut(c) \/ BootstrapCache(c)
  \/ AddAdminCopy(c) \/ AddAdminCheck(c) \/ AddAdminPut(c)
  \/ UnlockStore(c) \/ EncryptCopy(c) \/ EncryptSeal(c)
  \/ \E a \in Admins : AddAdminHandler(c, a) \/ UnlockRead(c, a)

SecretNext ==
  \/ \E c \in Callers : SecretCall(c)
  \/ \E a \in Admins : RemoveAdmin(a)
  \/ Lock \/ SecretRestart

SecretSpec == SecretInit /\ [][SecretNext]_secretVars

--------------------------------------------------------------------------------
Calls == [at : {"idle", "bootstrap", "wrapFirst", "cacheFirst", "add", "wrap",
                "put", "unlock", "seal"},
          who : Admins \cup {NoKey}, key : Keys \cup {NoKey}]
SecretTypeOK ==
  /\ wrapped \in [Admins -> Keys \cup {NoKey}] /\ held \in Keys \cup {NoKey}
  /\ made \in 0..MaxKeys /\ sealed \subseteq Keys
  /\ calls \in [Callers -> Calls] /\ orphaned \in BOOLEAN

(* Whatever unlocks, additions, removals, locks and restarts interleave, what *)
(* was sealed can be opened again: every admin unwraps the one key that the   *)
(* ciphertexts were made with and that is in memory ("they still hold their   *)
(* own wraps and can unlock to the same CSK") - as long as the last wrapped   *)
(* copy of a key is never deleted.                                            *)
OneKey ==
  ~orphaned =>
    /\ \A a \in Staffed : \A k \in sealed : wrapped[a] = k
    /\ \A a, b \in Staffed : wrapped[a] = wrapped[b]
    /\ held # NoKey => \A a \in Staffed : wrapped[a] = held
    /\ sealed # {} \/ held # NoKey => Staffed # {}

(* "Removing the LAST admin while the cluster is unlocked is allowed - the    *)
(* in-memory CSK still works for the rest of the process lifetime", and an    *)
(* admin rotates "by Remove then Add": adding never replaces a key in memory. *)
(* The code does not keep it (README, known disagreements).                   *)
KeyInMemoryLasts ==
  [][held # NoKey /\ held' # NoKey => held' = held]_held
================================================================================
