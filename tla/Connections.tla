------------------------------ MODULE Connections ------------------------------
(* connections.json and its cache. A row's configuration is abstracted to     *)
(* whether it holds a secret; on disk the secret is either in clear (files    *)
(* older than 1.0) or in ConfigEnc, under the key derived from the JWT secret,*)
(* and ConfigEncCSK may hold a copy under the cluster's own key. Every        *)
(* operation holds connsMu throughout, so each is one step; the server opens  *)
(* the store with a key (main.go), and this models that mode.                 *)
EXTENDS Naturals

CONSTANTS ConnIds, Labels, NoConn

VARIABLES
  cache,    \* connsCache: id -> row
  disk,     \* connections.json: id -> row
  opened,   \* the process is up: OpenConnectionsWithKey has returned
  known,    \* history: ids given out (a UUID is never given out again)
  strayed   \* history: an update was refused after it had changed the cache

connVars == <<cache, disk, opened, known, strayed>>

Row == [label : Labels, secret : BOOLEAN, csk : BOOLEAN]
DiskRow == [label : Labels, plain : BOOLEAN, enc : BOOLEAN, csk : BOOLEAN]
ASSUME ConnAssumption == NoConn \notin Row \cup DiskRow
Cached == {id \in ConnIds : cache[id] # NoConn}

(* toDisk seals the secret; ConfigEncCSK is preserved verbatim.               *)
toDisk(c) ==
  IF c = NoConn THEN NoConn
  ELSE [label |-> c.label, plain |-> FALSE, enc |-> c.secret, csk |-> c.csk]

(* load drops a row with a ConfigEnc and no ConfigEncCSK.                     *)
Dropped(d) == d # NoConn /\ d.enc /\ ~d.csk
loaded(d) ==
  IF d = NoConn \/ Dropped(d) THEN NoConn
  ELSE [label |-> d.label, secret |-> d.plain \/ d.enc, csk |-> d.csk]

(* The file is absent, or an old one with its secrets in clear.               *)
ConnInit ==
  /\ disk \in {f \in [ConnIds -> DiskRow \cup {NoConn}] :
       /\ \A id \in ConnIds : f[id] # NoConn => f[id].plain /\ ~f[id].enc /\ ~f[id].csk
       /\ \A i, j \in ConnIds :
            i # j /\ f[i] # NoConn /\ f[j] # NoConn => f[i].label # f[j].label}
  /\ cache = [id \in ConnIds |-> NoConn] /\ opened = FALSE
  /\ known = {id \in ConnIds : disk[id] # NoConn} /\ strayed = FALSE

(* load at start: the cache is what the file holds and load keeps; a file with *)
(* a secret in clear is rewritten, and the server does not start if it cannot *)
(* be.                                                                        *)
OpenConnections ==
  /\ ~opened
  /\ cache' = [id \in ConnIds |-> loaded(disk[id])]
  /\ \/ /\ opened' = TRUE
        /\ disk' = IF \E id \in ConnIds : disk[id] # NoConn /\ disk[id].plain
                   THEN [id \in ConnIds |-> toDisk(cache'[id])] ELSE disk
     \/ /\ \E id \in ConnIds : disk[id] # NoConn /\ disk[id].plain
        /\ UNCHANGED <<opened, disk>>
  /\ strayed' = FALSE
  /\ UNCHANGED known

Stop ==
  /\ opened /\ opened' = FALSE
  /\ cache' = [id \in ConnIds |-> NoConn]
  /\ UNCHANGED <<disk, known, strayed>>

(* saveLocked writes the whole cache, and on failure the caller restores it.  *)
Saved(new) ==
  \/ /\ cache' = new /\ disk' = [id \in ConnIds |-> toDisk(new[id])]
     /\ strayed' = FALSE
  \/ UNCHANGED <<cache, disk, strayed>>

LabelFree(label, id) == \A i \in Cached : i # id => cache[i].label # label

Create(id, label, secret) ==
  /\ opened /\ id \notin known /\ LabelFree(label, id)
  /\ known' = known \cup {id}
  /\ Saved([cache EXCEPT ![id] = [label |-> label, secret |-> secret, csk |-> FALSE]])
  /\ UNCHANGED opened

(* Update of a label, of a configuration, or both; a label in use is refused.  *)
Update(id, label, secret) ==
  /\ opened /\ id \in Cached /\ LabelFree(label, id)
  /\ Saved([cache EXCEPT ![id].label = label, ![id].secret = secret])
  /\ UNCHANGED <<opened, known>>

(* The label is in the cache when an unsupported driver ends the update.      *)
UpdateRefused(id, label) ==
  /\ opened /\ id \in Cached /\ label # cache[id].label /\ LabelFree(label, id)
  /\ cache' = [cache EXCEPT ![id].label = label]
  /\ strayed' = TRUE
  /\ UNCHANGED <<disk, opened, known>>

(* Mutant: the failed save of a delete leaves the row out of the cache.       *)
DeleteNoRollback(id) ==
  /\ opened /\ id \in Cached
  /\ cache' = [cache EXCEPT ![id] = NoConn]
  /\ disk' \in {disk, [i \in ConnIds |-> toDisk(cache'[i])]}
  /\ UNCHANGED <<opened, known, strayed>>

Delete(id) ==
  /\ opened /\ id \in Cached
  /\ Saved([cache EXCEPT ![id] = NoConn])
  /\ UNCHANGED <<opened, known>>

ConnNext ==
  \/ OpenConnections \/ Stop
  \/ \E id \in ConnIds :
       \/ Delete(id)
       \/ \E l \in Labels :
            \/ UpdateRefused(id, l)
            \/ \E secret \in BOOLEAN : Create(id, l, secret) \/ Update(id, l, secret)

ConnSpec == ConnInit /\ [][ConnNext]_connVars

--------------------------------------------------------------------------------
ConnTypeOK ==
  /\ cache \in [ConnIds -> Row \cup {NoConn}]
  /\ disk \in [ConnIds -> DiskRow \cup {NoConn}]
  /\ opened \in BOOLEAN /\ known \subseteq ConnIds /\ strayed \in BOOLEAN

(* The rollbacks after failed writes ("so a save failure leaves the in-memory *)
(* record matching disk"): what the server serves is what the file holds, and *)
(* the file holds nothing else but rows that load has dropped - until an      *)
(* update is refused half way, which leaves its label in the cache.           *)
MemoryIsOnDisk ==
  opened /\ ~strayed => \A id \in ConnIds :
    disk[id] = toDisk(cache[id]) \/ (cache[id] = NoConn /\ Dropped(disk[id]))

(* "load() continues to decrypt under JWT until the CSK-aware load path       *)
(* lands": a connection that the server holds is there after a restart.       *)
(* The code does not keep it (README, known disagreements).                   *)
ConnectionsSurvive ==
  [][OpenConnections => \A id \in ConnIds : disk[id] # NoConn => cache'[id] # NoConn]_connVars
================================================================================
