--------------------------- MODULE QueryCache_proofs ---------------------------
(* What the wiring rules of a page buy, for every set of screens and every     *)
(* number of presses and faults: as far as a control and a query are wired by  *)
(* WellWired, the page shows what was confirmed, holds the last press and      *)
(* keeps what was typed, but for the cases each property names.                *)
EXTENDS QueryCache, TLAPS

Steps == {"none", "sent", "refused", "done", "over", "lost"}
SeenRec == [rev : Nat, theirs : Nat, busy : BOOLEAN]
ServerRec == [rev : Nat, theirs : Nat, busy : BOOLEAN, kept : Nat, last : Nat]
RequestRec == [at : Steps, left : BOOLEAN, basis : Nat, rev : Nat]
EntryRec == [has : BOOLEAN, seen : SeenRec, fresh : BOOLEAN, failed : BOOLEAN]
FetchRec == [at : {"idle", "asked", "served"}, seen : SeenRec]
Types ==
  /\ scene \in Scenes
  /\ server \in ServerRec
  /\ requests \in [Presses -> RequestRec] /\ entry \in EntryRec /\ fetch \in FetchRec
  /\ mine \in Nat /\ shown \in Nat /\ overtaken \in BOOLEAN

(* No answer tells of a change that the server has not made, and one of a      *)
(* request that changes nothing here tells of none.                            *)
Answered ==
  /\ \A i \in Presses : requests[i].rev <= server.rev /\ (~scene.touches => requests[i].rev = 0)
  /\ mine <= server.rev /\ (~scene.touches => mine = 0)

(* An entry older than the user's own change has a fetch on its way, or is     *)
(* stale on a screen that is not open and so is fetched when one opens.        *)
Current ==
  scene.touches /\ ~scene.gap =>
    /\ fetch.at = "served" => fetch.seen.rev >= mine \/ overtaken
    /\ entry.has => \/ entry.seen.rev >= mine \/ entry.failed \/ overtaken
                    \/ fetch.at # "idle"
                    \/ ~Mounted /\ Stale(entry)

CacheInv == WellWired /\ Types /\ Answered /\ Current

LEMMA SentinelTypes ==
  /\ NoEntry \in EntryRec /\ ~NoEntry.has
  /\ Idle \in FetchRec /\ Idle.at = "idle" /\ Asked \in FetchRec /\ Asked.at = "asked"
  /\ Unpressed \in RequestRec
  /\ Unpressed.rev = 0 /\ Unpressed.at = "none" /\ ~Unpressed.left
BY DEF NoEntry, Idle, Asked, Unpressed, SeenRec, Steps, EntryRec, FetchRec, RequestRec

(* Handling a request: the server counts it, and remembers the press.          *)
LEMMA HandleServer ==
  ASSUME Types, NEW i \in Presses, Handle(i)
  PROVE  /\ server'.kept = i
         /\ server'.last = IF i > server.last THEN i ELSE server.last
         /\ server'.rev \in Nat /\ server'.rev >= server.rev
         /\ server' \in ServerRec
<1>1. i \in Nat
  BY CacheAssumption DEF Presses
<1>3. /\ server'.kept = i
      /\ server'.rev = IF scene.touches THEN server.rev + 1 ELSE server.rev
      /\ server'.theirs = IF scene.touches /\ scene.whole THEN requests[i].basis ELSE server.theirs
      /\ server'.last = IF i > server.last THEN i ELSE server.last
  BY DEF Handle
<1>4. server'.busy \in BOOLEAN
  BY DEF Handle
<1>5. /\ server'.theirs \in Nat /\ server'.rev \in Nat /\ server'.last \in Nat
      /\ server'.rev >= server.rev
  BY <1>1, <1>3 DEF Types, RequestRec, ServerRec
<1>6. server' = [rev |-> server'.rev, theirs |-> server'.theirs, busy |-> server'.busy,
                 kept |-> server'.kept, last |-> server'.last]
  BY DEF Handle
<1> QED BY <1>1, <1>3, <1>4, <1>5, <1>6 DEF ServerRec

(* Where the user arrives, what is cached stays or, being local to the screen, *)
(* goes with it; a stale query of the screen is fetched.                       *)
LEMMA ArriveDoes ==
  ASSUME NEW p, NEW e \in EntryRec, NEW f \in FetchRec, Arrive(p, e, f)
  PROVE  /\ place' = p
         /\ entry' \in EntryRec /\ fetch' \in FetchRec
         /\ entry'.has => entry' = e
         /\ fetch' = f \/ fetch' = Asked \/ (fetch' = Idle /\ ~entry'.has)
         /\ scene.onMount /\ MountedAt(p) /\ ~Mounted /\ Stale(e) => fetch'.at # "idle"
BY SentinelTypes DEF Arrive

LEMMA VisitStep ==
  ASSUME CacheInv, NEW p, Visit(p)
  PROVE  CacheInv'
<1> USE DEF CacheInv
<1>1. entry \in EntryRec /\ fetch \in FetchRec /\ Arrive(p, entry, fetch) /\ scene' = scene
  BY DEF Visit, Types
<1>2. /\ place' = p /\ entry' \in EntryRec /\ fetch' \in FetchRec
      /\ entry'.has => entry' = entry
      /\ fetch' = fetch \/ fetch' = Asked \/ (fetch' = Idle /\ ~entry'.has)
      /\ scene.onMount /\ MountedAt(p) /\ ~Mounted /\ Stale(entry) => fetch'.at # "idle"
  BY <1>1, ArriveDoes
<1>3. /\ requests' \in [Presses -> RequestRec]
      /\ \A i \in Presses : requests'[i].at = requests[i].at /\ requests'[i].rev = requests[i].rev
  BY DEF Visit, Types, RequestRec
<1>4. WellWired' /\ Types' /\ Answered'
  BY <1>2, <1>3 DEF Visit, WellWired, Types, Answered
<1>5. Current'
  <2> SUFFICES ASSUME scene.touches, ~scene.gap
               PROVE  /\ fetch'.at = "served" => fetch'.seen.rev >= mine \/ overtaken'
                      /\ entry'.has => \/ entry'.seen.rev >= mine \/ entry'.failed \/ overtaken'
                                       \/ fetch'.at # "idle"
                                       \/ ~Mounted' /\ Stale(entry)'
    BY <1>1 DEF Visit, Current
  <2>1. overtaken /\ fetch' = fetch => overtaken'
    BY DEF Visit
  <2>2. scene.onMount
    BY DEF WellWired
  <2>3. fetch'.at = "served" => fetch' = fetch
    BY <1>2, SentinelTypes
  <2>4. (Mounted' <=> MountedAt(p)) /\ (Stale(entry)' <=> Stale(entry'))
    BY <1>1, <1>2 DEF Mounted, MountedAt, Stale
  <2> QED BY <1>2, <2>1, <2>2, <2>3, <2>4, SentinelTypes DEF Current
<1> QED BY <1>4, <1>5

(* A step that leaves the cache, the user's own changes and the place alone.   *)
LEMMA ServerStep ==
  ASSUME CacheInv, UNCHANGED <<scene, place, cacheVars, mine, shown>>,
         requests' \in [Presses -> RequestRec],
         server' \in ServerRec,
         server'.rev >= server.rev,
         \A i \in Presses : requests'[i].rev \in {0, requests[i].rev, IF scene.touches THEN server'.rev ELSE 0}
  PROVE  CacheInv'
<1> USE DEF CacheInv
<1>1. WellWired' /\ Types'
  BY DEF WellWired, Types, cacheVars
<1>2. Answered'
  <2>1. mine <= server'.rev /\ (~scene.touches => mine = 0)
    BY DEF ServerRec, Answered, Types
  <2>2. ASSUME NEW i \in Presses
        PROVE  requests'[i].rev <= server'.rev /\ (~scene.touches => requests'[i].rev = 0)
    BY DEF ServerRec, Answered, Types, RequestRec
  <2> QED BY <2>1, <2>2 DEF Answered
<1>3. Current'
  BY DEF Current, Mounted, MountedAt, Stale, cacheVars
<1> QED BY <1>1, <1>2, <1>3

LEMMA PressStep ==
  ASSUME CacheInv, NEW i \in Presses, Press(i) \/ Refuse(i) \/ Error(i)
  PROVE  CacheInv'
<1>1. requests' \in [Presses -> RequestRec] /\ \A j \in Presses : requests'[j].rev \in {0, requests[j].rev}
  <2>1. CASE Press(i)
    <3>1. entry.seen.theirs \in Nat
      BY DEF CacheInv, Types, EntryRec, SeenRec
    <3> DEFINE r == [Unpressed EXCEPT !.at = "sent", !.basis = entry.seen.theirs]
    <3>2. r \in RequestRec /\ r.rev = 0
      BY <3>1 DEF Unpressed, RequestRec, Steps
    <3>3. requests' = [requests EXCEPT ![i] = r]
      BY <2>1 DEF Press
    <3> HIDE DEF r
    <3> QED BY <3>2, <3>3 DEF CacheInv, Types
  <2>2. CASE Refuse(i)
    BY <2>2 DEF Refuse, CacheInv, Types, RequestRec, Steps
  <2>3. CASE Error(i)
    BY <2>3 DEF Error, CacheInv, Types, RequestRec, Steps
  <2> QED BY <2>1, <2>2, <2>3
<1>2. UNCHANGED <<scene, place, cacheVars, mine, shown, server>>
  BY DEF Press, Refuse, Error, userVars
<1> QED BY <1>1, <1>2, ServerStep DEF CacheInv, Types, ServerRec

LEMMA HandleStep ==
  ASSUME CacheInv, NEW i \in Presses, Handle(i)
  PROVE  CacheInv'
<1>1. /\ server' \in ServerRec
      /\ server'.rev >= server.rev
      /\ server'.rev = IF scene.touches THEN server.rev + 1 ELSE server.rev
  BY HandleServer DEF CacheInv, Handle
<1>2. /\ requests' \in [Presses -> RequestRec]
      /\ \A j \in Presses : requests'[j].rev
                               \in {requests[j].rev, IF scene.touches THEN server'.rev ELSE 0}
  <2> DEFINE r == IF scene.touches THEN server'.rev ELSE 0
  <2>1. requests' = [requests EXCEPT ![i].at = "done", ![i].rev = r]
    BY <1>1 DEF Handle
  <2>2. r \in Nat
    BY <1>1 DEF ServerRec
  <2> HIDE DEF r
  <2>3. /\ requests' \in [Presses -> RequestRec]
        /\ \A j \in Presses : requests'[j].rev \in {requests[j].rev, r}
    BY <2>1, <2>2 DEF CacheInv, Types, RequestRec, Steps
  <2> QED BY <2>3 DEF r
<1> QED BY <1>1, <1>2, ServerStep DEF Handle, userVars

LEMMA OthersStep ==
  ASSUME CacheInv, Work \/ Others \/ CancelPrompt \/ Edit
  PROVE  CacheInv'
<1>1. /\ server' \in ServerRec
      /\ server'.rev >= server.rev
  <2>0. server \in ServerRec
    BY DEF CacheInv, Types
  <2> DEFINE n == server.rev + 1
             m == server.theirs + 1
  <2>4. n \in Nat /\ m \in Nat /\ n >= server.rev
    BY <2>0 DEF ServerRec
  <2>5. /\ Work => server' = [server EXCEPT !.busy = FALSE, !.rev = n]
        /\ Others => server' = [server EXCEPT !.rev = n, !.theirs = m]
    BY DEF Work, Others
  <2> HIDE DEF n, m
  <2>1. CASE Work
    BY <2>0, <2>1, <2>4, <2>5 DEF ServerRec
  <2>2. CASE Others
    BY <2>0, <2>2, <2>4, <2>5 DEF ServerRec
  <2>3. CASE CancelPrompt \/ Edit
    BY <2>0, <2>3 DEF CancelPrompt, Edit, ServerRec
  <2> QED BY <2>1, <2>2, <2>3
<1>2. requests' \in [Presses -> RequestRec] /\ \A j \in Presses : requests'[j].rev = requests[j].rev
  BY DEF Work, Others, CancelPrompt, Edit, CacheInv, Types, RequestRec, Steps
<1> QED BY <1>1, <1>2, ServerStep DEF Work, Others, CancelPrompt, Edit, userVars

(* The entry and the fetch, apart from the mutations.                          *)
LEMMA FetchStep ==
  ASSUME CacheInv, Age \/ Poll \/ Serve \/ Land \/ FetchFails
  PROVE  CacheInv'
<1> USE DEF CacheInv
<1>1. /\ UNCHANGED <<scene, server, requests, place, mine, shown>>
  BY DEF Age, Poll, Serve, Land, FetchFails, userVars
<1>2. entry' \in EntryRec /\ fetch' \in FetchRec /\ overtaken' \in BOOLEAN
  <2>1. Seen(server) \in SeenRec
    BY DEF ServerRec, Seen, SeenRec, Types
  <2>2. CASE Age
    BY <2>2 DEF Age, Types, EntryRec
  <2>3. CASE Poll
    BY <2>3, SentinelTypes DEF Poll, Types
  <2>4. CASE Serve
    BY <2>1, <2>4 DEF Serve, Types, FetchRec
  <2>5. CASE Land
    BY <2>5, SentinelTypes DEF Land, Types, EntryRec, FetchRec
  <2>6. CASE FetchFails
    BY <2>6, SentinelTypes DEF FetchFails, Types, EntryRec
  <2> QED BY <2>2, <2>3, <2>4, <2>5, <2>6
<1>3. WellWired' /\ Types' /\ Answered'
  BY <1>1, <1>2 DEF WellWired, Types, Answered
<1>4. Current'
  <2>1. CASE Age
    BY <2>1 DEF Age, userVars, Current, Mounted, MountedAt, Stale, Types, EntryRec
  <2>2. CASE Poll
    BY <2>2, SentinelTypes DEF Poll, userVars, Current
  <2>3. CASE Serve
    BY <2>3 DEF Serve, userVars, Current, Seen, Answered, Types
  <2>4. CASE Land
    BY <2>4, SentinelTypes DEF Land, Current
  <2>5. CASE FetchFails
    BY <2>5, SentinelTypes DEF FetchFails, userVars, Current, Types, EntryRec
  <2> QED BY <2>1, <2>2, <2>3, <2>4, <2>5
<1> QED BY <1>3, <1>4

(* Invalidation never touches what an entry holds.                             *)
LEMMA InvalidatedKeeps ==
  ASSUME Types, NEW hit \in BOOLEAN
  PROVE  /\ Invalidated(hit) \in EntryRec /\ Refetched(hit) \in FetchRec
         /\ Invalidated(hit).has = entry.has /\ Invalidated(hit).seen = entry.seen
         /\ Invalidated(hit).failed = entry.failed
         /\ hit \/ Stale(entry) => Stale(Invalidated(hit))
         /\ Refetched(hit) \in {fetch, Asked}
         /\ hit /\ Mounted /\ Refetched(hit) # Asked => ~entry.has /\ fetch.at # "idle"
BY SentinelTypes DEF Types, Invalidated, Refetched, Stale, EntryRec

LEMMA ElevateStep ==
  ASSUME CacheInv, Elevate
  PROVE  CacheInv'
<1> USE DEF CacheInv
<1> DEFINE hit == IF scene.users THEN TRUE ELSE FALSE
<1>1. entry' = Invalidated(hit) /\ fetch' = Refetched(hit) /\ hit \in BOOLEAN
  BY DEF Elevate, Invalidated, Refetched
<1>2. /\ entry' \in EntryRec /\ fetch' \in FetchRec /\ entry'.has = entry.has
      /\ entry'.seen = entry.seen /\ entry'.failed = entry.failed
      /\ Stale(entry) => Stale(entry') 
      /\ fetch' \in {fetch, Asked}
  BY <1>1, InvalidatedKeeps
<1>3. /\ requests' \in [Presses -> RequestRec] /\ \A j \in Presses : requests'[j].rev = requests[j].rev
  BY DEF Elevate, Types, RequestRec, Steps
<1>4. UNCHANGED <<scene, server, place, mine, shown>> /\ overtaken' = (overtaken /\ fetch' = fetch)
  BY DEF Elevate
<1>5. WellWired' /\ Types' /\ Answered'
  BY <1>2, <1>3, <1>4 DEF WellWired, Types, Answered
<1>6. (Mounted' <=> Mounted) /\ (Stale(entry)' <=> Stale(entry'))
  BY <1>4 DEF Mounted, MountedAt, Stale
<1>7. Current'
  BY <1>2, <1>4, <1>6, SentinelTypes DEF Current
<1> QED BY <1>5, <1>7

(* The answer to a mutation: the only step by which `mine' grows.              *)
LEMMA AnswerStep ==
  ASSUME CacheInv, NEW i \in Presses, Answer(i)
  PROVE  CacheInv'
<1> USE DEF CacheInv
<1> DEFINE heard == ~requests[i].left \/ scene.awaits
           told == scene.refreshes \/ (heard /\ scene.tells)
           hit == IF told THEN TRUE ELSE FALSE
           moves == scene.lands \/ (scene.moves /\ heard)
           e == IF scene.removes THEN NoEntry ELSE Invalidated(hit)
           f == IF scene.removes THEN Idle ELSE Refetched(hit)
<1>1. /\ \E p \in IF moves THEN Places \ {"act"} ELSE {place} :
            /\ Arrive(p, e, f)
            /\ overtaken' = (fetch' = fetch /\ fetch.at # "idle")
            /\ shown' = IF p = place /\ ~requests[i].left THEN i ELSE shown
      /\ requests' = [requests EXCEPT ![i].at = "over"]
      /\ mine' = IF requests[i].rev > mine THEN requests[i].rev ELSE mine
      /\ UNCHANGED <<scene, server>>
  BY DEF Answer, Invalidated, Refetched
<1>2. PICK p : /\ Arrive(p, e, f)
               /\ overtaken' = (fetch' = fetch /\ fetch.at # "idle")
               /\ shown' = IF p = place /\ ~requests[i].left THEN i ELSE shown
  BY <1>1
<1>3. /\ Invalidated(hit) \in EntryRec /\ Refetched(hit) \in FetchRec
      /\ Refetched(hit) \in {fetch, Asked}
      /\ hit => Stale(Invalidated(hit))
      /\ hit /\ Mounted /\ Refetched(hit) # Asked => ~entry.has /\ fetch.at # "idle"
      /\ Invalidated(hit).has = entry.has
  BY InvalidatedKeeps
<1>4. e \in EntryRec /\ f \in FetchRec
  BY <1>3, SentinelTypes
<1> HIDE DEF heard, told, hit, moves
<1>5. /\ place' = p /\ entry' \in EntryRec /\ fetch' \in FetchRec
      /\ entry'.has => entry' = e
      /\ fetch' = f \/ fetch' = Asked \/ (fetch' = Idle /\ ~entry'.has)
      /\ scene.onMount /\ MountedAt(p) /\ ~Mounted /\ Stale(e) => fetch'.at # "idle"
  <2> HIDE DEF e, f
  <2> QED BY <1>2, <1>4, ArriveDoes
<1>6. /\ requests' \in [Presses -> RequestRec] /\ \A j \in Presses : requests'[j].rev = requests[j].rev
  BY <1>1 DEF Types, RequestRec, Steps
<1>7. mine' \in Nat /\ shown' \in Nat /\ mine' <= server.rev /\ (~scene.touches => mine' = 0)
  <2>1. requests[i].rev \in Nat /\ requests[i].rev <= server.rev /\ i \in Nat
    BY CacheAssumption DEF Types, RequestRec, Answered, Presses
  <2> QED BY <1>1, <1>2, <2>1 DEF Types, Answered
<1>8. WellWired' /\ Types' /\ Answered'
  BY <1>1, <1>2, <1>5, <1>6, <1>7 DEF WellWired, Types, Answered
<1>9. Current'
  <2> SUFFICES ASSUME scene.touches, ~scene.gap
               PROVE  /\ fetch'.at = "served" => overtaken'
                      /\ entry'.has => \/ overtaken' \/ fetch'.at # "idle"
                                       \/ ~Mounted' /\ Stale(entry)'
    BY <1>1 DEF Current
  <2>1. scene.onMount /\ hit
    BY DEF WellWired, hit, told, heard
  <2>2. fetch'.at = "served" => fetch' = fetch
    BY <1>3, <1>5, SentinelTypes
  <2>3. (Mounted' <=> MountedAt(p)) /\ (Stale(entry)' <=> Stale(entry')) 
    BY <1>1, <1>5 DEF Mounted, MountedAt, Stale
  <2>4. ASSUME entry'.has, fetch'.at = "idle" PROVE ~MountedAt(p) /\ Stale(entry')
    <3>1. ~scene.removes /\ entry' = Invalidated(hit) /\ entry.has
      BY <1>3, <1>5, <2>4, SentinelTypes
    <3>2. fetch' = Refetched(hit) /\ Refetched(hit) # Asked
      BY <1>5, <2>4, <3>1, SentinelTypes
    <3>3. ~Mounted
      BY <1>3, <2>1, <3>1, <3>2
    <3> QED BY <1>3, <1>5, <2>1, <2>4, <3>1, <3>3
  <2> QED BY <1>2, <2>2, <2>3, <2>4
<1> QED BY <1>8, <1>9

LEMMA CacheInvInit == Init /\ WellWired => CacheInv
<1> SUFFICES ASSUME Init, WellWired PROVE CacheInv
  OBVIOUS
<1>1. /\ server \in ServerRec /\ server.rev = 0
      /\ requests \in [Presses -> RequestRec]
      /\ \A i \in Presses : requests[i] = Unpressed /\ requests[i].rev = 0
      /\ entry \in EntryRec /\ ~entry.has
      /\ fetch \in FetchRec /\ fetch.at # "served"
  BY SentinelTypes DEF Init, ServerRec
<1>2. scene \in Scenes /\ mine = 0 /\ shown = 0 /\ overtaken = FALSE
  BY DEF Init
<1>3. Types
  BY <1>1, <1>2 DEF Types
<1>4. Answered /\ Current
  BY <1>1, <1>2 DEF Answered, Current
<1> QED BY <1>3, <1>4 DEF CacheInv

LEMMA CacheInvNext == CacheInv /\ [Next]_vars => CacheInv'
<1> SUFFICES ASSUME CacheInv, [Next]_vars PROVE CacheInv'
  OBVIOUS
<1>1. CASE UNCHANGED vars
  BY <1>1 DEF vars, CacheInv, WellWired, Types, Answered, Current, Mounted, MountedAt, Stale
<1>2. CASE \E p \in Places : Visit(p)
  BY <1>2, VisitStep
<1>3. CASE Age \/ Poll \/ Serve \/ Land \/ FetchFails
  BY <1>3, FetchStep
<1>4. CASE \E i \in Presses : Press(i) \/ Refuse(i) \/ Error(i)
  BY <1>4, PressStep
<1>5. CASE \E i \in Presses : Handle(i)
  BY <1>5, HandleStep
<1>6. CASE \E i \in Presses : Answer(i)
  BY <1>6, AnswerStep
<1>7. CASE Work \/ Others \/ CancelPrompt \/ Edit
  BY <1>7, OthersStep
<1>8. CASE Elevate
  BY <1>8, ElevateStep
<1> QED BY <1>1, <1>2, <1>3, <1>4, <1>5, <1>6, <1>7, <1>8 DEF Next

(* ReadYourWrites, for every page that keeps the rules of WellWired and any    *)
(* number of presses: once a change has been confirmed, an entry on screen     *)
(* with no fetch on its way is not older than the change - unless its last     *)
(* fetch failed, a fetch from before the change was left in flight, or the     *)
(* pair is a listed gap (queries.ts, the pages' onSuccess).                    *)
THEOREM ConfirmedIsShown == Spec /\ WellWired => []ReadYourWrites
<1>1. CacheInv => ReadYourWrites
  <2> SUFFICES ASSUME CacheInv, Mounted, entry.has, fetch.at = "idle", ~entry.failed,
                      ~scene.gap, ~overtaken
               PROVE  entry.seen.rev >= mine
    BY DEF ReadYourWrites
  <2>1. CASE scene.touches
    BY <2>1 DEF CacheInv, Current
  <2>2. CASE ~scene.touches
    BY <2>2 DEF CacheInv, Types, Answered, EntryRec, SeenRec
  <2> QED BY <2>1, <2>2
<1> QED BY <1>1, CacheInvInit, CacheInvNext, PTL DEF Spec

(* EditsSurvive: until the user saves or leaves, no refetch drops what was     *)
(* typed into a form, unless the form is one that follows its query.           *)
THEOREM TypedIsKept == Spec /\ WellWired => EditsSurvive
<1>1. CacheInv /\ [Next]_vars =>
        (draft /\ ~draft' /\ ~scene.yields =>
           \/ place' # place
           \/ scene.saves /\ \E i \in Presses : requests[i].at # "none")
  <2> SUFFICES ASSUME CacheInv, [Next]_vars, draft, ~draft', ~scene.yields, place' = place
               PROVE  scene.saves /\ \E i \in Presses : requests[i].at # "none"
    OBVIOUS
  <2>1. ~scene.follows
    BY DEF CacheInv, WellWired
  <2>2. ASSUME NEW p, Visit(p) PROVE FALSE
    BY <2>2 DEF Visit, Arrive
  <2>3. ~Land
    BY <2>1 DEF Land
  <2>4. ~(Age \/ Poll \/ Serve \/ FetchFails \/ Edit \/ Work \/ Others \/ Elevate \/ CancelPrompt)
        /\ ~UNCHANGED vars
    BY DEF Age, Poll, Serve, FetchFails, Edit, Work, Others, Elevate, CancelPrompt, vars, userVars
  <2>5. ASSUME NEW i \in Presses, Press(i) \/ Handle(i) \/ Refuse(i) \/ Error(i) PROVE FALSE
    BY <2>5 DEF Press, Handle, Refuse, Error, userVars
  <2>6. PICK i \in Presses : Answer(i)
    BY <2>2, <2>3, <2>4, <2>5 DEF Next
  <2>7. requests[i].at = "done"
    BY <2>6 DEF Answer
  <2>8. scene.saves
    BY <2>6 DEF Answer, Arrive
  <2> QED BY <2>7, <2>8
<1> QED BY <1>1, CacheInvInit, CacheInvNext, PTL DEF Spec, EditsSurvive

(* LastPressWins needs to know more of the presses: they are made in order,    *)
(* and while the user stays, a control that is shut has one request at a time, *)
(* the newest, whose effect the server comes to hold.                          *)
Stayed == \A i \in Presses : ~requests[i].left
InOrder ==
  /\ \A i \in Presses : requests[i].at = "none" => ~requests[i].left /\ i > server.last
  /\ \A i, j \in Presses : requests[i].at = "none" /\ j > i => requests[j].at = "none"
  /\ server.last \in 0..MaxPresses
OneAtATime ==
  /\ \A i \in Presses : requests[i].at \in Running =>
       /\ place = "act"
       /\ \A j \in Presses : (j > i => requests[j].at = "none")
                             /\ (requests[j].at \in Running => j = i)
  /\ server.kept = server.last
  /\ server.kept \in Presses => requests[server.kept].at \in {"done", "over", "lost"}
  /\ \A i \in Presses : requests[i].at = "done" => server.kept = i
  /\ scene.lands \/ scene.moves => shown = 0
  /\ \/ shown \in {0, server.kept}
     \/ server.kept \in Presses /\ requests[server.kept].at \in {"done", "lost"}
PressInv == CacheInv /\ InOrder /\ (scene.shut /\ Stayed => OneAtATime)

LEMMA PressesAreNumbers == Presses \subseteq Nat \ {0} /\ Presses = (0..MaxPresses) \ {0}
BY CacheAssumption DEF Presses

LEMMA PressInvInit == Init /\ WellWired => PressInv
<1> SUFFICES ASSUME Init, WellWired PROVE PressInv
  OBVIOUS
<1>1. \A i \in Presses : requests[i].at = "none" /\ ~requests[i].left
  BY SentinelTypes DEF Init
<1>2. server.kept = 0 /\ server.last = 0 /\ shown = 0
  BY DEF Init
<1>3. InOrder
  BY <1>1, <1>2, PressesAreNumbers, CacheAssumption DEF InOrder
<1>4. OneAtATime
  BY <1>1, <1>2, PressesAreNumbers DEF OneAtATime, Running
<1> QED BY <1>3, <1>4, CacheInvInit DEF PressInv

(* A step that makes no press and handles none.                                *)
LEMMA PressesQuiet ==
  ASSUME InOrder, scene.shut /\ Stayed => OneAtATime,
         UNCHANGED <<scene, requests, place, shown>>,
         server'.kept = server.kept, server'.last = server.last
  PROVE  InOrder' /\ (scene.shut' /\ Stayed' => OneAtATime')
BY DEF InOrder, Stayed, OneAtATime

(* The prompt and errors: requests that run go on running or end.              *)
LEMMA PressesEnd ==
  ASSUME Types, InOrder, scene.shut /\ Stayed => OneAtATime,
         UNCHANGED <<scene, server, place, shown>>,
         \A i \in Presses :
           /\ requests'[i].left = requests[i].left
           /\ \/ requests'[i].at = requests[i].at
              \/ requests[i].at \in {"sent", "refused"} /\ requests'[i].at \in {"sent", "refused", "over"}
              \/ requests[i].at = "done" /\ requests'[i].at = "lost"
  PROVE  InOrder' /\ (scene.shut' /\ Stayed' => OneAtATime')
<1>1. \A i \in Presses : requests'[i].at = "none" <=> requests[i].at = "none"
  OBVIOUS
<1>2. InOrder'
  BY <1>1 DEF InOrder
<1>3. Stayed' <=> Stayed
  BY DEF Stayed
<1>4. ASSUME OneAtATime PROVE OneAtATime'
  <2>1. \A i \in Presses : requests'[i].at \in Running => requests[i].at \in Running
    BY DEF Running
  <2>2. \A i \in Presses : requests'[i].at = "done" => requests[i].at = "done"
    OBVIOUS
  <2>3. server.kept \in Presses => requests'[server.kept].at \in {"done", "over", "lost"}
    BY <1>4 DEF OneAtATime
  <2>4. server.kept \in Presses /\ requests[server.kept].at \in {"done", "lost"}
          => requests'[server.kept].at \in {"done", "lost"}
    OBVIOUS
  <2> QED BY <1>1, <1>4, <2>1, <2>2, <2>3, <2>4 DEF OneAtATime
<1> QED BY <1>2, <1>3, <1>4

LEMMA PressVisit ==
  ASSUME PressInv, NEW p, Visit(p)
  PROVE  InOrder' /\ (scene.shut' /\ Stayed' => OneAtATime')
<1> USE DEF PressInv
<1>1. \A i \in Presses :
        /\ requests'[i].at = requests[i].at
        /\ requests[i].left => requests'[i].left
        /\ requests'[i].left => requests[i].left \/ requests[i].at \in Running
        /\ place = "act" /\ requests[i].at \in Running => requests'[i].left
  BY DEF Visit, CacheInv, Types, RequestRec
<1>2. UNCHANGED <<scene, server>> /\ shown' = 0
  BY DEF Visit
<1>3. InOrder'
  BY <1>1, <1>2 DEF InOrder, Running
<1>4. ASSUME scene.shut, Stayed' PROVE OneAtATime'
  <2>1. OneAtATime
    BY <1>1, <1>4 DEF Stayed
  <2>2. \A i \in Presses : requests'[i].at \notin Running
    BY <1>1, <1>4, <2>1 DEF Stayed, OneAtATime
  <2>3. \A i \in Presses : requests'[i].at # "done"
    BY <2>2 DEF Running
  <2> QED BY <1>1, <1>2, <2>1, <2>2, <2>3 DEF OneAtATime
<1> QED BY <1>2, <1>3, <1>4

LEMMA PressPress ==
  ASSUME PressInv, NEW i \in Presses, Press(i)
  PROVE  InOrder' /\ (scene.shut' /\ Stayed' => OneAtATime')
<1> USE DEF PressInv
<1>1. /\ requests'[i].at = "sent" /\ requests[i].at = "none"
      /\ \A j \in Presses \ {i} : requests'[j] = requests[j]
  BY SentinelTypes DEF Press, CacheInv, Types, RequestRec, Unpressed
<1>2. \A j \in Presses : j < i => requests[j].at # "none"
  BY PressesAreNumbers DEF Press
<1>3. UNCHANGED <<scene, server, place, shown>> /\ place = "act" /\ (scene.shut => ~Pending)
  BY DEF Press, userVars
<1>4. InOrder'
  BY <1>1, <1>2, <1>3, PressesAreNumbers DEF InOrder
<1>5. ASSUME scene.shut, Stayed' PROVE OneAtATime'
  <2>1. Stayed
    BY <1>1, <1>5 DEF Stayed, InOrder
  <2>2. OneAtATime /\ \A j \in Presses : requests[j].at \notin Running
    BY <1>3, <1>5, <2>1 DEF Pending, Stayed
  <2>3. \A j \in Presses : j > i => j # i /\ requests'[j].at = "none"
    BY <1>1, PressesAreNumbers DEF InOrder
  <2>4. server.kept \in Presses => server.kept # i
    BY <1>1, <2>2 DEF OneAtATime
  <2>5. \A j \in Presses : requests'[j].at \in Running => j = i
    BY <1>1, <2>2
  <2> QED BY <1>1, <1>3, <2>2, <2>3, <2>4, <2>5 DEF OneAtATime
<1> QED BY <1>3, <1>4, <1>5

LEMMA PressHandle ==
  ASSUME PressInv, NEW i \in Presses, Handle(i)
  PROVE  InOrder' /\ (scene.shut' /\ Stayed' => OneAtATime')
<1> USE DEF PressInv
<1>1. /\ requests'[i].at = "done" /\ requests[i].at = "sent"
      /\ \A j \in Presses : requests'[j].left = requests[j].left
      /\ \A j \in Presses \ {i} : requests'[j].at = requests[j].at
  BY DEF Handle, CacheInv, Types, RequestRec
<1>2. server'.kept = i /\ server'.last = IF i > server.last THEN i ELSE server.last
  BY HandleServer DEF CacheInv
<1>3. UNCHANGED <<scene, place, shown>>
  BY DEF Handle, userVars
<1>4. \A j \in Presses : requests'[j].at = "none" => j # i /\ requests[j].at = "none" /\ j > i
  BY <1>1, PressesAreNumbers DEF InOrder
<1>5. InOrder'
  BY <1>1, <1>2, <1>4, PressesAreNumbers DEF InOrder
<1>6. ASSUME scene.shut, Stayed' PROVE OneAtATime'
  <2>1. OneAtATime
    BY <1>1, <1>6 DEF Stayed
  <2>2. \A j \in Presses : (j > i => requests[j].at = "none") /\ (requests[j].at \in Running => j = i)
    BY <1>1, <2>1 DEF OneAtATime, Running
  <2>3. server.last <= i
    BY <2>2, PressesAreNumbers DEF InOrder
  <2>4. server'.last = i
    BY <1>2, <2>3, PressesAreNumbers DEF InOrder
  <2>5. \A j \in Presses : requests'[j].at \in Running => j = i
    BY <1>1, <2>2
  <2>6. \A j \in Presses : j > i => requests'[j].at = "none"
    BY <1>1, <2>2, PressesAreNumbers
  <2>7. \A j \in Presses : requests'[j].at = "done" => j = i
    BY <2>5 DEF Running
  <2>8. place = "act"
    BY <1>1, <2>1 DEF OneAtATime, Running
  <2> QED BY <1>1, <1>2, <1>3, <2>1, <2>4, <2>5, <2>6, <2>7, <2>8 DEF OneAtATime
<1> QED BY <1>3, <1>5, <1>6

LEMMA PressAnswer ==
  ASSUME PressInv, NEW i \in Presses, Answer(i)
  PROVE  InOrder' /\ (scene.shut' /\ Stayed' => OneAtATime')
<1> USE DEF PressInv
<1>1. /\ requests'[i].at = "over" /\ requests[i].at = "done"
      /\ \A j \in Presses : requests'[j].left = requests[j].left
      /\ \A j \in Presses \ {i} : requests'[j].at = requests[j].at
  BY DEF Answer, CacheInv, Types, RequestRec
<1>2. UNCHANGED <<scene, server>>
  BY DEF Answer
<1>3. \A j \in Presses : requests'[j].at = "none" <=> requests[j].at = "none"
  BY <1>1
<1>4. InOrder'
  BY <1>1, <1>2, <1>3 DEF InOrder
<1>5. ASSUME scene.shut, Stayed' PROVE OneAtATime'
  <2>1. OneAtATime /\ ~requests[i].left
    BY <1>1, <1>5 DEF Stayed
  <2>2. \A j \in Presses : requests'[j].at \notin Running
    BY <1>1, <2>1 DEF OneAtATime, Running
  <2>3. place = "act" /\ server.kept = i
    BY <1>1, <2>1 DEF OneAtATime, Running
  <2>4. PICK p \in IF scene.lands \/ scene.moves THEN Places \ {"act"} ELSE {place} :
               shown' = IF p = place THEN i ELSE shown
    BY <2>1 DEF Answer
  <2>5. IF scene.lands \/ scene.moves THEN shown' = shown ELSE shown' = i
    BY <2>3, <2>4
  <2>6. /\ scene.lands \/ scene.moves => shown' = 0
        /\ shown' \in {0, server.kept}
    BY <2>1, <2>3, <2>5 DEF OneAtATime
  <2>7. \A j \in Presses : requests'[j].at # "done"
    BY <2>2 DEF Running
  <2> QED BY <1>1, <1>2, <2>1, <2>2, <2>3, <2>6, <2>7 DEF OneAtATime
<1> QED BY <1>2, <1>4, <1>5

LEMMA PressInvNext == PressInv /\ [Next]_vars => PressInv'
<1> SUFFICES ASSUME PressInv, [Next]_vars PROVE InOrder' /\ (scene.shut' /\ Stayed' => OneAtATime')
  BY CacheInvNext DEF PressInv
<1>0. Types /\ server \in ServerRec /\ InOrder /\ (scene.shut /\ Stayed => OneAtATime)
  BY DEF PressInv, CacheInv, Types
<1>1. CASE UNCHANGED vars \/ Age \/ Poll \/ Serve \/ Land \/ FetchFails \/ Edit \/ Work \/ Others
  <2>1. UNCHANGED <<scene, requests, place, shown>>
    BY <1>1 DEF vars, Age, Poll, Serve, Land, FetchFails, Edit, Work, Others, userVars
  <2>2. server'.kept = server.kept /\ server'.last = server.last
    BY <1>0, <1>1 DEF vars, Age, Poll, Serve, Land, FetchFails, Edit, Work, Others, ServerRec
  <2> QED BY <1>0, <2>1, <2>2, PressesQuiet
<1>2. CASE \E p \in Places : Visit(p)
  BY <1>2, PressVisit
<1>3. CASE \E i \in Presses : Press(i)
  BY <1>3, PressPress
<1>4. CASE \E i \in Presses : Handle(i)
  BY <1>4, PressHandle
<1>5. CASE \E i \in Presses : Answer(i)
  BY <1>5, PressAnswer
<1>6. CASE Elevate \/ CancelPrompt \/ \E i \in Presses : Refuse(i) \/ Error(i)
  <2>1. UNCHANGED <<scene, server, place, shown>>
    BY <1>6 DEF Elevate, CancelPrompt, Refuse, Error, userVars
  <2>2. ASSUME NEW i \in Presses
        PROVE  /\ requests'[i].left = requests[i].left
               /\ \/ requests'[i].at = requests[i].at
                  \/ /\ requests[i].at \in {"sent", "refused"}
                     /\ requests'[i].at \in {"sent", "refused", "over"}
                  \/ requests[i].at = "done" /\ requests'[i].at = "lost"
    <3>1. requests \in [Presses -> RequestRec] /\ requests[i] \in RequestRec
      BY <1>0 DEF Types
    <3>2. CASE Elevate
      BY <3>1, <3>2 DEF Elevate, RequestRec
    <3>3. CASE CancelPrompt
      BY <3>1, <3>3 DEF CancelPrompt, RequestRec
    <3>4. CASE \E j \in Presses : Refuse(j)
      BY <3>1, <3>4 DEF Refuse, RequestRec
    <3>5. CASE \E j \in Presses : Error(j)
      BY <3>1, <3>5 DEF Error, RequestRec
    <3> QED BY <1>6, <3>2, <3>3, <3>4, <3>5
  <2> QED BY <1>0, <2>1, <2>2, PressesEnd
<1> QED BY <1>1, <1>2, <1>3, <1>4, <1>5, <1>6 DEF Next

(* LastPressWins: for a user who stays, the server holds the effect of the     *)
(* last press and the secret on screen is the one it issued (rotateRegion and  *)
(* the other minting controls, disabled={m.isPending}).                        *)
THEOREM LastPressIsKept == Spec /\ WellWired => []LastPressWins
<1>1. PressInv => LastPressWins
  <2> SUFFICES ASSUME PressInv, ~scene.open,
                      \A i \in Presses : requests[i].at \in {"none", "over"} /\ ~requests[i].left
               PROVE  server.kept = server.last /\ shown \in {0, server.kept}
    BY DEF LastPressWins
  <2>1. OneAtATime
    BY DEF PressInv, CacheInv, WellWired, Stayed
  <2> QED BY <2>1 DEF OneAtATime
<1> QED BY <1>1, PressInvInit, PressInvNext, PTL DEF Spec
================================================================================
