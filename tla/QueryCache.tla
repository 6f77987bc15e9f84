----------------------------- MODULE QueryCache -----------------------------
(***************************************************************************)
(* One browser tab: a control on one screen, a query shown there or on     *)
(* another screen, and the server between them.  The screens are those of  *)
(* AdminPages and FilesPages; the cache follows the React Query rules the  *)
(* hooks rely on (invalidation by key prefix, refetch of what is mounted,  *)
(* a restarted or a deduplicated fetch), and a request may be refused,     *)
(* fail, lose its answer or be answered after the user has left.           *)
(***************************************************************************)
EXTENDS PageParts, Integers, FiniteSets, SequencesExt

CONSTANTS
    Screens,       \* the screens of the tab
    KnownGaps,     \* pairs <<mutation, query>> the code does not refresh
    OpenControls,  \* mutations with a control that is not disabled meanwhile
    FollowingForms,\* queries whose every new answer replaces a form's edits
    MaxPresses,    \* bound: presses of the control
    MaxEvents      \* bound: presses, changes by somebody else, failed
                   \* fetches, failed requests and lost answers together

ASSUME CacheAssumption == MaxPresses \in Nat

VARIABLES
    scene,      \* how the control and the query are wired: see Scene
    place,      \* the screen with the control ("act"), one that only shows
                \* the query ("there"), or neither ("elsewhere")
    server,     \* the facts both are about
    requests,   \* the mutation's requests, one per press
    entry,      \* the query's cache entry
    fetch,      \* the query's fetch
    draft,      \* local edits of the form on this query
    elevated,   \* the session passed the elevation prompt
    mine,       \* newest change of the user's own that was answered
    shown,      \* the press whose answer's secret is on screen
    overtaken,  \* a fetch older than the user's own change is still to land
    others,     \* changes made by somebody else
    events      \* presses, changes by others and faults so far

vars == <<scene, place, server, requests, entry, fetch, draft, elevated, mine, shown,
          overtaken, others, events>>
cacheVars == <<entry, fetch, overtaken>>
userVars == <<place, draft, elevated, mine, shown>>

-----------------------------------------------------------------------------
(***************************************************************************)
(* What matters of a control on a screen and a query of any screen.        *)
(* Controls and queries that are wired the same way behave the same way,   *)
(* so the model follows each wiring that occurs once.                      *)
(***************************************************************************)
Names(keys, query) == \E k \in keys : IsPrefix(k, query.key)
FormsOn(screen, query) == {f \in screen.forms : f.query = query}
Scene(screen, act, query) ==
    [together  |-> query \in screen.shows,
     form      |-> FormsOn(screen, query) # {},
     follows   |-> \E f \in FormsOn(screen, query) : f.follows,
     saves     |-> \E f \in FormsOn(screen, query) : f.save = act.does,
     touches   |-> act.does.writes \cap query.reads # {},
     refreshes |-> Names(act.does.invalidates, query),
     tells     |-> Names(act.tells, query),
     removes   |-> Names(act.does.removes, query),
     users     |-> Names({<<"user">>}, query),
     onMount   |-> query.onMount,
     trusted   |-> query.trusts # "never",
     ages      |-> query.trusts = "a while",
     polls     |-> query.polls,
     isLocal   |-> query.key[1] = "local",
     shut      |-> act.shut,
     elevates  |-> act.elevates,
     awaits    |-> act.awaits,
     whole     |-> act.whole,
     mints     |-> act.does.kind = "mint",
     triggers  |-> act.does.kind = "trigger",
     lands     |-> act.does.lands # "stay",
     moves     |-> act.then # "stay",
     gap       |-> <<act.does, query>> \in KnownGaps,
     open      |-> act.does \in OpenControls,
     yields    |-> query \in FollowingForms]
Queries == UNION {screen.shows : screen \in Screens}
\* Those worth following: a request that only asks changes nothing; another
\* changes what the query reads, or shares its screen with a form on it.
Scenes ==
    {s \in UNION {{Scene(screen, act, query) :
                       act \in {a \in screen.acts : a.does.kind # "ask"},
                       query \in Queries} : screen \in Screens} : s.touches \/ s.form}

Presses == 1..MaxPresses
Unpressed == [at |-> "none", left |-> FALSE, basis |-> 0, rev |-> 0]
Running == {"sent", "refused", "done"}
\* What a reader is told: how many changes there were, the newest change of
\* somebody else still in force, and whether a job is under way.
Seen(s) == [rev |-> s.rev, theirs |-> s.theirs, busy |-> s.busy]
NoEntry == [has |-> FALSE, seen |-> [rev |-> 0, theirs |-> 0, busy |-> FALSE],
            fresh |-> FALSE, failed |-> FALSE]
Idle == [at |-> "idle", seen |-> NoEntry.seen]
Asked == [Idle EXCEPT !.at = "asked"]

Init ==
    /\ scene \in Scenes
    /\ place = "act"
    /\ server = [rev |-> 0, theirs |-> 0, busy |-> FALSE, kept |-> 0, last |-> 0]
    /\ requests = [i \in Presses |-> Unpressed]
    /\ entry = NoEntry
    /\ fetch = IF scene.together /\ scene.onMount THEN Asked ELSE Idle
    /\ draft = FALSE
    /\ elevated = FALSE
    /\ mine = 0
    /\ shown = 0
    /\ overtaken = FALSE
    /\ others = 0
    /\ events = 0

-----------------------------------------------------------------------------
(***************************************************************************)
(* Mounting, and the fetches of the query.                                 *)
(***************************************************************************)
Places == IF scene.together THEN {"act", "elsewhere"} ELSE {"act", "there", "elsewhere"}
MountedAt(p) == p = "there" \/ (p = "act" /\ scene.together)
Mounted == MountedAt(place)
Stale(e) == ~e.has \/ ~e.fresh \/ ~scene.trusted

\* The user is on p, with entry e and fetch f: a query that mounts is fetched
\* unless its answer is trusted or a fetch of it is already under way.
Arrive(p, e, f) ==
    LET dropped == scene.isLocal /\ Mounted /\ ~MountedAt(p)
        kept == IF dropped THEN NoEntry ELSE e
        going == IF dropped THEN Idle ELSE f
        asks == /\ MountedAt(p) /\ ~Mounted /\ scene.onMount
                /\ going.at = "idle" /\ Stale(kept)
    IN /\ place' = p
       /\ entry' = kept
       /\ fetch' = IF asks THEN Asked ELSE going

Visit(p) ==
    /\ p # place
    /\ Arrive(p, entry, fetch)
    /\ overtaken' = (overtaken /\ fetch' = fetch)
    /\ requests' = [i \in Presses |->
                        [requests[i] EXCEPT !.left = @ \/ (place = "act" /\ requests[i].at \in Running)]]
    /\ draft' = FALSE
    /\ shown' = 0
    /\ UNCHANGED <<scene, server, elevated, mine, others, events>>

\* staleTime runs out; the entry is fetched at the next mount.
Age ==
    /\ entry.has /\ entry.fresh /\ scene.ages
    /\ entry' = [entry EXCEPT !.fresh = FALSE]
    /\ UNCHANGED <<scene, server, requests, userVars, fetch, overtaken, others, events>>

\* Mutants: a failed poll is the last one.
PollUntilError ==
    /\ Mounted /\ fetch.at = "idle" /\ ~entry.failed
    /\ scene.polls = "always" \/ (scene.polls = "while running" /\ entry.seen.busy)
    /\ fetch' = Asked
    /\ overtaken' = FALSE
    /\ UNCHANGED <<scene, server, requests, userVars, entry, others, events>>
\* The interval function of a job's query never asks for another poll.
PollAlwaysOnly ==
    /\ Mounted /\ fetch.at = "idle" /\ scene.polls = "always"
    /\ fetch' = Asked
    /\ overtaken' = FALSE
    /\ UNCHANGED <<scene, server, requests, userVars, entry, others, events>>

Poll ==
    /\ Mounted /\ fetch.at = "idle"
    /\ scene.polls = "always" \/ (scene.polls = "while running" /\ entry.seen.busy)
    /\ fetch' = Asked
    /\ overtaken' = FALSE
    /\ UNCHANGED <<scene, server, requests, userVars, entry, others, events>>

Serve ==
    /\ fetch.at = "asked"
    /\ fetch' = [at |-> "served", seen |-> Seen(server)]
    /\ UNCHANGED <<scene, server, requests, userVars, entry, overtaken, others, events>>

\* An effect on the query's data runs only when the new data differs.
Land ==
    /\ fetch.at = "served"
    /\ entry' = [has |-> TRUE, seen |-> fetch.seen, fresh |-> TRUE, failed |-> FALSE]
    /\ fetch' = Idle
    /\ draft' = (draft /\ ~(scene.follows /\ entry.seen # fetch.seen))
    /\ UNCHANGED <<scene, server, requests, place, elevated, mine, shown, overtaken, others,
                   events>>

\* After its one retry; what was cached stays on screen.
FetchFails ==
    /\ fetch.at # "idle" /\ events < MaxEvents
    /\ fetch' = Idle
    /\ entry' = [entry EXCEPT !.failed = TRUE]
    /\ overtaken' = FALSE
    /\ events' = events + 1
    /\ UNCHANGED <<scene, server, requests, userVars, others>>

-----------------------------------------------------------------------------
(***************************************************************************)
(* The user: editing and pressing the control.                             *)
(***************************************************************************)
Edit ==
    /\ place = "act" /\ scene.form /\ entry.has /\ ~draft
    /\ draft' = TRUE
    /\ UNCHANGED <<scene, server, requests, place, elevated, mine, shown, cacheVars, others,
                   events>>

\* isPending belongs to the component: a screen left and opened again has
\* forgotten the request it started.
Pending == \E i \in Presses : requests[i].at \in Running /\ ~requests[i].left
Prompting == \E i \in Presses : requests[i].at = "refused"

Press(i) ==
    /\ place = "act" /\ ~Prompting
    /\ scene.shut => ~Pending
    /\ scene.whole => entry.has
    /\ requests[i].at = "none" /\ \A j \in 1..i-1 : requests[j].at # "none"
    /\ events < MaxEvents
    /\ events' = events + 1
    /\ requests' = [requests EXCEPT ![i] =
                        [Unpressed EXCEPT !.at = "sent", !.basis = entry.seen.theirs]]
    /\ UNCHANGED <<scene, server, userVars, cacheVars, others>>

-----------------------------------------------------------------------------
(***************************************************************************)
(* The server.                                                             *)
(***************************************************************************)
\* A payload that carries untouched fields puts them back as they were read.
Handle(i) ==
    /\ requests[i].at = "sent" /\ (scene.elevates => elevated)
    \* Touching a sync, or triggering anything, may set a job going.
    /\ server' =
          [rev |-> IF scene.touches THEN server.rev + 1 ELSE server.rev,
           theirs |-> IF scene.touches /\ scene.whole THEN requests[i].basis ELSE server.theirs,
           busy |-> \/ server.busy
                    \/ scene.touches /\ (scene.triggers \/ scene.polls = "while running"),
           kept |-> i,
           last |-> IF i > server.last THEN i ELSE server.last]
    /\ requests' = [requests EXCEPT ![i].at = "done",
                        ![i].rev = IF scene.touches THEN server.rev + 1 ELSE 0]
    /\ UNCHANGED <<scene, userVars, cacheVars, others, events>>

Refuse(i) ==
    /\ requests[i].at = "sent" /\ scene.elevates /\ ~elevated
    /\ requests' = [requests EXCEPT ![i].at = "refused"]
    /\ UNCHANGED <<scene, server, userVars, cacheVars, others, events>>

\* The background job a request handed over is finished.
Work ==
    /\ server.busy
    /\ server' = [server EXCEPT !.busy = FALSE, !.rev = @ + 1]
    /\ UNCHANGED <<scene, requests, userVars, cacheVars, others, events>>

Others ==
    /\ events < MaxEvents
    /\ others' = others + 1
    /\ events' = events + 1
    /\ server' = [server EXCEPT !.rev = @ + 1, !.theirs = @ + 1]
    /\ UNCHANGED <<scene, requests, userVars, cacheVars>>

-----------------------------------------------------------------------------
(***************************************************************************)
(* The prompt, and the answers.                                            *)
(***************************************************************************)
\* invalidateQueries: a mounted query is fetched again, anew if it had data;
\* a first load under way is left alone, and so is any fetch of a query
\* that is not mounted.
Refetched(hit) ==
    IF hit /\ Mounted /\ (entry.has \/ fetch.at = "idle") THEN Asked ELSE fetch
Invalidated(hit) == [entry EXCEPT !.fresh = @ /\ ~hit]

\* handleSuccess of the elevation prompt; the refused call is made again.
Elevate ==
    /\ Prompting
    /\ elevated' = TRUE
    /\ requests' = [i \in Presses |->
                        [requests[i] EXCEPT !.at = IF @ = "refused" THEN "sent" ELSE @]]
    /\ entry' = Invalidated(scene.users)
    /\ fetch' = Refetched(scene.users)
    /\ overtaken' = (overtaken /\ fetch' = fetch)
    /\ UNCHANGED <<scene, server, place, draft, mine, shown, others, events>>

CancelPrompt ==
    /\ Prompting
    /\ requests' = [i \in Presses |->
                        [requests[i] EXCEPT !.at = IF @ = "refused" THEN "over" ELSE @]]
    /\ UNCHANGED <<scene, server, userVars, cacheVars, others, events>>

\* The hook's onSuccess always runs; the component's own code only if it is
\* still there, or was waiting for the promise.
Answer(i) ==
    /\ requests[i].at = "done"
    /\ requests' = [requests EXCEPT ![i].at = "over"]
    /\ LET heard == ~requests[i].left \/ scene.awaits
           hit == scene.refreshes \/ (heard /\ scene.tells)
           moves == scene.lands \/ (scene.moves /\ heard)
           e == IF scene.removes THEN NoEntry ELSE Invalidated(hit)
           f == IF scene.removes THEN Idle ELSE Refetched(hit)
       IN \E p \in IF moves THEN Places \ {"act"} ELSE {place} :
            /\ Arrive(p, e, f)
            /\ overtaken' = (fetch' = fetch /\ fetch.at # "idle")
            /\ draft' = (draft /\ p = place /\ ~scene.saves)
            /\ shown' = IF p = place /\ ~requests[i].left THEN i ELSE shown
    /\ mine' = IF requests[i].rev > mine THEN requests[i].rev ELSE mine
    /\ UNCHANGED <<scene, server, elevated, others, events>>

\* An error answer: nothing was done, or it was done and the answer lost.  A
\* request that is handled after its error was reported is left out.
Error(i) ==
    /\ requests[i].at \in {"sent", "done"} /\ events < MaxEvents
    /\ requests' = [requests EXCEPT ![i].at = IF @ = "sent" THEN "over" ELSE "lost"]
    /\ events' = events + 1
    /\ UNCHANGED <<scene, server, userVars, cacheVars, others>>

-----------------------------------------------------------------------------
Next ==
    \/ \E p \in Places : Visit(p)
    \/ Age \/ Poll \/ Serve \/ Land \/ FetchFails
    \/ Edit \/ \E i \in Presses : Press(i)
    \/ \E i \in Presses : Handle(i) \/ Refuse(i) \/ Answer(i) \/ Error(i)
    \/ Work \/ Others \/ Elevate \/ CancelPrompt

Spec == Init /\ [][Next]_vars

\* The network answers, timers fire and jobs finish; users promise nothing.
FairSpec ==
    /\ Spec
    /\ WF_vars(Poll) /\ WF_vars(Serve) /\ WF_vars(Land \/ FetchFails) /\ WF_vars(Work)

-----------------------------------------------------------------------------
(***************************************************************************)
(* What a page can be read for: a control that changes what a query shows  *)
(* has a hook that invalidates the query, or does so itself after awaiting *)
(* the promise; a control is disabled while its request runs; no effect    *)
(* copies a query over a form.  The exceptions are those listed in         *)
(* MC_QueryCache: among them a deleted cluster's rows on All Buckets, the  *)
(* holders of a deleted role among a cluster's admins, and the totals of   *)
(* the usage page.  The next three properties rest on these rules and on   *)
(* nothing else of a page.                                                 *)
(***************************************************************************)
WellWired ==
    /\ scene.touches /\ ~scene.gap =>
          scene.onMount /\ (scene.refreshes \/ (scene.tells /\ scene.awaits))
    /\ ~scene.open => scene.shut
    /\ scene.follows => scene.yields

(***************************************************************************)
(* Once a change has been confirmed to the user, no screen that shows it   *)
(* rests on an answer older than the change - unless the refetch failed,   *)
(* an older fetch was left in flight, or the pair is one of the gaps of    *)
(* MC_QueryCache, where the code breaks this.                              *)
(***************************************************************************)
ReadYourWrites ==
    (/\ Mounted /\ entry.has /\ fetch.at = "idle" /\ ~entry.failed
     /\ ~scene.gap /\ ~overtaken)
        => entry.seen.rev >= mine

(***************************************************************************)
(* For a user who stays on the screen, the last press decides: the server  *)
(* holds its effect, and the secret on screen is the one it issued.  The   *)
(* exceptions are the controls that stay enabled while a request runs; a   *)
(* request that reported an error is taken not to be handled afterwards.   *)
(***************************************************************************)
LastPressWins ==
    (/\ ~scene.open
     /\ \A i \in Presses : requests[i].at \in {"none", "over"} /\ ~requests[i].left)
        => /\ server.kept = server.last
           /\ scene.mints => shown \in {0, server.kept}

(***************************************************************************)
(* Until the user saves the form, no refetch drops what was typed into it, *)
(* except in the forms known to follow their query.                        *)
(***************************************************************************)
EditsSurvive ==
    [][(draft /\ ~draft' /\ ~scene.yields) =>
         \/ place' # place
         \/ scene.saves /\ \E i \in Presses : requests[i].at # "none"]_vars

\* A polled screen that stays open comes to show what the server holds, and
\* one that polls while a job is under way follows it to its end.
PollsKeepUp ==
    /\ []<>(scene.polls = "always" => ~Mounted \/ entry.seen.rev = server.rev)
    /\ (scene.polls = "while running" /\ entry.seen.busy)
          ~> (~entry.seen.busy \/ ~Mounted)

(***************************************************************************)
(* A save changes what the user changed: a change somebody else made in    *)
(* the meantime stays in force.  The code does not keep it (README, known  *)
(* disagreements).                                                         *)
(***************************************************************************)
OthersSurvive == server.theirs = others
=============================================================================
