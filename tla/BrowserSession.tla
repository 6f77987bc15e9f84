---------------------------- MODULE BrowserSession ----------------------------
(***************************************************************************)
(* One browser tab and its session cookie: how the tab learns, shows and   *)
(* changes the mode (user or admin, with an expiry) and the active role    *)
(* that the cookie carries.                                                *)
(*                                                                         *)
(* The cookie is the truth.  The tab holds two copies of it: React Query's *)
(* entry for GET /auth/me, which useUser reads, and AuthModeProvider's     *)
(* state, which AuthModeHydrator follows up from that entry.  Three calls  *)
(* replace the cookie: POST /auth/elevate, POST /auth/logout-elevation and *)
(* PUT /auth/active-role.  Each is computed from the cookie it was sent    *)
(* with, and takes effect when its answer lands.                           *)
(*                                                                         *)
(* A request that the server refuses with 403 ELEVATION_REQUIRED opens the *)
(* password prompt, and an operation wrapped in runWithElevation waits for *)
(* the prompt and runs again.  Effects of a render run before the next     *)
(* event of the tab (Render, while rendered is not empty).                 *)
(***************************************************************************)
EXTENDS RouteCapabilities, FiniteSets

CONSTANTS Lifetime,   \* how long an elevation lasts (adminSessionTTL)
          MaxTime,    \* bound: the clock stops here
          Pages,      \* the paths a visitor asks for
          UIAdmin     \* whether the account may take the ui-admin role

ASSUME SessionAssumption ==
    /\ Lifetime \in Nat \ {0} /\ MaxTime \in Nat
    /\ Files \in Pages
    /\ UIAdmin \in BOOLEAN

VARIABLES now, cookie, me, fetch, local, rendered, path,
          prompt, elevating, dropping, switching, operation,
          granted,    \* when the window of the last elevation ends (history)
          crossed     \* where the answer is that a role switch overtook (history)

history == <<granted, crossed>>
vars == <<now, cookie, me, fetch, local, rendered, path,
          prompt, elevating, dropping, switching, operation, history>>

None == "none"
NoAnswer == [mode |-> None]
NoSwitch == [phase |-> None]
Modes == {"user", "admin"}
ModeState == [mode : Modes, expires : 0..(MaxTime + Lifetime)]
Cookie == [mode : Modes, expires : 0..(MaxTime + Lifetime), role : Roles]

Expired(state) == state.expires > 0 /\ now >= state.expires

\* The server downgrades an expired cookie on every request, and never
\* rewrites it.
currentMode(c) == IF Expired(c) THEN "user" ELSE c.mode

\* The answer to GET /auth/me: the mode in force beside the raw expiry.
UserResponse(c) == [c EXCEPT !.mode = currentMode(c)]

UserMode == [mode |-> "user", expires |-> 0]

\* What AuthModeHydrator makes of an answer: an admin answer that the
\* clock has overtaken counts as user.
computeNextStateOnDowngrade(answer) ==
    IF answer.mode = "admin" /\ Expired(answer)
    THEN UserMode ELSE [mode |-> answer.mode, expires |-> answer.expires]

Loaded == me.answer # NoAnswer
role == IF Loaded THEN me.answer.role ELSE "user"

\* What crossed says once the fetch under way is given up.
GivenUp == IF crossed = "fetch" THEN None ELSE crossed

(* Mutant: a fetch under way is kept whatever it was asked with.           *)
KeepFetch(c) ==
    /\ me' = [me EXCEPT !.stale = TRUE]
    /\ fetch' = IF fetch # NoAnswer THEN fetch ELSE UserResponse(c)
    /\ UNCHANGED crossed

\* invalidateQueries(["auth", "me"]): a first load under way is kept, any
\* other is dropped; useUser is always mounted, so a new one starts.
Invalidate(c) ==
    /\ me' = [me EXCEPT !.stale = TRUE]
    /\ fetch' = IF ~Loaded /\ fetch # NoAnswer THEN fetch ELSE UserResponse(c)
    /\ crossed' = GivenUp

Init ==
    /\ now = 0
    /\ cookie \in {c \in Cookie : c.mode = "user" /\ c.expires = 0 /\ c.role = "user"}
    /\ me = [answer |-> NoAnswer, stale |-> FALSE]
    /\ fetch = UserResponse(cookie)
    /\ local = UserMode
    /\ rendered = {"path"}
    /\ path \in Pages
    /\ prompt = None
    /\ elevating = FALSE /\ dropping = FALSE /\ switching = NoSwitch
    /\ operation = "idle"
    /\ granted = 0 /\ crossed = None

-----------------------------------------------------------------------------
(* The effects of a render.                                                *)

(* Mutant: the shell leaves the page alone.                                *)
LooseShell(p) == p

\* AppShell, which frames every admin page, sends user mode to the files.
\* It trusts the answer of /auth/me over the state not yet hydrated.
AppShell(p) ==
    IF /\ onAdmin(p) /\ Loaded
       /\ me.answer.mode # "admin" /\ local.mode = "user"
    THEN Files ELSE p

\* AppShell's effect runs before that of ProtectedRoute, which frames it; the
\* later navigation counts.
Framed == IF Loaded /\ ProtectedRoute(path, role) # path
          THEN ProtectedRoute(path, role)
          ELSE AppShell(path)

Hydrated == IF Loaded /\ rendered \cap {"me", "local"} # {}
            THEN computeNextStateOnDowngrade(me.answer)
            ELSE local

Render ==
    /\ rendered # {}
    /\ local' = Hydrated
    /\ path' = Framed
    /\ rendered' = (IF local' # local THEN {"local"} ELSE {})
                       \cup (IF path' # path THEN {"path"} ELSE {})
    /\ UNCHANGED <<now, cookie, me, fetch, prompt, elevating, dropping, switching,
                   operation, history>>

\* Every event of the tab finds the effects of the last render done.
Idle == rendered = {}

-----------------------------------------------------------------------------
(* GET /auth/me.                                                           *)

FetchLands ==
    /\ Idle /\ fetch # NoAnswer
    /\ me' = [answer |-> fetch, stale |-> FALSE]
    /\ fetch' = NoAnswer
    /\ rendered' = {"me"}
    /\ crossed' = IF crossed = "fetch" THEN "me" ELSE None
    /\ UNCHANGED <<now, cookie, local, path, prompt, elevating, dropping, switching,
                   operation, granted>>

\* After two retries the entry keeps what it had.
FetchFails ==
    /\ Idle /\ fetch # NoAnswer /\ Loaded
    /\ fetch' = NoAnswer
    /\ crossed' = GivenUp
    /\ UNCHANGED <<now, cookie, me, local, rendered, path, prompt, elevating,
                   dropping, switching, operation, granted>>

\* A page that mounts fetches again what is stale, or older than staleTime.
Visit(p) ==
    /\ Idle /\ Loaded /\ prompt = None
    /\ path' = p
    /\ rendered' = {"path"}
    /\ \/ fetch = NoAnswer /\ fetch' = UserResponse(cookie)
       \/ (fetch # NoAnswer \/ ~me.stale) /\ fetch' = fetch
    /\ UNCHANGED <<now, cookie, me, local, prompt, elevating, dropping, switching,
                   operation, history>>

-----------------------------------------------------------------------------
(* Time.                                                                   *)

Advance ==
    /\ now < MaxTime
    /\ now' = now + 1
    /\ UNCHANGED <<cookie, me, fetch, local, rendered, path, prompt, elevating,
                   dropping, switching, operation, history>>

\* AuthModeProvider's tick, once a second.
Tick ==
    /\ Idle
    /\ local.mode = "admin" /\ Expired(local)
    /\ local' = UserMode
    /\ Invalidate(cookie)
    /\ rendered' = {"local"}
    /\ UNCHANGED <<now, cookie, path, prompt, elevating, dropping, switching,
                   operation, granted>>

-----------------------------------------------------------------------------
(* The password prompt.  prompt names who waits for it: the wrapped        *)
(* operation, the role switch, or nobody.  promptForElevation keeps one    *)
(* entry, and a later one takes its place.                                 *)

\* Submitting sends POST /auth/elevate.
Submit ==
    /\ Idle /\ prompt # None /\ ~elevating
    /\ elevating' = TRUE
    /\ UNCHANGED <<now, cookie, me, fetch, local, rendered, path, prompt, dropping,
                   switching, operation, history>>

\* IssueTokenWithMode: admin for a Lifetime, without an active role.
Elevated == [mode |-> "admin", expires |-> now + Lifetime, role |-> "user"]

\* The modal's setAuthMode, then ElevationProvider's handleSuccess: the
\* waiter, if there is one, runs again what was refused.
ElevateLands ==
    /\ Idle /\ elevating
    /\ cookie' = Elevated
    /\ local' = [mode |-> "admin", expires |-> Elevated.expires]
    /\ Invalidate(Elevated)
    /\ operation' = IF prompt = "operation" THEN "idle" ELSE operation
    /\ switching' = IF prompt = "switch"
                    THEN [switching EXCEPT !.sent = Elevated, !.phase = "again"]
                    ELSE switching
    /\ elevating' = FALSE /\ prompt' = None
    /\ rendered' = {"local"}
    /\ granted' = Elevated.expires
    /\ UNCHANGED <<now, path, dropping>>

\* A wrong password or a network error is shown in the modal, which stays.
ElevateFails ==
    /\ Idle /\ elevating
    /\ elevating' = FALSE
    /\ UNCHANGED <<now, cookie, me, fetch, local, rendered, path, prompt, dropping,
                   switching, operation, history>>

(* Mutant: the modal closes without a word to its waiter.                  *)
SilentCancel ==
    /\ Idle /\ prompt # None
    /\ prompt' = None
    /\ UNCHANGED <<now, cookie, me, fetch, local, rendered, path, elevating,
                   dropping, switching, operation, history>>

\* Escape closes the modal even while its request is under way.
Cancel ==
    /\ Idle /\ prompt # None
    /\ prompt' = None
    /\ operation' = IF prompt = "operation" THEN "idle" ELSE operation
    /\ switching' = IF prompt = "switch" THEN NoSwitch ELSE switching
    /\ UNCHANGED <<now, cookie, me, fetch, local, rendered, path, elevating,
                   dropping, history>>

-----------------------------------------------------------------------------
(* An operation of a page wrapped in runWithElevation, one at a time.       *)

Start ==
    /\ Idle /\ Loaded /\ prompt = None /\ operation = "idle" /\ onAdmin(path)
    /\ operation' = IF currentMode(cookie) = "admin" THEN "idle" ELSE "rejected"
    /\ UNCHANGED <<now, cookie, me, fetch, local, rendered, path, prompt, elevating,
                   dropping, switching, history>>

\* The interceptor of the typed client prompts first, for nobody; the
\* wrapper's own prompt replaces that one.
Rejected ==
    /\ Idle /\ operation = "rejected"
    /\ operation' = "waiting"
    /\ prompt' = "operation"
    /\ UNCHANGED <<now, cookie, me, fetch, local, rendered, path, elevating, dropping,
                   switching, history>>

\* A background request of a page, refused, prompts on behalf of nobody.
PollRefused ==
    /\ Idle /\ Loaded /\ onAdmin(path)
    /\ currentMode(cookie) = "user"
    /\ prompt' = "nobody"
    /\ UNCHANGED <<now, cookie, me, fetch, local, rendered, path, elevating, dropping,
                   switching, operation, history>>

-----------------------------------------------------------------------------
(* The persona pill: the X that drops privileges and the role menu.        *)

Drop ==
    /\ Idle /\ prompt = None /\ ~dropping
    /\ local.mode = "admin" /\ local.expires > 0
    /\ dropping' = TRUE
    /\ UNCHANGED <<now, cookie, me, fetch, local, rendered, path, prompt, elevating,
                   switching, operation, history>>

Dropped == [mode |-> "user", expires |-> 0, role |-> "user"]

DropLands ==
    /\ Idle /\ dropping
    /\ cookie' = Dropped
    /\ local' = UserMode
    /\ Invalidate(Dropped)
    /\ path' = Files
    /\ dropping' = FALSE
    /\ rendered' = {"local", "path"}
    /\ UNCHANGED <<now, prompt, elevating, switching, operation, granted>>

DropFails ==
    /\ Idle /\ dropping
    /\ dropping' = FALSE
    /\ UNCHANGED <<now, cookie, me, fetch, local, rendered, path, prompt, elevating,
                   switching, operation, history>>

\* The roles the account may take.
AvailableRoles == IF UIAdmin THEN Roles ELSE Roles \ {"ui-admin"}

PickRole(r) ==
    /\ Idle /\ Loaded /\ prompt = None /\ switching = NoSwitch
    /\ r # me.answer.role
    /\ switching' = [role |-> r, sent |-> cookie, phase |-> "first"]
    /\ UNCHANGED <<now, cookie, me, fetch, local, rendered, path, prompt, elevating,
                   dropping, operation, history>>

\* A switch under way, the first or the second time; else it waits.
Switching == switching.phase \in {"first", "again"}

\* Only the ui-admin role asks for admin mode.
Locked(s) == s.role = "ui-admin" /\ currentMode(s.sent) # "admin"

navigateForRole(r) ==
    CASE r = "user" -> Files [] r = "cluster-admin" -> OwnCluster [] OTHER -> System

(* Mutant: the role comes with a new window.                               *)
Renewed(c, r) == [c EXCEPT !.role = r, !.expires = IF @ > 0 THEN now + Lifetime ELSE 0]

\* The cookie keeps its mode and expiry and takes the role.
Reissued(c, r) == [c EXCEPT !.role = r]

(* Mutant: the answer is thrown away and the entry only invalidated.       *)
Unseeded(r) == Invalidate(Reissued(switching.sent, r))

\* useSwitchActiveRole puts the answer in the cache and marks it stale,
\* without a new fetch and without dropping one under way: an answer of
\* /auth/me that was asked for before is then written over the new one.
Seeded(r) ==
    /\ me' = [answer |-> UserResponse(Reissued(switching.sent, r)), stale |-> TRUE]
    /\ crossed' = IF fetch = NoAnswer THEN None ELSE "fetch"
    /\ UNCHANGED fetch

SwitchLands ==
    /\ Idle /\ Switching /\ ~Locked(switching)
    /\ cookie' = Reissued(switching.sent, switching.role)
    /\ Seeded(switching.role)
    /\ path' = navigateForRole(switching.role)
    /\ switching' = NoSwitch
    /\ rendered' = {"me", "path"}
    /\ UNCHANGED <<now, local, prompt, elevating, dropping, operation, granted>>

\* 423: the first time the switch waits for the prompt.
SwitchLocked ==
    /\ Idle /\ Switching /\ Locked(switching)
    /\ switching.phase = "first"
    /\ switching' = [switching EXCEPT !.phase = "waits"]
    /\ prompt' = "switch"
    /\ UNCHANGED <<now, cookie, me, fetch, local, rendered, path, elevating, dropping,
                   operation, history>>

\* Any other failure, and a second 423, end it with a toast.
SwitchFails ==
    /\ Idle /\ Switching
    /\ switching' = NoSwitch
    /\ UNCHANGED <<now, cookie, me, fetch, local, rendered, path, prompt, elevating,
                   dropping, operation, history>>

-----------------------------------------------------------------------------
Visitor ==
    \/ \E p \in Pages : Visit(p)
    \/ Start \/ Submit \/ Cancel \/ Drop
    \/ \E r \in AvailableRoles : PickRole(r)

Answers ==
    \/ FetchLands \/ ElevateLands \/ Rejected
    \/ DropLands \/ SwitchLands \/ SwitchLocked

Failures == FetchFails \/ ElevateFails \/ DropFails \/ SwitchFails

Next == Render \/ Visitor \/ Answers \/ Failures \/ Advance \/ Tick \/ PollRefused

Spec == Init /\ [][Next]_vars

\* The tab runs the effects of a render before anything else, serves every
\* timer and every answer that has come, and its requests are answered, well
\* or badly.  A visitor who faces the prompt does something about it, and one
\* whose password keeps being refused gives up.
FairSpec ==
    /\ Spec
    /\ WF_vars(Render) /\ SF_vars(Tick)
    /\ SF_vars(FetchLands \/ FetchFails)
    /\ SF_vars(Rejected)
    /\ SF_vars(ElevateLands \/ ElevateFails)
    /\ WF_vars(Submit \/ Cancel) /\ SF_vars(Cancel \/ ElevateLands)

-----------------------------------------------------------------------------
(* Properties.                                                             *)

Requested == elevating \/ dropping \/ switching # NoSwitch
AtRest == Idle /\ Loaded /\ fetch = NoAnswer /\ ~Requested /\ ~me.stale
TickDue == local.mode = "admin" /\ Expired(local)

\* When nothing is under way and the cached answer counts as fresh, the tab
\* shows the mode and the role that the cookie has: "the background refetch
\* confirms it against the canonical /auth/me" (useSwitchActiveRole).
\* The code does not keep it: no refetch is started, and one that was under
\* way when the role was switched brings the old role back for good.
SettlesOnTruth ==
    AtRest /\ ~TickDue =>
        /\ local.mode = currentMode(cookie)
        /\ me.answer.role = cookie.role

\* The same, unless the answer that the tab holds was asked for before the
\* last role switch: no other order of elevations, drops, switches, fetches,
\* failures and expiries, however they overlap, leaves an old copy behind
\* (useSwitchActiveRole, AuthModeHydrator, ElevationProvider).
ShowsTheTruth == crossed = "me" \/ SettlesOnTruth

\* Of two rules that match a path the one with fewer wildcards decides what
\* the path needs: /admin/clusters/new is no cluster called "new"
\* (resolveRequiredCapabilities, the order of ROUTE_CAPABILITIES).
Wildcards(i) == Cardinality({k \in 1..Len(ROUTE_CAPABILITIES[i].pattern) :
                                ROUTE_CAPABILITIES[i].pattern[k] = Seg})
Filled(pattern) == [k \in 1..Len(pattern) |-> IF pattern[k] = Seg THEN "own" ELSE pattern[k]]
LiteralRouteWins ==
    Loaded \/ \A p \in {path} \cup {Filled(ROUTE_CAPABILITIES[i].pattern) :
                            i \in 1..Len(ROUTE_CAPABILITIES)} :
        \A i \in Matching(p) :
            (\A j \in Matching(p) \ {i} : Wildcards(i) < Wildcards(j))
                => resolveRequiredCapabilities(p) = {ROUTE_CAPABILITIES[i].needs}

\* A visitor whose cookie admits the page is never sent away from it:
\* neither AppShell nor ProtectedRoute acts on a copy that lags behind an
\* elevation, a drop or a role switch, overlapping as they may.  Not so when
\* the tab holds an answer asked for before the last role switch (above).
AdmittedStays ==
    [][ \/ path' = path \/ path \notin {System, OwnCluster}
        \/ rendered = {} \/ crossed = "me"
        \/ currentMode(cookie) # "admin"
        \/ ProtectedRoute(path, cookie.role) # path ]_vars

\* Admin mode lasts no longer than the last password bought: a role switch
\* that was sent earlier, and lands after other elevations, drops and
\* switches, may bring an old cookie back, but never more time than that
\* (IssueTokenWithMode, switchActiveRole).
AdminIsRecent == currentMode(cookie) = "admin" => now < granted

\* "Privileges dropped": user mode turns into admin mode by an elevation and
\* by nothing else (handleDrop).
\* The code does not keep it: a role switch sent before the drop and answered
\* after it brings the old cookie back (README, known disagreements).
DropSticks ==
    [][ currentMode(cookie) = "user" /\ currentMode(cookie)' = "admin"
            => elevating /\ ~elevating' ]_vars

\* An operation that waits for the password ends, done or refused, unless
\* another refusal, of a background request or of a role switch, takes its
\* prompt (runWithElevation, handleCancel); see OperationSettles.
PromptSettles ==
    operation = "waiting" /\ prompt = "operation"
        ~> operation # "waiting" \/ prompt \in {"nobody", "switch"}

\* "if a second op fires mid-modal we surface its 403 directly": an operation
\* that waits for the password ends whatever else is refused meanwhile
\* (ElevationProvider).
\* The code does not keep it (README, known disagreements).
OperationSettles == operation = "waiting" ~> operation # "waiting"

\* Once the cookie's admin mode has expired, the visitor does not stay on
\* an admin page without elevating again (AuthModeProvider, AppShell).  Known
\* gap: AppShell trusts a cached admin answer over the expired mode beside it,
\* so the visitor stays when the clock overtakes the last answer on its way,
\* or when the refetch after the expiry fails.
Overtaken == /\ Idle /\ Loaded /\ fetch = NoAnswer
             /\ me.answer.mode = "admin" /\ local.mode = "user"
ExpiryLeavesAdmin ==
    onAdmin(path) /\ Expired(cookie) ~> ~onAdmin(path) \/ ~Expired(cookie) \/ Overtaken

\* "we're only changing the mode claim + its expiry": an elevation keeps the
\* active role of the cookie (elevateHandler).
\* The code does not keep it (README, known disagreements).
ElevationKeepsRole ==
    [][ elevating /\ ~elevating' /\ cookie' # cookie => cookie'.role = cookie.role ]_vars
================================================================================
