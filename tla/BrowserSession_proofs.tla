------------------------- MODULE BrowserSession_proofs -------------------------
(* One browser tab and its cookie: what the tab shows is what the cookie says, *)
(* nobody who may see a page is sent away from it, and admin mode lasts no     *)
(* longer than the last elevation bought, for every lifetime of an elevation   *)
(* and every set of pages, however requests and answers overlap.               *)
EXTENDS BrowserSession, FiniteSetTheorems, TLAPS

Past(expires, t) == expires > 0 /\ t >= expires

(* An answer of /auth/me tells what the cookie says, save that it may know of  *)
(* the expiry already.                                                         *)
Agrees(answer, c, t) ==
  /\ answer.role = c.role /\ answer.expires = c.expires
  /\ answer.mode = c.mode \/ (answer.mode = "user" /\ Past(c.expires, t))

(* AuthModeProvider's state is what the hydrator makes of an answer.           *)
Follows(state, answer, t) ==
  \/ state = [mode |-> answer.mode, expires |-> answer.expires]
  \/ state = UserMode /\ answer.mode = "admin" /\ Past(answer.expires, t)

(* No cookie outlasts the last elevation, and admin mode always ends.          *)
Window(c, until) == c.expires <= until /\ (c.mode = "admin" => c.expires > 0)

SwitchRec == [role : Roles, sent : Cookie, phase : {"first", "waits", "again"}]
Types ==
  /\ now \in 0..MaxTime /\ cookie \in Cookie
  /\ me \in [answer : Cookie \cup {NoAnswer}, stale : BOOLEAN]
  /\ fetch \in Cookie \cup {NoAnswer} /\ local \in ModeState
  /\ switching \in SwitchRec \cup {NoSwitch}
  /\ elevating \in BOOLEAN /\ dropping \in BOOLEAN
  /\ granted \in 0..(MaxTime + Lifetime) /\ crossed \in {None, "fetch", "me"}

(* Nothing is asked of the server before the first answer of /auth/me.         *)
Begun ==
  \/ Loaded
  \/ /\ prompt = None /\ ~elevating /\ ~dropping /\ switching = NoSwitch
     /\ local.mode = "user" /\ operation # "rejected"

PromptOwned == prompt = "switch" => switching # NoSwitch /\ switching.phase = "waits"

(* A fetch under way, an answer that counts as fresh, and any answer while the *)
(* cookie has a role beyond "user" all agree with the cookie, unless a role    *)
(* switch has overtaken them.                                                  *)
Copies ==
  /\ crossed = "fetch" => fetch # NoAnswer
  /\ fetch # NoAnswer /\ crossed # "fetch" => Agrees(fetch, cookie, now)
  /\ Loaded /\ ~me.stale /\ crossed # "me" => Agrees(me.answer, cookie, now)
  /\ cookie.role # "user" => Loaded /\ (crossed # "me" => Agrees(me.answer, cookie, now))
  /\ Loaded /\ rendered \cap {"me", "local"} = {} => Follows(local, me.answer, now)

(* A role switch brings back the cookie it was sent with, which outlasts the   *)
(* last elevation no more than the present one does.                           *)
Sent ==
  /\ granted <= now + Lifetime /\ Window(cookie, granted)
  /\ switching # NoSwitch => Window(switching.sent, granted)

SessionInv == Types /\ Begun /\ PromptOwned /\ Copies /\ Sent

LEMMA SessionBounds ==
  /\ Lifetime \in Nat \ {0} /\ MaxTime \in Nat
  /\ 0..MaxTime \subseteq Int
  /\ \A t \in 0..MaxTime : t \in Int /\ 0 <= t /\ t <= MaxTime
BY SessionAssumption

(* The server's answer for a cookie agrees with it.                            *)
LEMMA AnswerAgrees ==
  ASSUME NEW c \in Cookie
  PROVE  UserResponse(c) \in Cookie /\ Agrees(UserResponse(c), c, now)
BY SessionBounds DEF UserResponse, currentMode, Expired, Cookie, Modes, Agrees, Past

LEMMA SentinelsApart ==
  /\ NoAnswer \notin Cookie /\ NoSwitch \notin SwitchRec
  /\ NoSwitch.phase = "none"
BY DEF NoAnswer, NoSwitch, None, Cookie, Modes, SwitchRec

LEMMA ReissuedIsCookie ==
  ASSUME NEW c \in Cookie, NEW r \in Roles
  PROVE  /\ Reissued(c, r) \in Cookie /\ Reissued(c, r).role = r
         /\ Reissued(c, r).mode = c.mode /\ Reissued(c, r).expires = c.expires
BY DEF Reissued, Cookie

LEMMA HydratedFollows ==
  ASSUME Types, Begun, Copies
  PROVE  /\ Hydrated \in ModeState
         /\ Loaded => Follows(Hydrated, me.answer, now)
         /\ ~Loaded => Hydrated = local
<1>1. CASE Loaded /\ rendered \cap {"me", "local"} # {}
  <2>1. me.answer \in Cookie
    BY <1>1 DEF Types, Loaded
  <2>2. Hydrated = computeNextStateOnDowngrade(me.answer)
    BY <1>1 DEF Hydrated
  <2> QED
    BY <1>1, <2>1, <2>2, SessionBounds
       DEF computeNextStateOnDowngrade, Follows, Past, Expired, UserMode, Cookie, ModeState, Modes
<1>2. CASE ~(Loaded /\ rendered \cap {"me", "local"} # {})
  BY <1>2 DEF Hydrated, Types, Copies
<1> QED BY <1>1, <1>2

(* Time passes: agreement and the hydrated state stay as they are.             *)
LEMMA TimePasses ==
  ASSUME NEW t \in Int, NEW a \in Cookie, NEW c \in Cookie, NEW l
  PROVE  /\ Agrees(a, c, t) => Agrees(a, c, t + 1)
         /\ Follows(l, a, t) => Follows(l, a, t + 1)
BY SessionBounds DEF Agrees, Follows, Past, Cookie

LEMMA SessionInvInit == Init => SessionInv
<1> SUFFICES ASSUME Init PROVE SessionInv
  OBVIOUS
<1>1. cookie \in Cookie /\ cookie.mode = "user" /\ cookie.expires = 0 /\ cookie.role = "user"
  BY DEF Init
<1>2. fetch \in Cookie /\ Agrees(fetch, cookie, now)
  BY <1>1, AnswerAgrees DEF Init
<1>3. ~Loaded /\ me \in [answer : Cookie \cup {NoAnswer}, stale : BOOLEAN]
  BY DEF Init, Loaded
<1>4. Types
  <2>1. now \in 0..MaxTime /\ UserMode \in ModeState /\ granted \in 0..(MaxTime + Lifetime)
    BY SessionBounds DEF Init, UserMode, ModeState, Modes
  <2> QED BY <1>1, <1>2, <1>3, <2>1 DEF Types, Init
<1>5. Begun /\ PromptOwned
  BY DEF Init, Begun, PromptOwned, UserMode, None
<1>6. Copies
  BY <1>1, <1>2, <1>3 DEF Copies, Init, None
<1>7. Sent
  BY <1>1, SessionBounds DEF Sent, Window, Init
<1> QED BY <1>4, <1>5, <1>6, <1>7 DEF SessionInv

(* invalidateQueries of a tab that has had an answer.                          *)
LEMMA InvalidateKeeps ==
  ASSUME Types, Begun, Loaded, NEW c \in Cookie, Invalidate(c)
  PROVE  /\ me' = [me EXCEPT !.stale = TRUE]
         /\ me'.answer = me.answer /\ me'.stale /\ Loaded'
         /\ me' \in [answer : Cookie \cup {NoAnswer}, stale : BOOLEAN]
         /\ fetch' \in Cookie /\ Agrees(fetch', c, now)
         /\ crossed' = GivenUp /\ crossed' # "fetch" /\ crossed' \in {None, "fetch", "me"}
<1>1. me' = [me EXCEPT !.stale = TRUE] /\ fetch' = UserResponse(c)
  BY DEF Invalidate
<1>2. me'.answer = me.answer /\ me'.stale /\ me' \in [answer : Cookie \cup {NoAnswer}, stale : BOOLEAN]
  BY <1>1 DEF Types
<1>3. crossed' = GivenUp /\ crossed' # "fetch" /\ crossed' \in {None, "fetch", "me"}
  BY DEF Invalidate, GivenUp, None, Types
<1> QED BY <1>1, <1>2, <1>3, AnswerAgrees DEF Loaded

(* The steps that touch neither the cookie nor a copy of it.                   *)
LEMMA QuietStep ==
  ASSUME SessionInv, UNCHANGED <<now, cookie, local, rendered, me, granted>>,
         \/ UNCHANGED <<fetch, crossed>>
         \/ fetch' = NoAnswer /\ crossed' = GivenUp
         \/ /\ fetch' \in Cookie /\ Agrees(fetch', cookie, now)
            /\ crossed' = crossed /\ crossed # "fetch",
         elevating' \in BOOLEAN, dropping' \in BOOLEAN, Begun', PromptOwned',
         \/ switching' = NoSwitch
         \/ switching' = switching
         \/ /\ switching' \in SwitchRec
            /\ switching'.sent = cookie \/ (switching # NoSwitch /\ switching'.sent = switching.sent)
  PROVE  SessionInv'
<1>1. Types'
  BY DEF SessionInv, Types, GivenUp, None
<1>2. Copies'
  BY DEF SessionInv, Copies, Loaded, GivenUp, None
<1>3. Sent'
  BY DEF SessionInv, Sent
<1> QED BY <1>1, <1>2, <1>3 DEF SessionInv

LEMMA RenderStep ==
  ASSUME SessionInv, Render
  PROVE  SessionInv'
<1> USE DEF Render, history
<1>1. /\ Hydrated \in ModeState /\ local' = Hydrated
      /\ Loaded => Follows(Hydrated, me.answer, now)
      /\ ~Loaded => Hydrated = local
  BY HydratedFollows DEF SessionInv
<1>2. Types'
  BY <1>1 DEF SessionInv, Types
<1>3. Begun'
  BY <1>1 DEF SessionInv, Begun, Loaded
<1>4. Copies'
  BY <1>1 DEF SessionInv, Copies, Loaded
<1> QED BY <1>2, <1>3, <1>4 DEF SessionInv, PromptOwned, Sent

LEMMA FetchLandsStep ==
  ASSUME SessionInv, FetchLands
  PROVE  SessionInv'
<1> USE DEF FetchLands
<1>1. fetch \in Cookie /\ me'.answer = fetch /\ ~me'.stale /\ Loaded'
  BY SentinelsApart DEF SessionInv, Types, Loaded
<1>2. Types'
  BY <1>1 DEF SessionInv, Types
<1>3. crossed' # "me" => Agrees(fetch, cookie, now)
  BY DEF SessionInv, Copies
<1>4. Copies'
  BY <1>1, <1>3 DEF SessionInv, Copies, None
<1> QED BY <1>1, <1>2, <1>4 DEF SessionInv, Begun, PromptOwned, Sent

LEMMA AdvanceStep ==
  ASSUME SessionInv, Advance
  PROVE  SessionInv'
<1> USE DEF Advance, history
<1>1. now \in Int /\ now' = now + 1 /\ now' \in 0..MaxTime /\ cookie \in Cookie
  BY SessionBounds DEF SessionInv, Types
<1>2. Types'
  BY <1>1 DEF SessionInv, Types
<1>3. Copies'
  <2>1. fetch # NoAnswer /\ crossed # "fetch" => Agrees(fetch, cookie, now')
    BY <1>1, TimePasses DEF SessionInv, Types, Copies
  <2>2. Loaded => me.answer \in Cookie
    BY DEF SessionInv, Types, Loaded
  <2> QED BY <1>1, <2>1, <2>2, TimePasses DEF SessionInv, Copies, Loaded
<1>4. Sent'
  <2>1. granted \in Int /\ Lifetime \in Int
    BY SessionBounds DEF SessionInv, Types
  <2> QED BY <1>1, <2>1 DEF SessionInv, Sent
<1> QED BY <1>2, <1>3, <1>4 DEF SessionInv, Begun, PromptOwned, Loaded

LEMMA TickStep ==
  ASSUME SessionInv, Tick
  PROVE  SessionInv'
<1> USE DEF Tick
<1>1. Loaded /\ cookie \in Cookie
  BY DEF SessionInv, Begun, Types
<1>2. /\ me'.answer = me.answer /\ me'.stale /\ Loaded'
      /\ me' \in [answer : Cookie \cup {NoAnswer}, stale : BOOLEAN]
      /\ fetch' \in Cookie /\ Agrees(fetch', cookie, now)
      /\ crossed' = GivenUp /\ crossed' # "fetch" /\ crossed' \in {None, "fetch", "me"}
  BY <1>1, InvalidateKeeps DEF SessionInv
<1>3. Types'
  BY <1>2, SessionBounds DEF SessionInv, Types, UserMode, ModeState, Modes
<1>4. Copies'
  BY <1>1, <1>2 DEF SessionInv, Copies, GivenUp
<1> QED BY <1>2, <1>3, <1>4 DEF SessionInv, Begun, PromptOwned, Sent

LEMMA ElevatedIsCookie ==
  ASSUME Types
  PROVE  /\ Elevated \in Cookie /\ Elevated.role = "user" /\ Elevated.mode = "admin"
         /\ Elevated.expires = now + Lifetime /\ Elevated.expires \in 0..(MaxTime + Lifetime)
         /\ Window(Elevated, Elevated.expires)
         /\ [mode |-> "admin", expires |-> Elevated.expires] \in ModeState
BY SessionBounds DEF Types, Elevated, Cookie, Roles, Modes, Window, ModeState

LEMMA ElevateStep ==
  ASSUME SessionInv, ElevateLands
  PROVE  SessionInv'
<1> USE DEF ElevateLands
<1>1. Loaded /\ Elevated \in Cookie
  BY ElevatedIsCookie DEF SessionInv, Begun
<1>2. /\ me'.answer = me.answer /\ me'.stale /\ Loaded'
      /\ me' \in [answer : Cookie \cup {NoAnswer}, stale : BOOLEAN]
      /\ fetch' \in Cookie /\ Agrees(fetch', Elevated, now)
      /\ crossed' # "fetch" /\ crossed' \in {None, "fetch", "me"}
  BY <1>1, InvalidateKeeps DEF SessionInv
<1>3. /\ switching = NoSwitch => switching' = NoSwitch
      /\ switching # NoSwitch =>
           /\ switching \in SwitchRec /\ switching' \in SwitchRec
           /\ switching'.sent \in {Elevated, switching.sent}
  <2>1. CASE prompt = "switch"
    <3>1. switching \in SwitchRec
      BY <2>1 DEF SessionInv, PromptOwned, Types
    <3>2. switching' = [switching EXCEPT !.sent = Elevated, !.phase = "again"]
      BY <2>1
    <3>3. switching' \in SwitchRec /\ switching'.sent = Elevated
      BY <1>1, <3>1, <3>2 DEF SwitchRec
    <3> QED BY <2>1, <3>1, <3>3, SentinelsApart
  <2>2. CASE prompt # "switch"
    BY <2>2 DEF SessionInv, Types
  <2> QED BY <2>1, <2>2
<1>4. Types'
  BY <1>1, <1>2, <1>3, ElevatedIsCookie DEF SessionInv, Types
<1>5. Copies'
  BY <1>1, <1>2, ElevatedIsCookie DEF SessionInv, Copies
<1>6. Sent'
  <2>1. /\ Window(Elevated, granted') /\ granted' = now + Lifetime /\ now' = now
        /\ cookie' = Elevated /\ granted <= granted' /\ granted' \in Int /\ granted \in Int
    BY ElevatedIsCookie, SessionBounds DEF SessionInv, Types, Sent
  <2>2. ASSUME switching' # NoSwitch PROVE Window(switching'.sent, granted')
    <3>1. switching # NoSwitch /\ Window(switching.sent, granted)
      BY <1>3, <2>2 DEF SessionInv, Sent
    <3>2. switching.sent.expires \in Int
      BY <1>3, <3>1, SessionBounds DEF SwitchRec, Cookie
    <3>3. Window(switching.sent, granted')
      BY <2>1, <3>1, <3>2 DEF Window
    <3> QED BY <1>3, <2>1, <3>1, <3>3
  <2> QED BY <2>1, <2>2 DEF Sent
<1>7. prompt' # "switch"
  BY DEF None
<1> QED BY <1>2, <1>4, <1>5, <1>6, <1>7 DEF SessionInv, Begun, PromptOwned

LEMMA DropStep ==
  ASSUME SessionInv, DropLands
  PROVE  SessionInv'
<1> USE DEF DropLands
<1>1. /\ Loaded /\ Dropped \in Cookie /\ UserMode \in ModeState
      /\ Dropped.role = "user" /\ Dropped.mode = "user" /\ Dropped.expires = 0
  BY SessionBounds DEF SessionInv, Begun, Dropped, Cookie, Roles, Modes, UserMode, ModeState
<1>2. /\ me'.answer = me.answer /\ me'.stale /\ Loaded'
      /\ me' \in [answer : Cookie \cup {NoAnswer}, stale : BOOLEAN]
      /\ fetch' \in Cookie /\ Agrees(fetch', Dropped, now)
      /\ crossed' # "fetch" /\ crossed' \in {None, "fetch", "me"}
  BY <1>1, InvalidateKeeps DEF SessionInv
<1>3. Types'
  BY <1>1, <1>2 DEF SessionInv, Types
<1>4. Copies'
  BY <1>1, <1>2 DEF SessionInv, Copies
<1>5. Sent'
  BY <1>1, SessionBounds DEF SessionInv, Sent, Window, Types
<1> QED BY <1>2, <1>3, <1>4, <1>5 DEF SessionInv, Begun, PromptOwned

LEMMA SwitchStep ==
  ASSUME SessionInv, SwitchLands
  PROVE  SessionInv'
<1> USE DEF SwitchLands
<1> DEFINE c == Reissued(switching.sent, switching.role)
<1>1. switching \in SwitchRec /\ switching # NoSwitch
  BY SentinelsApart DEF SessionInv, Types, Switching
<1>2. /\ c \in Cookie /\ c.mode = switching.sent.mode /\ c.expires = switching.sent.expires
      /\ cookie' = c
  BY <1>1, ReissuedIsCookie DEF SwitchRec
<1>3. /\ me' = [answer |-> UserResponse(c), stale |-> TRUE] /\ fetch' = fetch
      /\ UserResponse(c) \in Cookie /\ Agrees(UserResponse(c), c, now)
  BY <1>1, <1>2, AnswerAgrees DEF Seeded
<1>4. Loaded' /\ me'.answer = UserResponse(c) /\ me'.stale
  BY <1>3, SentinelsApart DEF Loaded
<1>5. Types'
  BY <1>2, <1>3 DEF SessionInv, Types, Seeded
<1>6. Copies'
  BY <1>2, <1>3, <1>4 DEF Copies, Seeded, None
<1>7. Sent'
  BY <1>1, <1>2 DEF SessionInv, Sent, Window
<1>8. PromptOwned'
  BY <1>1, SentinelsApart DEF SessionInv, PromptOwned, Switching
<1> QED BY <1>4, <1>5, <1>6, <1>7, <1>8 DEF SessionInv, Begun

(* The first request of a switch, and its refusal.                             *)
LEMMA PickRoleStep ==
  ASSUME SessionInv, NEW r \in AvailableRoles, PickRole(r)
  PROVE  SessionInv'
<1>1. r \in Roles
  BY DEF AvailableRoles
<1>2. switching' \in SwitchRec /\ switching'.sent = cookie
  BY <1>1 DEF PickRole, SessionInv, Types, SwitchRec
<1> QED BY <1>2, QuietStep DEF PickRole, history, SessionInv, Types, Begun, PromptOwned, Loaded

LEMMA SwitchLockedStep ==
  ASSUME SessionInv, SwitchLocked
  PROVE  SessionInv'
<1>1. switching \in SwitchRec /\ switching # NoSwitch
  BY SentinelsApart DEF SessionInv, Types, Switching, SwitchLocked
<1>2. /\ switching' \in SwitchRec /\ switching'.sent = switching.sent
      /\ switching'.phase = "waits" /\ switching' # NoSwitch
  BY <1>1, SentinelsApart DEF SwitchLocked, SwitchRec
<1>3. Begun' /\ PromptOwned'
  BY <1>1, <1>2 DEF SwitchLocked, SessionInv, Begun, PromptOwned, Loaded
<1> QED BY <1>1, <1>2, <1>3, QuietStep DEF SwitchLocked, SessionInv, Types, history

LEMMA DropSentStep ==
  ASSUME SessionInv, Drop
  PROVE  SessionInv'
BY QuietStep DEF Drop, history, SessionInv, Types, Begun, PromptOwned, Loaded

LEMMA VisitorStep ==
  ASSUME SessionInv,
         Start \/ Submit \/ Cancel \/ Rejected \/ PollRefused \/ ElevateFails
           \/ DropFails \/ SwitchFails \/ FetchFails
  PROVE  SessionInv'
<1> USE QuietStep DEF history, SessionInv, Types, Begun, PromptOwned, Loaded
<1>1. CASE Start
  BY <1>1 DEF Start
<1>2. CASE Submit
  BY <1>2 DEF Submit
<1>3. CASE Cancel
  BY <1>3 DEF Cancel, None
<1>4. CASE Rejected
  BY <1>4 DEF Rejected
<1>5. CASE PollRefused
  BY <1>5 DEF PollRefused
<1>6. CASE ElevateFails
  BY <1>6 DEF ElevateFails
<1>7. CASE DropFails
  BY <1>7 DEF DropFails
<1>8. CASE SwitchFails
  BY <1>8 DEF SwitchFails, Switching
<1>9. CASE FetchFails
  BY <1>9 DEF FetchFails
<1> QED BY <1>1, <1>2, <1>3, <1>4, <1>5, <1>6, <1>7, <1>8, <1>9

LEMMA VisitStep ==
  ASSUME SessionInv, NEW p, Visit(p)
  PROVE  SessionInv'
<1>1. cookie \in Cookie /\ UserResponse(cookie) \in Cookie /\ Agrees(UserResponse(cookie), cookie, now)
  BY AnswerAgrees DEF SessionInv, Types
<1> QED BY <1>1 DEF Visit, SessionInv, Types, Begun, PromptOwned, Copies, Sent, Loaded, Idle, history

LEMMA SessionInvNext == ASSUME SessionInv, [Next]_vars PROVE SessionInv'
<1>1. CASE Render
  BY <1>1, RenderStep
<1>2. CASE Visitor
  BY <1>2, VisitStep, VisitorStep, DropSentStep, PickRoleStep DEF Visitor
<1>3. CASE Answers
  BY <1>3, FetchLandsStep, ElevateStep, VisitorStep, DropStep, SwitchStep, SwitchLockedStep
     DEF Answers
<1>4. CASE Failures \/ PollRefused
  BY <1>4, VisitorStep DEF Failures
<1>5. CASE Advance
  BY <1>5, AdvanceStep
<1>6. CASE Tick
  BY <1>6, TickStep
<1>7. CASE UNCHANGED vars
  BY <1>7 DEF vars, history, SessionInv, Types, Begun, PromptOwned, Copies, Sent, Loaded
<1> QED BY <1>1, <1>2, <1>3, <1>4, <1>5, <1>6, <1>7 DEF Next

LEMMA SessionStays == Spec => []SessionInv
BY SessionInvInit, SessionInvNext, PTL DEF Spec

(* ShowsTheTruth: at rest, with no expiry to be noticed and no answer that a   *)
(* role switch overtook, the tab shows the mode and the role of the cookie     *)
(* (AuthModeHydrator, useSwitchActiveRole, ElevationProvider).                 *)
THEOREM TabShowsTheTruth == Spec => []ShowsTheTruth
<1>1. SessionInv => ShowsTheTruth
  <2> SUFFICES ASSUME SessionInv, AtRest, ~TickDue, crossed # "me"
               PROVE  local.mode = currentMode(cookie) /\ me.answer.role = cookie.role
    BY DEF ShowsTheTruth, SettlesOnTruth
  <2>1. Agrees(me.answer, cookie, now) /\ Follows(local, me.answer, now)
    BY DEF SessionInv, Copies, AtRest, Idle
  <2>2. cookie \in Cookie
    BY DEF SessionInv, Types
  <2> QED
    BY <2>1, <2>2, SessionBounds
       DEF Agrees, Follows, Past, TickDue, Expired, currentMode, UserMode, Cookie, Modes
<1> QED BY <1>1, SessionStays, PTL

(* A page of the admin part that admits a role admits no plain user.           *)
LEMMA AdmittedHasRole ==
  ASSUME NEW p \in {System, OwnCluster}, NEW r \in Roles, ProtectedRoute(p, r) = p
  PROVE  r # "user"
<1>1. Capabilities("user") = {}
  BY DEF Capabilities
<1>2. onAdmin(p) /\ p # <<"admin">> /\ p # Files
  BY DEF onAdmin, System, OwnCluster, Files
<1>3. ProtectedRoute(p, "user") = Files
  BY <1>1, <1>2 DEF ProtectedRoute
<1> QED BY <1>2, <1>3

(* AdmittedStays: a visitor whose cookie admits the page is never sent away    *)
(* from it by AppShell or ProtectedRoute.                                      *)
THEOREM VisitorStays == Spec => AdmittedStays
<1>1. SessionInv /\ [Next]_vars =>
        \/ path' = path \/ path \notin {System, OwnCluster}
        \/ rendered = {} \/ crossed = "me"
        \/ currentMode(cookie) # "admin"
        \/ ProtectedRoute(path, cookie.role) # path
  <2> SUFFICES ASSUME SessionInv, [Next]_vars, path \in {System, OwnCluster}, rendered # {}, crossed # "me",
                      currentMode(cookie) = "admin", ProtectedRoute(path, cookie.role) = path
               PROVE  path' = path
    OBVIOUS
  <2>1. CASE Render
    <3>1. cookie \in Cookie /\ cookie.role \in Roles
      BY DEF SessionInv, Types, Cookie
    <3>2. Loaded /\ Agrees(me.answer, cookie, now)
      BY <3>1, AdmittedHasRole DEF SessionInv, Copies
    <3>3. me.answer.mode = "admin" /\ me.answer.role = cookie.role
      BY <3>1, <3>2 DEF Agrees, Past, currentMode, Expired
    <3>4. role = cookie.role /\ AppShell(path) = path
      BY <3>2, <3>3 DEF role, AppShell
    <3> QED BY <2>1, <3>2, <3>4 DEF Render, Framed
  <2>2. CASE Advance \/ UNCHANGED vars
    BY <2>2 DEF Advance, vars
  <2>3. ~Idle
    BY DEF Idle
  <2>4. ~Visitor /\ ~Answers /\ ~Failures /\ ~Tick /\ ~PollRefused
    BY <2>3 DEF Visitor, Visit, Start, Submit, Cancel, Drop, PickRole, Answers, FetchLands,
       ElevateLands, Rejected, DropLands, SwitchLands, SwitchLocked, Failures,
       FetchFails, ElevateFails, DropFails, SwitchFails, Tick, PollRefused
  <2> QED BY <2>1, <2>2, <2>4 DEF Next
<1> QED BY <1>1, SessionStays, PTL DEF AdmittedStays, Spec

(* AdminIsRecent: admin mode lasts no longer than the last elevation bought,   *)
(* whatever old cookies a role switch brings back (switchActiveRole,           *)
(* IssueTokenWithMode).                                                        *)
THEOREM AdminNeedsPassword == Spec => []AdminIsRecent
<1>1. SessionInv => AdminIsRecent
  <2> SUFFICES ASSUME SessionInv, currentMode(cookie) = "admin"
               PROVE  now < granted
    BY DEF AdminIsRecent
  <2>1. /\ cookie.mode = "admin" /\ cookie.expires > 0 /\ ~Expired(cookie)
        /\ cookie.expires <= granted
    BY DEF SessionInv, Sent, Window, currentMode
  <2>2. now \in Int /\ granted \in Int /\ cookie.expires \in Int
    BY SessionBounds DEF SessionInv, Types, Cookie
  <2> QED BY <2>1, <2>2 DEF Expired
<1> QED BY <1>1, SessionStays, PTL

(* The table of guarded routes: patterns, their wildcards, and the rules of   *)
(* two literal segments.                                                       *)
Pattern(i) == ROUTE_CAPABILITIES[i].pattern
Segs(i) == {k \in 1..Len(Pattern(i)) : Pattern(i)[k] = Seg}
Short == {1, 2, 3, 4, 6, 9, 10, 11, 12, 13, 14, 15, 16}

(* What resolveRequiredCapabilities reads of the table.                        *)
LEMMA Rules ==
  /\ Len(ROUTE_CAPABILITIES) = 25
  /\ \A i \in Short : Pattern(i) = <<"admin", Pattern(i)[2]>> /\ Pattern(i)[2] # Seg
  /\ \A i \in {5, 7, 17} :
       Pattern(i) = <<"admin", Pattern(i)[2], "new">> /\ Pattern(i)[2] # Seg
  /\ Pattern(8) = <<"admin", "service-accounts", Seg>>
  /\ Pattern(17)[2] = "clusters" /\ Pattern(19) = <<"admin", "clusters", Seg>>
  /\ \A i \in {18, 24, 25} :
       Pattern(i) = <<"admin", "clusters", Seg, Pattern(i)[4]>> /\ Pattern(i)[4] # Seg
  /\ \A i \in {20, 23} :
       Pattern(i) = <<"admin", "clusters", Seg, Pattern(i)[4], Seg>> /\ Pattern(i)[4] # Seg
  /\ Len(Pattern(21)) = 7 /\ Len(Pattern(22)) = 8
BY DEF ROUTE_CAPABILITIES, Rule, Pattern, Seg, Short

(* Patterns by length: only equally long ones match the same path.             *)
LEMMA Lengths ==
  ASSUME NEW i \in 1..25
  PROVE  /\ Len(Pattern(i)) = 2 <=> i \in Short
         /\ Len(Pattern(i)) = 3 <=> i \in {5, 7, 8, 17, 19}
         /\ Len(Pattern(i)) = 4 <=> i \in {18, 24, 25}
         /\ Len(Pattern(i)) = 5 <=> i \in {20, 23}
         /\ Len(Pattern(i)) = 7 <=> i = 21
         /\ Len(Pattern(i)) = 8 <=> i = 22
<1>1. \/ i \in Short \/ i \in {5, 7, 17} \/ i = 8 \/ i = 19
      \/ i \in {18, 24, 25} \/ i \in {20, 23} \/ i = 21 \/ i = 22
  BY DEF Short
<1>2. /\ i \in Short => Len(Pattern(i)) = 2
      /\ i \in {5, 7, 8, 17, 19} => Len(Pattern(i)) = 3
      /\ i \in {18, 24, 25} => Len(Pattern(i)) = 4
      /\ i \in {20, 23} => Len(Pattern(i)) = 5
  BY Rules
<1> QED BY <1>1, <1>2, Rules

(* Where the wildcards of a pattern are.                                       *)
LEMMA Wildcard ==
  /\ \A i \in Short \cup {5, 7, 17} : Segs(i) = {}
  /\ \A i \in {8, 18, 19, 24, 25} : Segs(i) = {3}
  /\ \A i \in {20, 23} : Segs(i) = {3, 5}
<1>1. ASSUME NEW i \in Short PROVE Segs(i) = {}
  <2>1. Pattern(i) = <<"admin", Pattern(i)[2]>> /\ Pattern(i)[2] # Seg /\ Len(Pattern(i)) = 2
    BY Rules
  <2> QED BY <2>1 DEF Segs, Seg
<1>2. ASSUME NEW i \in {5, 7, 17} PROVE Segs(i) = {}
  <2>1. /\ Pattern(i)[1] = "admin" /\ Pattern(i)[2] # Seg /\ Pattern(i)[3] = "new" /\ Len(Pattern(i)) = 3
    BY Rules
  <2> QED BY <2>1 DEF Segs, Seg
<1>3. ASSUME NEW i \in {8, 19} PROVE Segs(i) = {3}
  <2>1. /\ Pattern(i)[1] = "admin" /\ Pattern(i)[2] # Seg /\ Pattern(i)[3] = Seg /\ Len(Pattern(i)) = 3
    BY Rules DEF Seg
  <2> QED BY <2>1 DEF Segs, Seg
<1>4. ASSUME NEW i \in {18, 24, 25} PROVE Segs(i) = {3}
  <2>1. /\ Pattern(i)[1] = "admin" /\ Pattern(i)[2] = "clusters" /\ Pattern(i)[3] = Seg
        /\ Pattern(i)[4] # Seg /\ Len(Pattern(i)) = 4
    BY Rules
  <2> QED BY <2>1 DEF Segs, Seg
<1>5. ASSUME NEW i \in {20, 23} PROVE Segs(i) = {3, 5}
  <2>1. /\ Pattern(i)[1] = "admin" /\ Pattern(i)[2] = "clusters" /\ Pattern(i)[3] = Seg
        /\ Pattern(i)[4] # Seg /\ Pattern(i)[5] = Seg /\ Len(Pattern(i)) = 5
    BY Rules
  <2> QED BY <2>1 DEF Segs, Seg
<1> QED BY <1>1, <1>2, <1>3, <1>4, <1>5

(* Of two rules that match a path, the one declared first has no wildcard, or  *)
(* its wildcards are at the same places: the order of ROUTE_CAPABILITIES never *)
(* puts a looser rule before a stricter one.                                   *)
LEMMA LaterIsNoMoreLiteral ==
  ASSUME NEW p, NEW i \in 1..25, NEW j \in 1..25, j < i,
         matchPattern(p, Pattern(i)), matchPattern(p, Pattern(j))
  PROVE  Segs(j) = {} \/ Segs(j) = Segs(i)
<1>1. Len(Pattern(i)) = Len(Pattern(j))
  BY DEF matchPattern
<1>2. ~(j = 8 /\ i = 17)
  <2> SUFFICES ASSUME j = 8, i = 17 PROVE FALSE
    OBVIOUS
  <2>1. /\ Len(Pattern(i)) = 3 /\ Pattern(i)[2] = "clusters" 
        /\ Len(Pattern(j)) = 3 /\ Pattern(j)[2] = "service-accounts" /\ 2 \in 1..3
    BY Rules
  <2>2. p[2] = "clusters" /\ p[2] = "service-accounts"
    BY <2>1 DEF matchPattern, Seg
  <2> QED BY <2>2
<1>3. \/ j \in Short \/ j \in {5, 7, 17}
      \/ j = 8 /\ i = 19
      \/ j \in {18, 24, 25} /\ i \in {18, 24, 25}
      \/ j \in {20, 23} /\ i \in {20, 23}
  <2>1. \/ j \in Short \/ j \in {5, 7, 8, 17, 19}
        \/ j \in {18, 24, 25} \/ j \in {20, 23} \/ j = 21 \/ j = 22
    BY DEF Short
  <2>2. CASE j \in {5, 7, 8, 17, 19}
    <3>1. Len(Pattern(j)) = 3
      BY <2>2, Lengths
    <3>2. i \in {5, 7, 8, 17, 19}
      BY <3>1, <1>1, Lengths
    <3>3. j # 19 /\ (j = 8 => i = 19)
      BY <2>2, <3>2, <1>2
    <3> QED BY <2>2, <3>3
  <2>3. CASE j \in {18, 24, 25}
    <3>1. Len(Pattern(j)) = 4
      BY <2>3, Lengths
    <3>2. i \in {18, 24, 25}
      BY <3>1, <1>1, Lengths
    <3> QED BY <2>3, <3>2
  <2>4. CASE j \in {20, 23}
    <3>1. Len(Pattern(j)) = 5
      BY <2>4, Lengths
    <3>2. i \in {20, 23}
      BY <3>1, <1>1, Lengths
    <3> QED BY <2>4, <3>2
  <2>5. CASE j = 21
    <3>1. Len(Pattern(i)) = 7
      BY <1>1, <2>5, Rules
    <3> QED BY <2>5, <3>1, Lengths
  <2>6. CASE j = 22
    <3>1. Len(Pattern(i)) = 8
      BY <1>1, <2>6, Rules
    <3> QED BY <2>6, <3>1, Lengths
  <2> QED BY <2>1, <2>2, <2>3, <2>4, <2>5, <2>6
<1>4. CASE j \in Short \/ j \in {5, 7, 17}
  BY <1>4, Wildcard
<1>5. CASE j = 8 /\ i = 19
  BY <1>5, Wildcard
<1>6. CASE j \in {18, 24, 25} /\ i \in {18, 24, 25}
  <2>1. Segs(i) = {3} /\ Segs(j) = {3}
    BY <1>6, Wildcard
  <2> QED BY <2>1
<1>7. CASE j \in {20, 23} /\ i \in {20, 23}
  <2>1. Segs(i) = {3, 5} /\ Segs(j) = {3, 5}
    BY <1>7, Wildcard
  <2> QED BY <2>1
<1> QED BY <1>3, <1>4, <1>5, <1>6, <1>7

(* Wildcards counts the places of Segs.                                        *)
LEMMA WildcardsCount ==
  ASSUME NEW i \in 1..25
  PROVE  Wildcards(i) = Cardinality(Segs(i)) /\ Wildcards(i) \in Nat
<1>1. Len(Pattern(i)) \in Nat
  <2>1. \/ i \in Short \/ i \in {5, 7, 17} \/ i = 8 \/ i = 19
        \/ i \in {18, 24, 25} \/ i \in {20, 23} \/ i = 21 \/ i = 22
    BY DEF Short
  <2> QED BY <2>1, Rules
<1>2. IsFiniteSet(1..Len(Pattern(i)))
  BY <1>1, FS_Interval
<1>3. IsFiniteSet(Segs(i))
  BY <1>2, FS_Subset DEF Segs
<1> QED BY <1>3, FS_CardinalityType DEF Wildcards, Segs, Pattern

(* A matching rule with the fewest wildcards is the one that is found.         *)
LEMMA RouteLookup ==
  ASSUME NEW p, NEW i \in Matching(p), \A j \in Matching(p) \ {i} : Wildcards(i) < Wildcards(j)
  PROVE  resolveRequiredCapabilities(p) = {ROUTE_CAPABILITIES[i].needs}
<1>1. Matching(p) \subseteq 1..25 /\ \A j \in Matching(p) : matchPattern(p, Pattern(j))
  BY Rules DEF Matching, Pattern
<1>2. \A j \in Matching(p) : Len(Pattern(j)) = Len(Pattern(i))
  BY <1>1 DEF matchPattern
<1>3. ASSUME NEW j \in Matching(p), j < i PROVE FALSE
  <2>1. Wildcards(i) < Wildcards(j) /\ i \in 1..25 /\ j \in 1..25
    BY <1>1, <1>3
  <2>2. Segs(j) = {} \/ Segs(j) = Segs(i)
    BY <1>1, <1>3, LaterIsNoMoreLiteral
  <2>3. Wildcards(j) = 0 \/ Wildcards(j) = Wildcards(i)
    BY <2>1, <2>2, WildcardsCount, FS_EmptySet
  <2> QED BY <2>1, <2>3, WildcardsCount
<1> DEFINE Longer(j, k) == Len(ROUTE_CAPABILITIES[j].pattern) > Len(ROUTE_CAPABILITIES[k].pattern)
           best == {k \in Matching(p) :
                      \A j \in Matching(p) \ {k} : Longer(k, j) \/ (~Longer(j, k) /\ k < j)}
<1>4. \A j, k \in Matching(p) : ~Longer(j, k)
  <2>1. Len(Pattern(i)) \in Nat
    BY <1>1, Lengths, Rules
  <2> QED BY <1>2, <2>1 DEF Pattern
<1>5. \A j \in Matching(p) \ {i} : i < j
  BY <1>1, <1>3
<1>6. best = {i}
  <2> HIDE DEF Longer
  <2>1. Matching(p) \subseteq Int /\ i \in best
    BY <1>1, <1>4, <1>5
  <2>2. ASSUME NEW k \in best, k # i PROVE FALSE
    <3>1. k \in Matching(p) \ {i} /\ i \in Matching(p) \ {k}
      BY <2>2
    <3>2. ~Longer(k, i) /\ i < k
      BY <1>4, <1>5, <3>1
    <3>3. k < i
      BY <1>4, <3>1, <2>2
    <3> QED BY <2>1, <3>1, <3>2, <3>3
  <2> QED BY <2>1, <2>2
<1>7. resolveRequiredCapabilities(p) = {ROUTE_CAPABILITIES[k].needs : k \in best}
  BY DEF resolveRequiredCapabilities
<1> HIDE DEF best
<1> QED BY <1>6, <1>7

(* LiteralRouteWins: a page is guarded by the most literal rule that matches   *)
(* its path, for every path whatever (resolveRequiredCapabilities sorts by     *)
(* length and takes the first match).                                          *)
THEOREM MoreLiteralRuleWins == Spec => []LiteralRouteWins
<1>1. LiteralRouteWins
  BY RouteLookup DEF LiteralRouteWins
<1> QED BY <1>1, PTL
================================================================================
