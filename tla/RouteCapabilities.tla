--------------------------- MODULE RouteCapabilities ---------------------------
(***************************************************************************)
(* Which page a role may open.  The capabilities of a role come from the   *)
(* server (internal/auth/capabilities.go) and reach the browser with       *)
(* /auth/me; route-capabilities.ts names the capability each admin page    *)
(* needs, ProtectedRoute sends the visitor elsewhere when it is missing.   *)
(*                                                                         *)
(* A path is the sequence of its segments.  "own" and "other" stand for    *)
(* cluster ids, "bid" and "kid" for ids inside a cluster; "new", "edit",   *)
(* "buckets" and the like are the literal words of the routes.  Only the   *)
(* capabilities that some page asks for are listed.                        *)
(***************************************************************************)
EXTENDS Sequences, Integers

Roles == {"user", "cluster-admin", "ui-admin"}

Capabilities(role) ==
    CASE role = "ui-admin" ->
            {"platform.system.read", "platform.audit.read", "platform.policies.list",
             "platform.users.list", "platform.users.create",
             "platform.service-accounts.list", "platform.service-accounts.write",
             "platform.skins.read", "platform.oidc.read", "platform.onboarding.read",
             "cluster.buckets.aggregate", "cluster.usage.aggregate",
             "cluster.wiring.list", "cluster.wiring.create", "cluster.wiring.update",
             "cluster.wiring.read"}
      [] role = "cluster-admin" ->
            {"cluster.wiring.read", "cluster.contents.read",
             "cluster.buckets.lifecycle.write", "cluster.layout.write",
             "cluster.scrub.write"}
      [] OTHER -> {}

\* A segment of a pattern that stands for any one segment.
Seg == "$seg"

Rule(pattern, capability) == [pattern |-> pattern, needs |-> capability]

\* In the order of declaration, which decides between equally long patterns.
ROUTE_CAPABILITIES == <<
    Rule(<<"admin", "system">>, "platform.system.read"),
    Rule(<<"admin", "audit">>, "platform.audit.read"),
    Rule(<<"admin", "policies">>, "platform.policies.list"),
    Rule(<<"admin", "users">>, "platform.users.list"),
    Rule(<<"admin", "users", "new">>, "platform.users.create"),
    Rule(<<"admin", "service-accounts">>, "platform.service-accounts.list"),
    Rule(<<"admin", "service-accounts", "new">>, "platform.service-accounts.write"),
    Rule(<<"admin", "service-accounts", Seg>>, "platform.service-accounts.list"),
    Rule(<<"admin", "skins">>, "platform.skins.read"),
    Rule(<<"admin", "oidc">>, "platform.oidc.read"),
    Rule(<<"admin", "onboarding">>, "platform.onboarding.read"),
    Rule(<<"admin", "first-run">>, "platform.onboarding.read"),
    Rule(<<"admin", "buckets">>, "cluster.buckets.aggregate"),
    Rule(<<"admin", "usage">>, "cluster.usage.aggregate"),
    Rule(<<"admin", "migrate">>, "cluster.buckets.aggregate"),
    Rule(<<"admin", "clusters">>, "cluster.wiring.list"),
    Rule(<<"admin", "clusters", "new">>, "cluster.wiring.create"),
    Rule(<<"admin", "clusters", Seg, "edit">>, "cluster.wiring.update"),
    Rule(<<"admin", "clusters", Seg>>, "cluster.wiring.read"),
    Rule(<<"admin", "clusters", Seg, "buckets", Seg>>, "cluster.contents.read"),
    Rule(<<"admin", "clusters", Seg, "buckets", Seg, "lifecycle", "new">>,
         "cluster.buckets.lifecycle.write"),
    Rule(<<"admin", "clusters", Seg, "buckets", Seg, "lifecycle", Seg, "edit">>,
         "cluster.buckets.lifecycle.write"),
    Rule(<<"admin", "clusters", Seg, "keys", Seg>>, "cluster.contents.read"),
    Rule(<<"admin", "clusters", Seg, "layout">>, "cluster.layout.write"),
    Rule(<<"admin", "clusters", Seg, "scrub">>, "cluster.scrub.write")>>

matchPattern(path, pattern) ==
    /\ Len(path) = Len(pattern)
    /\ \A i \in 1..Len(pattern) : pattern[i] \in {Seg, path[i]}

Matching(path) ==
    {i \in 1..Len(ROUTE_CAPABILITIES) : matchPattern(path, ROUTE_CAPABILITIES[i].pattern)}

(* Mutant: len >= bestLen, so that the last of the longest is kept.        *)
LastLongest(path) ==
    LET Longer(i, j) == Len(ROUTE_CAPABILITIES[i].pattern)
                            > Len(ROUTE_CAPABILITIES[j].pattern)
        best == {i \in Matching(path) :
                    \A j \in Matching(path) \ {i} : Longer(i, j) \/ (~Longer(j, i) /\ i > j)}
    IN {ROUTE_CAPABILITIES[i].needs : i \in best}

\* The first declared of the longest patterns that match; unmapped is {}.
resolveRequiredCapabilities(path) ==
    LET Longer(i, j) == Len(ROUTE_CAPABILITIES[i].pattern)
                            > Len(ROUTE_CAPABILITIES[j].pattern)
        best == {i \in Matching(path) :
                    \A j \in Matching(path) \ {i} : Longer(i, j) \/ (~Longer(j, i) /\ i < j)}
    IN {ROUTE_CAPABILITIES[i].needs : i \in best}

-----------------------------------------------------------------------------
Files == <<"files">>
System == <<"admin", "system">>
Clusters == <<"admin", "clusters">>
OwnCluster == <<"admin", "clusters", "own">>
OtherCluster == <<"admin", "clusters", "other">>

onAdmin(path) == path[1] = "admin"

AnyAdmin == {"platform.system.read", "cluster.wiring.list", "cluster.wiring.read",
             "cluster.contents.read"}

\* Where /admin itself leads.
resolveAdminLanding(role) ==
    CASE "cluster.wiring.list" \in Capabilities(role) -> Clusters
      [] "platform.system.read" \in Capabilities(role) -> System
      [] role = "cluster-admin" /\ "cluster.contents.read" \in Capabilities(role) -> OwnCluster
      [] OTHER -> Files

\* A cluster admin is kept to the one cluster of the role.
Foreign(path) == /\ path[1] = "admin"
                 /\ Len(path) >= 2 /\ path[2] = "clusters"
                 /\ Len(path) = 2 \/ path[3] \notin {"new", "own"}

\* The page a visitor of path is sent to: path itself when it may stay.
ProtectedRoute(path, role) ==
    LET needs == resolveRequiredCapabilities(path)
    IN CASE ~onAdmin(path) -> path
         [] path = <<"admin">> -> resolveAdminLanding(role)
         [] path # <<"admin">> /\ role = "cluster-admin" /\ Foreign(path) -> OwnCluster
         [] OTHER -> IF (IF needs = {} THEN AnyAdmin ELSE needs) \cap Capabilities(role) = {}
                     THEN Files ELSE path
================================================================================
