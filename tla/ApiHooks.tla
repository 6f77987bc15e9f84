------------------------------ MODULE ApiHooks ------------------------------
(***************************************************************************)
(* The React Query hooks of shared/api/queries.ts and                      *)
(* shared/api/mutations.ts, as data: one record per hook.                  *)
(*                                                                         *)
(* A query names its cache key, the facts of the server its answer         *)
(* depends on, how long a cached answer is trusted (staleTime) and         *)
(* whether it is fetched again on a timer (refetchInterval).  A mutation   *)
(* names the facts its handler changes, the key prefixes its onSuccess     *)
(* invalidates, the keys it removes from the cache, and what kind of       *)
(* request it is.  Identifiers inside a key ("cid", "bid", "rid", "id",    *)
(* "key", "vid") stand for one cluster, bucket, region, record, object     *)
(* and version: the model follows one of each.  Transport, decoding and    *)
(* error texts of the hooks are left out; that a request may fail is part  *)
(* of the machine in QueryCache.                                           *)
(*                                                                         *)
(* The facts a query reads are those its handler goes through.  Whatever   *)
(* it asks of a cluster it reaches through the stored connection, so it    *)
(* reads "connections" as well, and a bucket is answered with the number   *)
(* and the size of its objects.  "names" are the aliases of a bucket where *)
(* an answer about something else shows them.  Who may read a fact, which  *)
(* roles and modes decide, is the subject of BrowserSession.               *)
(***************************************************************************)
EXTENDS Sequences

\* staleTime: 0 is never trusted, Infinity is trusted for the life of the tab.
Trusts == {"never", "a while", "forever"}
\* refetchInterval: none, a constant, or only while a cached job is running.
Polls == {"no", "always", "while running"}
\* "mint" answers with a secret the server shows only once; a request that
\* "triggers" hands work to a background engine, whose effect comes later.
Kinds == {"create", "mint", "change", "delete", "trigger", "ask"}

Query(key, reads, trusts, polls) ==
    [key |-> key, reads |-> reads, trusts |-> trusts, polls |-> polls,
     onMount |-> TRUE]

Mutation(kind, writes, invalidates) ==
    [kind |-> kind, writes |-> writes \cup {"audit"}, invalidates |-> invalidates,
     removes |-> {}, twoPhase |-> FALSE, lands |-> "stay"]

\* What a handler does is recorded in the audit log, but for a few of them.
Unrecorded(mutation) == [mutation EXCEPT !.writes = @ \ {"audit"}]

Removing(mutation, keys) == [mutation EXCEPT !.removes = keys]
\* Deletes that first POST _arm-delete and send its token with the DELETE.
Armed(mutation) == [mutation EXCEPT !.twoPhase = TRUE]
\* Mutations whose onSuccess navigates, whatever the page that started them.
Landing(mutation, page) == [mutation EXCEPT !.lands = page]

-----------------------------------------------------------------------------
\* The facts a locked cluster keeps from its readers are the cluster's own.
Cluster == <<"admin", "clusters", "cid">>
ClusterBucket == Cluster \o <<"buckets", "bid">>
Region == <<"user", "regions", "rid">>
RegionBucket == Region \o <<"buckets", "bid">>

(***************************************************************************)
(* Queries: the static catalogue and the cluster administration.           *)
(***************************************************************************)
useDriverDefaults ==
    Query(<<"system", "driver-defaults">>, {"driver defaults"}, "forever", "no")
useVersion == Query(<<"version">>, {"build"}, "forever", "no")
useCapabilities == Query(<<"capabilities">>, {"driver capabilities"}, "never", "no")
useNodes == Query(Cluster \o <<"nodes">>, {"nodes", "connections"}, "a while", "always")
useLayout == Query(Cluster \o <<"layout">>, {"layout", "connections"}, "a while", "always")
useBuckets ==
    Query(<<"admin", "buckets">>, {"buckets", "objects", "connections"}, "a while", "always")
useClusterBuckets ==
    Query(Cluster \o <<"buckets">>, {"buckets", "objects", "connections"}, "a while", "no")
useClusterKeys == Query(Cluster \o <<"keys">>, {"keys", "connections"}, "a while", "no")
useBucket == Query(ClusterBucket, {"buckets", "objects", "grants", "connections"}, "a while", "no")
useKey ==
    Query(Cluster \o <<"keys", "id">>, {"keys", "grants", "names", "connections"}, "a while", "no")
useListClusters ==
    Query(<<"admin", "clusters">>, {"connections"}, "a while", "always")
useGetCluster == Query(Cluster, {"connections"}, "a while", "no")
useTestClusterQuery ==
    [Query(Cluster \o <<"_test">>, {"cluster health", "connections"}, "a while", "no")
        EXCEPT !.onMount = FALSE]
useBucketLifecycle ==
    Query(ClusterBucket \o <<"lifecycle">>, {"lifecycle", "connections"}, "a while", "no")
useClusterAdmins ==
    Query(Cluster \o <<"admins">>, {"assignments", "users", "connections"}, "a while", "no")
useClusterScrub == Query(Cluster \o <<"scrub">>, {"scrub", "connections"}, "never", "always")
useClusterLockStatus ==
    Query(Cluster \o <<"lock-status">>, {"lock", "secret holders", "connections"},
          "a while", "always")

(***************************************************************************)
(* Queries: the host.                                                      *)
(***************************************************************************)
useOrgCapabilities ==
    Query(<<"org-capabilities">>, {"org capabilities", "skin"}, "never", "no")
useOnboardingState ==
    Query(<<"admin", "onboarding", "state">>, {"onboarding", "connections", "users"},
          "a while", "no")
usePolicies ==
    Query(<<"admin", "policies">>, {"roles", "assignments"}, "a while", "no")
useOIDCGroupMappings ==
    Query(<<"admin", "oidc-group-mappings">>, {"oidc mappings"}, "a while", "no")
\* Added up from what every cluster answers at that moment.
useUsageOverview ==
    Query(<<"admin", "usage", "overview">>, {"buckets", "objects", "keys", "connections"},
          "a while", "always")
\* Read back from the samples of a background collector.
useUsageSeries ==
    Query(<<"admin", "usage", "series", "cid", "bid", "days">>, {"samples", "connections"},
          "a while", "no")
useAudit == Query(<<"admin", "audit", "filter">>, {"audit"}, "a while", "no")
useInvites == Query(<<"admin", "invites">>, {"invites"}, "a while", "no")
useServiceAccounts ==
    Query(<<"admin", "service-accounts">>, {"service accounts"}, "a while", "no")
useServiceAccount ==
    Query(<<"admin", "service-accounts", "id">>, {"service accounts"}, "a while", "no")
useActiveSkin == Query(<<"skin", "active">>, {"skin"}, "a while", "no")
useSkinRegistry == Query(<<"skin", "registry">>, {"skins"}, "a while", "no")
useGatewaysRegistry ==
    Query(<<"admin", "gateways">>, {"gateways"}, "a while", "always")

(***************************************************************************)
(* Queries: a user's regions, their buckets and objects.                   *)
(***************************************************************************)
useUserRegions == Query(<<"user", "regions">>, {"regions"}, "a while", "always")
useUserRegion == Query(Region, {"regions"}, "a while", "no")
\* Of a Garage the buckets are those of an admin's connection to the same
\* endpoint that the key can reach.
useUserRegionBuckets ==
    Query(Region \o <<"buckets">>, {"regions", "buckets", "objects", "grants", "connections"},
          "a while", "no")
useUserRegionObjectsInfinite ==
    Query(RegionBucket \o <<"objects-inf", "prefix">>, {"objects", "regions"}, "a while", "no")
useBucketVersioning ==
    Query(RegionBucket \o <<"versioning">>, {"versioning", "regions"}, "a while", "no")
useObjectVersions ==
    Query(RegionBucket \o <<"object-versions", "key">>, {"objects", "regions"}, "a while", "no")
useObjectLockConfig ==
    Query(RegionBucket \o <<"object-lock">>, {"object lock", "regions"}, "a while", "no")
useObjectRetention ==
    Query(RegionBucket \o <<"object-retention", "key", "vid">>, {"retention", "regions"},
          "a while", "no")
useObjectLegalHold ==
    Query(RegionBucket \o <<"object-legal-hold", "key", "vid">>, {"legal hold", "regions"},
          "a while", "no")
useBucketEncryption ==
    Query(RegionBucket \o <<"encryption">>, {"encryption", "regions"}, "a while", "no")

(***************************************************************************)
(* Queries: shares, syncs, backups, federated buckets, webhooks.           *)
(***************************************************************************)
useUserShares ==
    Query(<<"user", "shares">>, {"shares", "names", "connections"}, "a while", "always")
\* The public page runs in a visitor's browser, which sees no mutation of its
\* owner's; what it does itself is unlock the share.
useShareInfo == Query(<<"share", "token", "info">>, {"share session"}, "a while", "no")
useShareList ==
    Query(<<"share", "token", "list", "prefix">>, {"share session"}, "a while", "no")
useUserSyncs == Query(<<"user", "syncs">>, {"syncs"}, "a while", "while running")
useUserSync == Query(<<"user", "syncs", "id">>, {"syncs"}, "a while", "while running")
useUserBackups == Query(<<"user", "backups">>, {"backups"}, "a while", "always")
useUserBackup == Query(<<"user", "backups", "id">>, {"backups"}, "a while", "always")
useUserBackupSnapshots ==
    Query(<<"user", "backups", "id", "snapshots">>, {"snapshots"}, "a while", "always")
useFederations ==
    Query(<<"user", "federations">>, {"federations"}, "a while", "always")
useFederation ==
    Query(<<"user", "federations", "id">>, {"federations"}, "a while", "always")
useFederationByTarget ==
    Query(<<"federation-by-target", "rid", "bid">>, {"federations"}, "a while", "no")
useWebhooks == Query(<<"user", "webhooks">>, {"webhooks"}, "a while", "always")
useWebhook == Query(<<"user", "webhooks", "id">>, {"webhooks"}, "a while", "always")

-----------------------------------------------------------------------------
(***************************************************************************)
(* Mutations: cluster administration.                                      *)
(***************************************************************************)
useCreateBucket ==
    Landing(Mutation("create", {"buckets"}, {<<"admin", "buckets">>, Cluster \o <<"buckets">>}),
            "bucket detail")
useUpdateBucket ==
    Mutation("change", {"buckets", "names"}, {<<"admin", "buckets">>, ClusterBucket})
useDeleteBucket ==
    Landing(Armed(Mutation("delete", {"buckets", "grants", "names"},
                           {<<"admin", "buckets">>, ClusterBucket})),
            "home")
useCreateKey == Mutation("mint", {"keys"}, {Cluster \o <<"keys">>})
useUpdateKeyPermissions ==
    Mutation("change", {"grants"},
             {Cluster \o <<"keys", "id">>, Cluster \o <<"keys">>,
              Cluster \o <<"buckets">>, <<"admin", "buckets">>})
useDeleteKey ==
    Landing(Armed(Mutation("delete", {"keys", "grants"}, {Cluster \o <<"keys">>})),
            "cluster detail")
useCreateCluster == Mutation("create", {"connections"}, {<<"admin", "clusters">>})
useUpdateCluster ==
    Mutation("change", {"connections"}, {<<"admin", "clusters">>, Cluster})
useDeleteCluster ==
    Landing(Armed(Mutation("delete", {"connections"}, {<<"admin", "clusters">>})),
            "clusters")
useTestCluster == Mutation("ask", {}, {<<"admin", "clusters">>, Cluster})
useStageLayoutChange == Unrecorded(Mutation("change", {"layout"}, {Cluster \o <<"layout">>}))
useApplyLayout ==
    Mutation("change", {"layout", "nodes"}, {Cluster \o <<"layout">>, Cluster \o <<"nodes">>})
useRevertLayout == Mutation("change", {"layout"}, {Cluster \o <<"layout">>})
usePutBucketLifecycle ==
    Mutation("change", {"lifecycle"}, {ClusterBucket \o <<"lifecycle">>, ClusterBucket})
useStartClusterScrub == Mutation("trigger", {"scrub"}, {Cluster \o <<"scrub">>})
useUnlockCluster == Mutation("change", {"lock"}, {Cluster \o <<"lock-status">>})
useLockCluster == Mutation("change", {"lock"}, {Cluster \o <<"lock-status">>})
useAddClusterAdmin ==
    Mutation("change", {"lock", "secret holders"},
             {Cluster \o <<"lock-status">>, Cluster \o <<"admins">>})
useRemoveClusterAdmin ==
    Mutation("change", {"secret holders"},
             {Cluster \o <<"lock-status">>, Cluster \o <<"admins">>})

(***************************************************************************)
(* Mutations: the host.                                                    *)
(***************************************************************************)
useUpsertRole == Mutation("change", {"roles"}, {<<"admin", "policies">>})
useDeleteRole == Mutation("delete", {"roles", "assignments"}, {<<"admin", "policies">>})
useAssignRole ==
    Mutation("change", {"assignments"}, {<<"admin", "policies">>, <<"admin", "clusters">>})
useUnassignRole ==
    Mutation("delete", {"assignments"}, {<<"admin", "policies">>, <<"admin", "clusters">>})
useSimulatePolicy == Mutation("ask", {}, {})
useUpdateOIDCGroupMappings ==
    Mutation("change", {"oidc mappings"}, {<<"admin", "oidc-group-mappings">>})
useSetActiveSkin ==
    Mutation("change", {"skin"}, {<<"skin", "active">>, <<"org-capabilities">>})
useCreateInvite == Mutation("mint", {"invites"}, {<<"admin", "invites">>})
useRevokeInvite == Mutation("delete", {"invites"}, {<<"admin", "invites">>})
useRotateInvite == Mutation("mint", {"invites"}, {<<"admin", "invites">>})
useCreateServiceAccount ==
    Mutation("mint", {"service accounts"}, {<<"admin", "service-accounts">>})
useUpdateServiceAccount ==
    Mutation("change", {"service accounts"},
             {<<"admin", "service-accounts">>, <<"admin", "service-accounts", "id">>})
useDeleteServiceAccount ==
    Removing(Mutation("delete", {"service accounts"}, {<<"admin", "service-accounts">>}),
             {<<"admin", "service-accounts", "id">>})
useRotateServiceAccount ==
    Mutation("mint", {"service accounts"},
             {<<"admin", "service-accounts">>, <<"admin", "service-accounts", "id">>})

(***************************************************************************)
(* Mutations: a user's regions, their buckets and objects.                 *)
(***************************************************************************)
useCreateUserKey == Mutation("create", {"regions"}, {<<"user", "regions">>})
useBulkCreateUserKeys == Mutation("create", {"regions"}, {<<"user", "regions">>})
useRotateUserRegion == Mutation("change", {"regions"}, {<<"user", "regions">>, Region})
useDeleteUserRegion ==
    Removing(Mutation("delete", {"regions"}, {<<"user", "regions">>}), {Region})
useUserRegionPresignGet == Mutation("ask", {}, {})
useUserRegionPresignPut == Mutation("ask", {}, {})
useUserRegionMultipartInit == Mutation("create", {}, {})
useUserRegionMultipartPartPresign == Mutation("ask", {}, {})
useUserRegionMultipartComplete == Mutation("create", {"objects"}, {})
useUserRegionMultipartAbort == Mutation("delete", {}, {})
useDeleteUserRegionObject == Mutation("delete", {"objects"}, {RegionBucket})
usePutBucketVersioning ==
    Mutation("change", {"versioning"},
             {RegionBucket \o <<"versioning">>, RegionBucket \o <<"object-lock">>})
useDeleteObjectVersion ==
    Mutation("delete", {"objects"},
             {RegionBucket \o <<"object-versions", "key">>, RegionBucket})
usePutObjectLockConfig == Mutation("change", {"object lock"}, {RegionBucket \o <<"object-lock">>})
usePutObjectRetention ==
    Mutation("change", {"retention"}, {RegionBucket \o <<"object-retention", "key", "vid">>})
usePutObjectLegalHold ==
    Mutation("change", {"legal hold"}, {RegionBucket \o <<"object-legal-hold", "key", "vid">>})
usePutBucketEncryption == Mutation("change", {"encryption"}, {RegionBucket \o <<"encryption">>})
useDeleteBucketEncryption ==
    Mutation("delete", {"encryption"}, {RegionBucket \o <<"encryption">>})

(***************************************************************************)
(* Mutations: shares, syncs, backups, federated buckets, webhooks.         *)
(***************************************************************************)
useCreateUserShare == Mutation("create", {"shares"}, {<<"user", "shares">>})
useRevokeUserShare == Mutation("delete", {"shares"}, {<<"user", "shares">>})
useShareAuth == Unrecorded(Mutation("change", {"share session"}, {}))
useCreateUserSync == Mutation("create", {"syncs"}, {<<"user", "syncs">>})
useDeleteUserSync ==
    Removing(Mutation("delete", {"syncs"}, {<<"user", "syncs">>}), {<<"user", "syncs", "id">>})
\* Mutant: a paused sync refreshes its own page but not the list.
PauseOwnPageOnly ==
    Unrecorded(Mutation("change", {"syncs"}, {<<"user", "syncs", "id">>}))
usePauseUserSync ==
    Unrecorded(Mutation("change", {"syncs"}, {<<"user", "syncs">>, <<"user", "syncs", "id">>}))
useResumeUserSync ==
    Unrecorded(Mutation("change", {"syncs"}, {<<"user", "syncs">>, <<"user", "syncs", "id">>}))
useCreateUserBackup == Mutation("create", {"backups"}, {<<"user", "backups">>})
useUpdateUserBackup ==
    Mutation("change", {"backups"}, {<<"user", "backups">>, <<"user", "backups", "id">>})
useDeleteUserBackup ==
    Removing(Mutation("delete", {"backups", "snapshots"}, {<<"user", "backups">>}),
             {<<"user", "backups", "id">>})
useRunUserBackup ==
    Mutation("trigger", {"backups", "snapshots"},
             {<<"user", "backups">>, <<"user", "backups", "id">>})
useRestoreUserBackup ==
    Mutation("create", {"objects"}, {<<"user", "backups", "id", "snapshots">>})
useCreateFederation ==
    Mutation("create", {"federations"}, {<<"user", "federations">>, <<"federation-by-target">>})
useUpdateFederation ==
    Mutation("change", {"federations"},
             {<<"user", "federations">>, <<"user", "federations", "id">>,
              <<"federation-by-target">>})
useDeleteFederation ==
    Removing(Mutation("delete", {"federations"},
                      {<<"user", "federations">>, <<"federation-by-target">>}),
             {<<"user", "federations", "id">>})
useFailoverFederation ==
    Mutation("change", {"federations"},
             {<<"user", "federations">>, <<"user", "federations", "id">>,
              <<"federation-by-target">>})
useResyncFederation ==
    Mutation("trigger", {"federations"}, {<<"user", "federations", "id">>})
useCreateWebhook == Mutation("mint", {"webhooks"}, {<<"user", "webhooks">>})
useUpdateWebhook ==
    Mutation("mint", {"webhooks"}, {<<"user", "webhooks">>, <<"user", "webhooks", "id">>})
useDeleteWebhook ==
    Removing(Mutation("delete", {"webhooks"}, {<<"user", "webhooks">>}),
             {<<"user", "webhooks", "id">>})
useTestWebhook == Mutation("trigger", {"webhooks"}, {<<"user", "webhooks", "id">>})
useEnableWebhook ==
    Mutation("change", {"webhooks"}, {<<"user", "webhooks">>, <<"user", "webhooks", "id">>})
useDisableWebhook ==
    Mutation("change", {"webhooks"}, {<<"user", "webhooks">>, <<"user", "webhooks", "id">>})
=============================================================================
