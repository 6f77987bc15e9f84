----------------------------- MODULE AdminPages -----------------------------
(***************************************************************************)
(* The screens under routes/admin, as Parts: one definition per component, *)
(* or per stretch of a long one.                                           *)
(***************************************************************************)
EXTENDS PageParts

Policies == <<"admin", "policies">>
ServiceAccounts == <<"admin", "service-accounts">>

-----------------------------------------------------------------------------
(***************************************************************************)
(* users/index.tsx, users/new.tsx                                          *)
(***************************************************************************)
fetchUsers == Fetched("users", {"users"})
deleteUserOnce == Raw("delete", {"users"})
UsersPage ==
    Part({fetchUsers}, {Telling(Open(Elevated(Act(deleteUserOnce))), {fetchUsers.key})})

\* Rotate and revoke stay enabled; the fresh token is shown as it arrives.
PendingInvitesSection ==
    LET again(act) == Telling(Awaited(act), {useInvites.key})
    IN Part({useInvites},
            {again(Act(useCreateInvite)), again(Open(Act(useRevokeInvite))),
             again(Open(Act(useRotateInvite)))})

\* With "invite only" the answer is an invite link shown until Done.
createUser == Raw("create", {"users", "invites"})
NewUserPage == Part({}, {Then(Awaited(Act(createUser)), "users")})

UsersScreen == Screen({UsersPage, PendingInvitesSection})

-----------------------------------------------------------------------------
(***************************************************************************)
(* buckets/index.tsx, clusters/index.tsx, clusters/new.tsx                 *)
(***************************************************************************)
AdminBucketsData == Part({useBuckets, useListClusters}, {})
\* The create dialog's button shuts; the delete dialog closes before the
\* request and its button shuts when it is opened again.
AdminBucketsActions ==
    Part({}, {Elevated(Act(useCreateBucket)), Elevated(Act(useDeleteBucket))})
AdminBucketRow == Part({useBucket}, {})
AdminBucketsAggregated ==
    Screen({AdminBucketsData, AdminBucketsActions, AdminBucketRow})

ClustersScreen == Part({useListClusters}, {Elevated(Act(useDeleteCluster))})
ClusterCounts == Part({useClusterBuckets, useClusterKeys}, {})
ClusterRow == Part({useTestClusterQuery}, {})
ClustersPage == Screen({ClustersScreen, ClusterCounts, ClusterRow})

AddClusterSave == Part({}, {Then(Act(useCreateCluster), "cluster detail")})
AddClusterForm == Part({useDriverDefaults}, {})
AddClusterPage == Screen({AddClusterSave, AddClusterForm})

-----------------------------------------------------------------------------
(***************************************************************************)
(* clusters/$cid/index.tsx: the cluster and its sections.                  *)
(***************************************************************************)
ClusterDetailData ==
    Part({useGetCluster, useNodes, useCapabilities, useClusterBuckets, useClusterKeys,
          useClusterLockStatus, useTestClusterQuery}, {})
ClusterDangerZone == Part({}, {Elevated(Act(useDeleteCluster))})
ClusterBucketRow == Part({useBucket}, {})
ClusterKeyRow == Part({useKey}, {})

ClusterAdminsSection == Part({useClusterAdmins}, {})
ClusterAdminRow ==
    Part({}, {Telling(Elevated(Act(useUnassignRole)), {useClusterAdmins.key, Policies})})
AddClusterAdminDialog ==
    Part({usePolicies, fetchUsers},
         {Telling(Elevated(Act(useAssignRole)), {useClusterAdmins.key, Policies})})

\* Unlocking goes through the prompt of main.tsx, not through a mutation
\* of this section, and without the elevation guard.
ClusterEncryptionSection ==
    Part({useClusterLockStatus},
         {Act(useLockCluster), Act(useAddClusterAdmin), Act(useRemoveClusterAdmin)})
AddAdminDialog == Part({}, {Act(useAddClusterAdmin)})
UnlockClusterModal == Part({}, {Act(useUnlockCluster)})

ClusterDetailScreen ==
    Screen({ClusterDetailData, ClusterDangerZone, ClusterBucketRow, ClusterKeyRow,
            ClusterAdminsSection, ClusterAdminRow, AddClusterAdminDialog,
            ClusterEncryptionSection, AddAdminDialog, UnlockClusterModal})

-----------------------------------------------------------------------------
(***************************************************************************)
(* clusters/$cid/edit.tsx, layout.tsx, scrub.tsx                           *)
(***************************************************************************)
\* Seeded from the first answer for this cluster; every field is sent.
EditClusterSeed ==
    Editing(Part({useGetCluster}, {}), Form(useGetCluster, useUpdateCluster, FALSE))
EditClusterSave ==
    Part({}, {Whole(Then(Elevated(Act(useUpdateCluster)), "cluster detail"))})
EditClusterForm == Part({useDriverDefaults}, {})
EditClusterPage == Screen({EditClusterSeed, EditClusterSave, EditClusterForm})

\* A row's draft falls back to the shown node for fields not yet edited.
ClusterLayoutScreen ==
    Editing(Part({useGetCluster, useLayout},
                 {Whole(Elevated(Act(useStageLayoutChange))), Elevated(Act(useApplyLayout)),
                  Elevated(Act(useRevertLayout))}),
            Form(useLayout, useStageLayoutChange, FALSE))

ClusterScrubScreen ==
    Part({useGetCluster, useClusterScrub},
         {Telling(Awaited(Act(useStartClusterScrub)), {useClusterScrub.key})})

-----------------------------------------------------------------------------
(***************************************************************************)
(* clusters/$cid/buckets/$id.tsx and clusters/$cid/keys/$id.tsx            *)
(***************************************************************************)
AdminBucketData ==
    Editing(Part({useBucket, useGetCluster, useClusterKeys}, {}),
            Form(useBucket, useUpdateBucket, FALSE))
\* Saving the alias closes the editor, which can be opened and saved again;
\* it sends every alias, the other ones as they are shown.
AdminBucketAlias == Part({}, {Open(Whole(Elevated(Act(useUpdateBucket))))})
AdminBucketQuota == Part({}, {Elevated(Act(useUpdateBucket))})
AdminBucketGrants == Part({}, {Elevated(Act(useUpdateKeyPermissions))})
AdminBucketDanger == Part({}, {Elevated(Act(useDeleteBucket))})

LifecycleSection ==
    Part({useBucketLifecycle},
         {Whole(Telling(Act(usePutBucketLifecycle), {useBucketLifecycle.key}))})
\* The form is hydrated once, and is not even mounted before the answer.
LifecycleRuleEditorForm ==
    Editing(Part({useBucketLifecycle},
                 {Whole(Then(Act(usePutBucketLifecycle), "bucket detail"))}),
            Form(useBucketLifecycle, usePutBucketLifecycle, FALSE))

AdminBucketDetail ==
    Screen({AdminBucketData, AdminBucketAlias, AdminBucketQuota, AdminBucketGrants,
            AdminBucketDanger, LifecycleSection})

KeyDetailData ==
    Editing(Part({useKey, useGetCluster, useClusterBuckets}, {}),
            Form(useKey, useUpdateKeyPermissions, FALSE))
\* Edit mode seeds a row per bucket and sends them all; granting one bucket
\* sends the shown grants with it; revoking sends that one edge.
KeyEditMode == Part({}, {Whole(Elevated(Act(useUpdateKeyPermissions)))})
KeyGrants ==
    Part({}, {Whole(Elevated(Act(useUpdateKeyPermissions))),
              Elevated(Act(useUpdateKeyPermissions))})
KeyDanger == Part({}, {Elevated(Act(useDeleteKey))})
KeyDetailScreen == Screen({KeyDetailData, KeyEditMode, KeyGrants, KeyDanger})

-----------------------------------------------------------------------------
(***************************************************************************)
(* policies.tsx                                                            *)
(***************************************************************************)
PoliciesPage == Part({usePolicies}, {})
AddRoleCard == Part({}, {Telling(Elevated(Act(useUpsertRole)), {Policies})})
RoleCard ==
    Editing(Part({}, {Whole(Telling(Elevated(Act(useUpsertRole)), {Policies})),
                      Telling(Elevated(Act(useDeleteRole)), {Policies})}),
            Form(usePolicies, useUpsertRole, FALSE))
AssignmentsPane ==
    Part({}, {Telling(Elevated(Act(useAssignRole)), {Policies}),
              Telling(Elevated(Act(useUnassignRole)), {Policies})})
SimulatorPane == Part({}, {Awaited(Act(useSimulatePolicy))})
PoliciesScreen ==
    Screen({PoliciesPage, AddRoleCard, RoleCard, AssignmentsPane, SimulatorPane})

-----------------------------------------------------------------------------
(***************************************************************************)
(* service-accounts/index.tsx, new.tsx, $id.tsx                            *)
(***************************************************************************)
ServiceAccountsActions ==
    Part({}, {Telling(Elevated(Act(useRotateServiceAccount)), {ServiceAccounts}),
              Telling(Elevated(Act(useDeleteServiceAccount)), {ServiceAccounts})})
ServiceAccountsTable == Part({useServiceAccounts}, {})
ServiceAccountsPage == Screen({ServiceAccountsActions, ServiceAccountsTable})

NewServiceAccountSubmit ==
    Part({}, {Telling(Elevated(Act(useCreateServiceAccount)), {ServiceAccounts})})
NewServiceAccountForm == Part({usePolicies}, {})
NewServiceAccountPage == Screen({NewServiceAccountSubmit, NewServiceAccountForm})

ServiceAccountDetailPage == Part({useServiceAccount}, {})

-----------------------------------------------------------------------------
(***************************************************************************)
(* system.tsx.  The host's settings are one document: the page keeps its   *)
(* own copy, fetched once, and PATCHes all of it from three cards.         *)
(***************************************************************************)
fetchSystem == Fetched("system", {"org capabilities", "skin", "gateways"})
patchSystem == Raw("change", {"org capabilities", "skin", "gateways"})
OrgCapabilitiesPage ==
    Editing(Part({fetchSystem}, {Open(Whole(Awaited(Act(patchSystem))))}),
            Form(fetchSystem, patchSystem, FALSE))
AdminSessionTTLCard == Part({}, {Whole(Awaited(Act(patchSystem)))})
GatewaysCard == Part({useGatewaysRegistry}, {Whole(Awaited(Act(patchSystem)))})
ImplementedGatewayRow == Part({}, {Whole(Awaited(Act(patchSystem)))})

OIDCGroupMappingsSection ==
    Editing(Part({useOIDCGroupMappings, usePolicies},
                 {Whole(Telling(Awaited(Act(useUpdateOIDCGroupMappings)),
                                {useOIDCGroupMappings.key}))}),
            Form(useOIDCGroupMappings, useUpdateOIDCGroupMappings, TRUE))

fetchSkins == Fetched("skins", {"skins"})
deleteSkin == Unrecorded(Raw("delete", {"skins"}))
patchSkins == Raw("change", {"org capabilities", "skin"})
SkinsData ==
    Editing(Part({fetchSkins, useOrgCapabilities},
                 {Open(Whole(Telling(Awaited(Act(patchSkins)),
                                     {useOrgCapabilities.key, useActiveSkin.key})))}),
            Form(useOrgCapabilities, patchSkins, TRUE))
SkinsList == Part({}, {Open(Telling(Awaited(Act(deleteSkin)), {fetchSkins.key}))})

SystemScreen ==
    Screen({OrgCapabilitiesPage, AdminSessionTTLCard, GatewaysCard, ImplementedGatewayRow,
            OIDCGroupMappingsSection, SkinsData, SkinsList})

-----------------------------------------------------------------------------
(***************************************************************************)
(* usage.tsx, audit.tsx, the shell's menu.                                 *)
(***************************************************************************)
UsagePage == Part({useUsageOverview}, {})
fetchGrowth == Fetched("growth", useUsageSeries.reads)
UsageGrowth == Part({fetchGrowth}, {})
TrendChart == Part({useUsageSeries}, {})
AuditPage == Part({useAudit}, {})
UserMenu == Part({useOrgCapabilities, useSkinRegistry, useActiveSkin},
                 {Open(Act(useSetActiveSkin))})

AdminScreens ==
    {UsersScreen, NewUserPage, AdminBucketsAggregated, ClustersPage, AddClusterPage,
     ClusterDetailScreen, EditClusterPage, ClusterLayoutScreen, ClusterScrubScreen,
     AdminBucketDetail, LifecycleRuleEditorForm, KeyDetailScreen, PoliciesScreen,
     ServiceAccountsPage, NewServiceAccountPage, ServiceAccountDetailPage, SystemScreen,
     UsagePage, UsageGrowth, TrendChart, AuditPage, UserMenu}
=============================================================================
