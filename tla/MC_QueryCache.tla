----------------------------- MODULE MC_QueryCache -----------------------------
(* QueryCache for TLC: every screen of the admin and the files part.          *)
EXTENDS QueryCache, AdminPages, FilesPages

AllScreens == AdminScreens \cup FilesScreens

\* Changes of a fact another screen shows from a cache that nobody refreshes.
ClusterEdits == {useCreateCluster, useUpdateCluster, useDeleteCluster}
BucketEdits == {useCreateBucket, useUpdateBucket, useDeleteBucket}
ObjectEdits == {uploadFiles, deleteObjects, useDeleteObjectVersion, useRestoreUserBackup}
Mutations == {act.does : act \in UNION {screen.acts : screen \in AllScreens}}
Unrefreshed ==
    (Mutations \X {useAudit})
    \cup (ClusterEdits \X {useBuckets, useUsageOverview, useUsageSeries, fetchGrowth,
                            useTestClusterQuery, useUserShares, useUserRegionBuckets})
    \cup (BucketEdits \X {useUsageOverview, useUserRegionBuckets})
    \cup ({useUpdateBucket, useDeleteBucket} \X {useClusterBuckets, useKey, useUserShares})
    \cup ({useDeleteKey} \X {useUsageOverview})
    \cup ({useDeleteKey} \X {useBucket, useUserRegionBuckets})
    \cup ({useUpdateKeyPermissions} \X {useUserRegionBuckets})
    \cup (ObjectEdits \X {useBuckets, useClusterBuckets, useBucket, useUsageOverview,
                           useUserRegionBuckets})
    \cup ((ObjectEdits \ {useDeleteObjectVersion}) \X {useObjectVersions})
    \cup ({useRestoreUserBackup} \X {useUserRegionObjectsInfinite})
    \cup ({useDeleteRole, createUser, deleteUserOnce} \X {useClusterAdmins})
    \cup ({createUser} \X {useInvites, fetchUsers})
    \cup ({patchSkins, useSetActiveSkin} \X {fetchSystem})
    \cup ({patchSystem} \X {useOrgCapabilities, useActiveSkin, useGatewaysRegistry,
                            fetchSystem})
    \cup {<<deleteSkin, useSkinRegistry>>, <<useTestWebhook, useWebhooks>>}
    \cup ({useResyncFederation} \X {useFederations, useFederationByTarget})

NotDisabled ==
    {useUpdateBucket, useSetActiveSkin, useRevokeInvite, useRotateInvite, deleteUserOnce,
     patchSystem, patchSkins, deleteSkin}

Followers == {useOIDCGroupMappings, useOrgCapabilities}
================================================================================
