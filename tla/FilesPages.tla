----------------------------- MODULE FilesPages -----------------------------
(***************************************************************************)
(* The screens under routes/files and routes/share, as Parts: one          *)
(* definition per component, or per stretch of a long one.                 *)
(***************************************************************************)
EXTENDS PageParts

-----------------------------------------------------------------------------
(***************************************************************************)
(* The keychain: index.tsx, keys/index.tsx, keys/new.tsx, and the buckets  *)
(* of one key, $regionId/index.tsx.                                        *)
(***************************************************************************)
FilesHome == Part({useUserRegions}, {})
KeysIndex == Part({useUserRegions}, {})
RegionKeyActions ==
    Part({}, {Awaited(Act(useDeleteUserRegion)), Awaited(Act(useRotateUserRegion))})
KeysScreen == Screen({KeysIndex, RegionKeyActions})

AddKeySubmit == Part({}, {Then(Awaited(Act(useCreateUserKey)), "files")})
AddKeyForm == Part({useDriverDefaults}, {})
BulkImportPanel == Part({}, {Awaited(Act(useBulkCreateUserKeys))})
AddKeyPage == Screen({AddKeySubmit, AddKeyForm, BulkImportPanel})

RegionBuckets == Part({useUserRegions, useUserRegion, useUserRegionBuckets}, {})
KeyRejectedAlert == Part({}, {Then(Awaited(Act(useDeleteUserRegion)), "keys")})
RegionScreen == Screen({RegionBuckets, KeyRejectedAlert})

-----------------------------------------------------------------------------
(***************************************************************************)
(* $regionId/b/$bid.tsx: the objects of a bucket and its bucket settings.  *)
(* What a batch delete and an upload do object by object is in Batches.    *)
(***************************************************************************)
ObjectsData ==
    Part({useUserRegionBuckets, useUserRegionObjectsInfinite, useFederationByTarget,
          useBucketVersioning},
         {Open(Awaited(Act(useUserRegionPresignGet)))})
\* refetch() of the listing that is on screen when the last delete settles.
deleteObjects == Raw("delete", {"objects"})
ObjectsBatchDelete ==
    Part({}, {Telling(Awaited(Act(deleteObjects)), {useUserRegionObjectsInfinite.key})})
uploadFiles == Raw("create", {"objects"})
ObjectsUpload ==
    Part({}, {Telling(Awaited(Act(uploadFiles)), {useUserRegionObjectsInfinite.key})})

VersioningSection ==
    Editing(Part({useBucketVersioning},
                 {Telling(Act(usePutBucketVersioning), {useBucketVersioning.key})}),
            Form(useBucketVersioning, usePutBucketVersioning, FALSE))
ObjectLockSection ==
    Editing(Part({useObjectLockConfig},
                 {Whole(Telling(Act(usePutObjectLockConfig), {useObjectLockConfig.key}))}),
            Form(useObjectLockConfig, usePutObjectLockConfig, FALSE))
\* Mutant: the effect copies every new answer into the form.
EncryptionFollows ==
    Editing(Part({useBucketEncryption},
                 {Whole(Telling(Act(usePutBucketEncryption), {useBucketEncryption.key})),
                  Telling(Act(useDeleteBucketEncryption), {useBucketEncryption.key})}),
            Form(useBucketEncryption, usePutBucketEncryption, TRUE))
EncryptionSection ==
    Editing(Part({useBucketEncryption},
                 {Whole(Telling(Act(usePutBucketEncryption), {useBucketEncryption.key})),
                  Telling(Act(useDeleteBucketEncryption), {useBucketEncryption.key})}),
            Form(useBucketEncryption, usePutBucketEncryption, FALSE))

ObjectVersionsPanel ==
    Part({useObjectVersions, useObjectLockConfig},
         {Telling(Act(useDeleteObjectVersion),
                  {useObjectVersions.key, RegionBucket \o <<"objects-inf">>})})
VersionRow == Part({useObjectRetention, useObjectLegalHold}, {})
\* Seeded again from the row each time it is opened.
SetRetentionDialog ==
    Editing(Part({}, {Whole(Telling(Act(usePutObjectRetention),
                                    {useObjectRetention.key, useObjectVersions.key}))}),
            Form(useObjectRetention, usePutObjectRetention, FALSE))
LegalHoldToggle ==
    Part({}, {Telling(Act(usePutObjectLegalHold), {useObjectLegalHold.key})})

UserRegionBucketObjects ==
    Screen({ObjectsData, ObjectsBatchDelete, ObjectsUpload, VersioningSection,
            ObjectLockSection, EncryptionSection, ObjectVersionsPanel, VersionRow,
            SetRetentionDialog, LegalHoldToggle})

-----------------------------------------------------------------------------
(***************************************************************************)
(* shares/, syncs/ and the public share page.                              *)
(***************************************************************************)
SharesList == Part({useUserShares}, {Act(useRevokeUserShare)})
\* The new link is shown, and can be revoked, until the page is left.
NewShareSubmit ==
    Part({}, {Act(useCreateUserShare), Then(Act(useRevokeUserShare), "shares")})
NewShareForm == Part({useUserRegions, useUserRegionBuckets}, {})
NewSharePage == Screen({NewShareSubmit, NewShareForm})

SyncsPage ==
    Part({useUserSyncs},
         {Awaited(Act(useDeleteUserSync)), Awaited(Act(usePauseUserSync)),
          Awaited(Act(useResumeUserSync))})
NewSyncSubmit == Part({}, {Then(Act(useCreateUserSync), "syncs")})
NewSyncForm == Part({useUserRegions, useUserRegionBuckets}, {})
NewSyncPage == Screen({NewSyncSubmit, NewSyncForm})

\* Unlocking refetches the share's description; its listing, refused
\* before, is asked for again when PrefixBrowserState mounts.
ShareRoute ==
    Part({useShareInfo, useShareList},
         {Telling(Awaited(Act(useShareAuth)), {useShareInfo.key, useShareList.key})})
PrefixBrowserState == Part({useShareList}, {})

-----------------------------------------------------------------------------
(***************************************************************************)
(* backups/index.tsx, new.tsx, $id/index.tsx, $id/restore.tsx              *)
(***************************************************************************)
BackupsListPage ==
    Part({useUserBackups},
         {Telling(Awaited(Act(useRunUserBackup)), {useUserBackups.key}),
          Telling(Awaited(Act(useDeleteUserBackup)), {useUserBackups.key})})
NewBackupSubmit == Part({}, {Then(Act(useCreateUserBackup), "backups")})
NewBackupSteps == Part({useUserRegions, useUserRegionBuckets}, {})
NewBackupPage == Screen({NewBackupSubmit, NewBackupSteps})

BackupDetailData == Part({useUserBackup, useUserBackupSnapshots}, {})
BackupDetailRun ==
    Part({}, {Telling(Awaited(Act(useRunUserBackup)),
                      {useUserBackup.key, useUserBackupSnapshots.key}),
              Then(Awaited(Act(useDeleteUserBackup)), "backups")})
\* passThroughBody: the fields not being edited are sent as they are cached.
passThroughBody(act) ==
    Whole(Telling(Awaited(act), {useUserBackup.key, useUserBackups.key}))
BackupDetailEdit ==
    Editing(Part({}, {passThroughBody(Act(useUpdateUserBackup))}),
            Form(useUserBackup, useUpdateUserBackup, FALSE))
BackupDetailPage == Screen({BackupDetailData, BackupDetailRun, BackupDetailEdit})

RestoreData ==
    Part({useUserBackup, useUserBackupSnapshots, useUserRegions, useUserRegionBuckets}, {})
RestoreSubmit == Part({}, {Awaited(Act(useRestoreUserBackup))})
RestoreBackupPage == Screen({RestoreData, RestoreSubmit})

-----------------------------------------------------------------------------
(***************************************************************************)
(* federated-buckets/index.tsx, new.tsx, $id/index.tsx                     *)
(***************************************************************************)
FederatedBucketsListPage ==
    Part({useFederations, useUserRegions},
         {Telling(Awaited(Act(useDeleteFederation)), {useFederations.key})})
NewFederationSubmit == Part({}, {Then(Act(useCreateFederation), "federation detail")})
NewFederationSteps == Part({useUserRegions, useUserRegionBuckets}, {})
ReplicaRowEditor == Part({useUserRegions, useUserRegionBuckets}, {})
NewFederationPage == Screen({NewFederationSubmit, NewFederationSteps, ReplicaRowEditor})

FederationDetailData == Part({useFederation, useUserRegions}, {})
FederationDetailActions ==
    Part({}, {Telling(Awaited(Act(useResyncFederation)), {useFederation.key}),
              Then(Awaited(Act(useDeleteFederation)), "federations"),
              Telling(Awaited(Act(useFailoverFederation)),
                      {useFederation.key, useFederations.key})})
FederationDetailPage == Screen({FederationDetailData, FederationDetailActions})

-----------------------------------------------------------------------------
(***************************************************************************)
(* webhooks/index.tsx, new.tsx, $id/index.tsx                              *)
(***************************************************************************)
\* Every row's controls shut while any of the four requests runs.
WebhooksListPage ==
    LET again(mutation) == Telling(Awaited(Act(mutation)), {useWebhooks.key})
    IN Part({useWebhooks},
            {again(useDeleteWebhook), again(useEnableWebhook), again(useDisableWebhook),
             again(useTestWebhook)})
NewWebhookSubmit ==
    Part({}, {Telling(Awaited(Act(useCreateWebhook)), {useWebhooks.key})})
NewWebhookForm == Part({useUserRegions, useUserRegionBuckets}, {})
NewWebhookPage == Screen({NewWebhookSubmit, NewWebhookForm})

WebhookDetailData == Part({useWebhook, useUserRegions}, {})
\* After a test the page also invalidates once more from a timer.
WebhookDetailActions ==
    LET both == {useWebhook.key, useWebhooks.key}
    IN Part({}, {Telling(Awaited(Act(useTestWebhook)), {useWebhook.key}),
                 Telling(Awaited(Act(useEnableWebhook)), both),
                 Telling(Awaited(Act(useDisableWebhook)), both),
                 Then(Awaited(Act(useDeleteWebhook)), "webhooks"),
                 Whole(Telling(Awaited(Act(useUpdateWebhook)), both))})
\* Seeded when the form opens; "enabled" is sent as the cache has it.
EditForm == Editing(Part({useUserRegionBuckets}, {}),
                    Form(useWebhook, useUpdateWebhook, FALSE))
WebhookDetailPage == Screen({WebhookDetailData, WebhookDetailActions, EditForm})

FilesScreens ==
    {FilesHome, KeysScreen, AddKeyPage, RegionScreen, UserRegionBucketObjects, SharesList,
     NewSharePage, SyncsPage, NewSyncPage, ShareRoute, PrefixBrowserState, BackupsListPage,
     NewBackupPage, BackupDetailPage, RestoreBackupPage, FederatedBucketsListPage,
     NewFederationPage, FederationDetailPage, WebhooksListPage, NewWebhookPage,
     WebhookDetailPage}
=============================================================================
