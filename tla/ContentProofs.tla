---------------------------- MODULE ContentProofs ----------------------------
(* Theorems about MCContent, the composition of the parts of the content      *)
(* layer, for any of their constants.                                         *)
EXTENDS MCContent, PartsProofs, MessagesProofs, SharingProofs

-----------------------------------------------------------------------------
(* The composition: a behaviour is one of the part in focus, and the rest is  *)
(* not there.                                                                *)

PartsInv ==
    /\ focus = "feed" => FeedInv
    /\ focus = "media" => MediaInv
    /\ focus = "calls" => CallsInv
    /\ focus = "camera" => CameraInv
    /\ focus = "lease" => LeaseInv
    /\ focus = "signaling" => SignalInv
    /\ focus = "keys" => KeyInv
    /\ focus = "registry" => RegistryInv
    /\ focus = "accounts" => AccessInv
    /\ focus = "messages" => MessagesInv
    /\ focus = "drafts" => DraftsInv
    /\ focus = "talk" => TalkInv
    /\ focus = "receipts" => ReceiptsInv
    /\ focus = "nicknames" => NamesInv
    /\ focus = "space" => SpaceInv
    /\ focus = "crypto" => CryptoInv

LEMMA PartsInit == Init => PartsInv
BY FeedInvInit, MediaInvInit, CallsInvInit, CameraInvInit, LeaseInvInit, SignalInvInit, KeyInvInit,
   RegistryInvInit, AccessInvInit, MessagesInvInit, DraftsInvInit, TalkInvInit, ReceiptsInvInit, NamesInvInit,
   SpaceInvInit, CryptoStarts DEF Init, PartsInv

LEMMA PartsStep == PartsInv /\ [Next]_vars => PartsInv'
<1> SUFFICES ASSUME PartsInv, [Next]_vars
             PROVE  PartsInv'
    OBVIOUS
<1>1. focus' = focus
    BY Zenon DEF Next, vars, StepFeed, StepCamera, StepMedia, StepCalls, StepSignaling, StepMessaging, StepSpace,
       StepCrypto, StepAccess, StepRegistry, StepLease, StepCapability, StepDraft, StepTalk, StepListing,
       StepDay, StepReceipts, StepName, StepKey
<1>2. focus = "media" => [MediaNext]_mediaVars
    BY Zenon DEF Next, vars, StepFeed, StepCamera, StepMedia, StepCalls, StepSignaling, StepMessaging, StepSpace,
       StepCrypto, StepAccess, StepRegistry, StepLease, StepCapability, StepDraft, StepTalk, StepListing,
       StepDay, StepReceipts, StepName, StepKey
<1>3. focus = "calls" => [CallsNext]_callVars
    BY Zenon DEF Next, vars, StepFeed, StepCamera, StepMedia, StepCalls, StepSignaling, StepMessaging, StepSpace,
       StepCrypto, StepAccess, StepRegistry, StepLease, StepCapability, StepDraft, StepTalk, StepListing,
       StepDay, StepReceipts, StepName, StepKey
<1>4. focus = "feed" => [FeedNext]_feedVars
    BY Zenon DEF Next, vars, StepFeed, StepCamera, StepMedia, StepCalls, StepSignaling, StepMessaging, StepSpace,
       StepCrypto, StepAccess, StepRegistry, StepLease, StepCapability, StepDraft, StepTalk, StepListing,
       StepDay, StepReceipts, StepName, StepKey
<1>5. focus = "camera" => [CameraNext]_cameraVars
    BY Zenon DEF Next, vars, StepFeed, StepCamera, StepMedia, StepCalls, StepSignaling, StepMessaging, StepSpace,
       StepCrypto, StepAccess, StepRegistry, StepLease, StepCapability, StepDraft, StepTalk, StepListing,
       StepDay, StepReceipts, StepName, StepKey
<1>6. focus = "lease" => [LeaseNext]_leaseVars
    BY Zenon DEF Next, vars, StepFeed, StepCamera, StepMedia, StepCalls, StepSignaling, StepMessaging, StepSpace,
       StepCrypto, StepAccess, StepRegistry, StepLease, StepCapability, StepDraft, StepTalk, StepListing,
       StepDay, StepReceipts, StepName, StepKey
<1>7. focus = "signaling" => [SignalingNext]_signalVars
    BY Zenon DEF Next, vars, StepFeed, StepCamera, StepMedia, StepCalls, StepSignaling, StepMessaging, StepSpace,
       StepCrypto, StepAccess, StepRegistry, StepLease, StepCapability, StepDraft, StepTalk, StepListing,
       StepDay, StepReceipts, StepName, StepKey
<1>8. focus = "keys" => [KeyNext]_keyVars
    BY Zenon DEF Next, vars, StepFeed, StepCamera, StepMedia, StepCalls, StepSignaling, StepMessaging, StepSpace,
       StepCrypto, StepAccess, StepRegistry, StepLease, StepCapability, StepDraft, StepTalk, StepListing,
       StepDay, StepReceipts, StepName, StepKey
<1>9. focus = "registry" => [RegistryNext]_registryVars
    BY Zenon DEF Next, vars, StepFeed, StepCamera, StepMedia, StepCalls, StepSignaling, StepMessaging, StepSpace,
       StepCrypto, StepAccess, StepRegistry, StepLease, StepCapability, StepDraft, StepTalk, StepListing,
       StepDay, StepReceipts, StepName, StepKey
<1>10. focus = "accounts" => [AccessNext]_accessVars
    BY Zenon DEF Next, vars, StepFeed, StepCamera, StepMedia, StepCalls, StepSignaling, StepMessaging, StepSpace,
       StepCrypto, StepAccess, StepRegistry, StepLease, StepCapability, StepDraft, StepTalk, StepListing,
       StepDay, StepReceipts, StepName, StepKey
<1>11. focus = "messages" => [MessagingNext]_messagingVars
    BY Zenon DEF Next, vars, StepFeed, StepCamera, StepMedia, StepCalls, StepSignaling, StepMessaging, StepSpace,
       StepCrypto, StepAccess, StepRegistry, StepLease, StepCapability, StepDraft, StepTalk, StepListing,
       StepDay, StepReceipts, StepName, StepKey
<1>12. focus = "drafts" => [DraftNext]_draftVars
    BY Zenon DEF Next, vars, StepFeed, StepCamera, StepMedia, StepCalls, StepSignaling, StepMessaging, StepSpace,
       StepCrypto, StepAccess, StepRegistry, StepLease, StepCapability, StepDraft, StepTalk, StepListing,
       StepDay, StepReceipts, StepName, StepKey
<1>13. focus = "talk" => [TalkNext]_talkVars
    BY Zenon DEF Next, vars, StepFeed, StepCamera, StepMedia, StepCalls, StepSignaling, StepMessaging, StepSpace,
       StepCrypto, StepAccess, StepRegistry, StepLease, StepCapability, StepDraft, StepTalk, StepListing,
       StepDay, StepReceipts, StepName, StepKey
<1>14. focus = "receipts" => [ReceiptsNext]_receiptVars
    BY Zenon DEF Next, vars, StepFeed, StepCamera, StepMedia, StepCalls, StepSignaling, StepMessaging, StepSpace,
       StepCrypto, StepAccess, StepRegistry, StepLease, StepCapability, StepDraft, StepTalk, StepListing,
       StepDay, StepReceipts, StepName, StepKey
<1>15. focus = "nicknames" => [NameNext]_nameVars
    BY Zenon DEF Next, vars, StepFeed, StepCamera, StepMedia, StepCalls, StepSignaling, StepMessaging, StepSpace,
       StepCrypto, StepAccess, StepRegistry, StepLease, StepCapability, StepDraft, StepTalk, StepListing,
       StepDay, StepReceipts, StepName, StepKey
<1>16. focus = "space" => [SpaceNext]_spaceVars
    BY Zenon DEF Next, vars, StepFeed, StepCamera, StepMedia, StepCalls, StepSignaling, StepMessaging, StepSpace,
       StepCrypto, StepAccess, StepRegistry, StepLease, StepCapability, StepDraft, StepTalk, StepListing,
       StepDay, StepReceipts, StepName, StepKey
<1>17. focus = "crypto" => [CryptoNext]_cryptoVars
    BY Zenon DEF Next, vars, StepFeed, StepCamera, StepMedia, StepCalls, StepSignaling, StepMessaging, StepSpace,
       StepCrypto, StepAccess, StepRegistry, StepLease, StepCapability, StepDraft, StepTalk, StepListing,
       StepDay, StepReceipts, StepName, StepKey
<1>18. QED
    BY <1>1, <1>2, <1>3, <1>4, <1>5, <1>6, <1>7, <1>8, <1>9, <1>10, <1>11, <1>12, <1>13, <1>14, <1>15, <1>16, <1>17,
       MediaStep, CallsStep, FeedStep, CameraStep, OwnershipStep, SignalStep, KeyStep, RegistryStep, AccessStep, MessagesStep,
       DraftsStep, TalkStep, ReceiptsStep, NamesStep, SpaceInvStep, CryptoInvStep DEF PartsInv

\* A client that shows itself live shows every change it was ever told of, but for what the answer
\* to an own message moved the cursor past (SyncCoordinator, syncChanges), for any number of changes
\* and losses: the cursor never stands beyond what is shown or skipped (CursorCovered), and a run
\* without news aims at all it was told of (RunCovered).
THEOREM LiveShowsWhatItWasTold == Spec => []LiveFeed
<1>1. PartsInv => LiveFeed
    BY FeedInvLive DEF PartsInv, LiveFeed
<1>2. QED
    BY <1>1, PartsInit, PartsStep, PTL DEF Spec

\* What a message or an item shows can be read, and no medium is forgotten (MediaService and the
\* media handlers of the worker), for any media, uploads and roll-backs.
THEOREM MediaReadableOrAccounted == Spec => []MediaCorrect
<1>1. PartsInv => MediaCorrect
    BY MediaInvAccounted DEF PartsInv, MediaCorrect
<1>2. QED
    BY <1>1, PartsInit, PartsStep, PTL DEF Spec

\* A call never lingers (CallingService, createC1CallTimeoutHandlers), for any sessions of the
\* members and any number of calls and requests: in every phase a timeout of that phase and of the
\* current generation waits to end it, and none is under way while the policy forbids it.  What
\* carries it is accounted for: the signals of a connection arrive in order and without a gap
\* (CallSignalingHub), the camera ends as it is shown (CameraController), and a session that loses
\* the media finds out and stays stopped (CallMediaSession), for any frames, players and tabs.
THEOREM CallsHold == Spec => []CallsCorrect
<1>1. PartsInv => CallsCorrect
    BY CallsInvAccounted, SignalInvInOrder, CameraInvMatches, LeaseInvAccounted DEF PartsInv, CallsCorrect
<1>2. QED
    BY <1>1, PartsInit, PartsStep, PTL DEF Spec

\* Accounts (AuthService, AccountService, IdempotencyService), for any browsers, requests, names and
\* keys: who was signed out stays out and no live token is without a holder (AnswerAlone), a name
\* or an address is held once by an account that can be found, and a key stands for one effect.
THEOREM AccountsHold == Spec => []AccountsAccounted
<1>1. PartsInv => AccountsAccounted
    BY AccessInvAccounted, RegistryInvAccounted, KeyInvAccounted DEF PartsInv, AccountsAccounted
<1>2. QED
    BY <1>1, PartsInit, PartsStep, PTL DEF Spec

\* The chat (MessageService, MessagingPanel, uploadMediaDraft), for any messages, drafts, panels,
\* versions and faults: the keys and reactions match what is sealed, a draft leaves only with a
\* sending that has it, no queued change is repeated, a receipt claims no more than was shown, and
\* a nickname replaces the one that was seen.
THEOREM ChatHolds == Spec => []MessagesCorrect
<1>1. PartsInv => MessagesCorrect
    BY MessagesInvAccounted, DraftsInvAccounted, TalkInvAccounted, ReceiptsInvAccounted
    DEF PartsInv, MessagesCorrect, NamesInv
<1>2. QED
    BY <1>1, PartsInit, PartsStep, PTL DEF Spec

\* The items two partners share (RelationshipSpaceService, releaseRelationshipItem), for any items,
\* photos, partners and times: a scheduled item is released once, not before its time, by an action
\* that waits for it and never while an account of the two is being deleted; a link leads only to
\* what both may read; and every item has exactly the keys, the media and the numbered events of
\* what it stores.
THEOREM SpaceHolds == Spec => SpaceCorrect
<1>1. PartsInv => (focus = "space" => SpaceAccounted)
    BY SpaceInvAccounted DEF PartsInv
<1>2. ASSUME [Next]_vars PROVE [focus = "space" => DeletionHoldsReleases]_vars
    <2>1. focus = "space" => [SpaceNext]_spaceVars
        BY <1>2, Zenon DEF Next, vars, StepFeed, StepCamera, StepMedia, StepCalls, StepSignaling, StepMessaging,
           StepSpace, StepCrypto, StepAccess, StepRegistry, StepLease, StepCapability, StepDraft, StepTalk,
           StepListing, StepDay, StepReceipts, StepName, StepKey
    <2>2. focus = "space" => DeletionHoldsReleases
        BY <2>1, DeletionHolds
    <2>3. QED
        BY <2>2
<1>3. QED
    BY <1>1, <1>2, PartsInit, PartsStep, PTL DEF Spec, SpaceCorrect

\* The encryption group of a partnership (CryptoService, crypto-runtime.ts), for any devices,
\* requests, resets, revocations and lost answers: the devices and the server continue one history,
\* members can join, a revoked one is known to the rekey mark, and protected writes are held to the
\* generation the policy names.
THEOREM CryptoHolds == Spec => []CryptoCorrect
<1>1. PartsInv => CryptoCorrect
    BY CryptoInvAccounted DEF PartsInv, CryptoCorrect
<1>2. QED
    BY <1>1, PartsInit, PartsStep, PTL DEF Spec

=============================================================================
