------------------------------ MODULE MCContent ------------------------------
(* Parts of the content layer on small instances.  They share no state: a    *)
(* behaviour is one of one of them, chosen in the initial state, and the rest *)
(* is not there.                                                             *)
EXTENDS ClientFeed, CallCamera, MediaObjects, Calls, CallSignaling, Messaging,
        RelationshipSpace, CryptoRuntime, AccountAccess, AccountRegistry,
        MediaOwnership, Capabilities, MediaDrafts, TalkActions, Listings,
        OurDays, ReadReceipts, Nicknames, Idempotency

VARIABLE focus

NoPart == "none"

vars == <<focus, feedVars, cameraVars, mediaVars, callVars, signalVars,
          messagingVars, spaceVars, cryptoVars, accessVars, registryVars,
          leaseVars, capabilityVars, draftVars, talkVars, listingVars,
          dayVars, receiptVars, nameVars, keyVars>>

Init ==
    /\ focus \in {"feed", "camera", "media", "calls", "signaling",
                   "messages", "space", "crypto", "accounts", "registry",
                   "lease", "capabilities", "drafts", "talk", "listings",
                   "days", "receipts", "nicknames", "keys"}
    /\ IF focus = "feed" THEN FeedInit
       ELSE /\ feed = NoPart /\ socket = NoPart /\ loaded = NoPart
            /\ frames = NoPart /\ online = NoPart /\ sync = NoPart
            /\ pulls = NoPart /\ view = NoPart /\ cursor = NoPart
            /\ posted = NoPart /\ skipped = NoPart /\ mishaps = NoPart
    /\ IF focus = "camera" THEN CameraInit
       ELSE /\ camera = NoPart /\ enabling = NoPart /\ chain = NoPart
            /\ sending = NoPart /\ live = NoPart /\ cleared = NoPart
    /\ IF focus = "media" THEN MediaInit
       ELSE /\ media = NoPart /\ jobs = NoPart /\ executions = NoPart
            /\ checks = NoPart /\ objects = NoPart /\ keyed = NoPart
            /\ puts = NoPart /\ writable = NoPart /\ expired = NoPart
            /\ kept = NoPart /\ strays = NoPart /\ rollBacks = NoPart
    /\ IF focus = "calls" THEN CallsInit
       ELSE /\ calls = NoPart /\ timeouts = NoPart /\ notices = NoPart
            /\ requests = NoPart /\ revoked = NoPart /\ policy = NoPart
            /\ outlived = NoPart
    /\ IF focus = "signaling" THEN SignalingInit
       ELSE /\ authority = NoPart /\ admitted = NoPart /\ connection = NoPart
            /\ latest = NoPart /\ awaiting = NoPart /\ verdict = NoPart
            /\ sent = NoPart /\ pending = NoPart /\ received = NoPart
    /\ IF focus = "messages" THEN MessagingInit
       ELSE /\ messages = NoPart /\ reactions = NoPart /\ nicknames = NoPart
            /\ keys = NoPart /\ log = NoPart /\ answered = NoPart
            /\ receipts = NoPart /\ phase = NoPart /\ freeze = NoPart
            /\ crypto = NoPart /\ activating = NoPart /\ missed = NoPart
    /\ IF focus = "space" THEN SpaceInit
       ELSE /\ items = NoPart /\ links = NoPart /\ references = NoPart
            /\ binding = NoPart /\ itemKeys = NoPart /\ events = NoPart
            /\ releases = NoPart /\ dropped = NoPart /\ created = NoPart
            /\ required = NoPart /\ requiring = NoPart /\ unsealed = NoPart
            /\ deletions = NoPart /\ breakupAt = NoPart /\ ended = NoPart
            /\ clock = NoPart
    /\ IF focus = "crypto" THEN CryptoInit
       ELSE /\ trust = NoPart /\ spent = NoPart /\ challenge = NoPart
            /\ groups = NoPart /\ cryptoPolicy = NoPart /\ recovery = NoPart
            /\ setup = NoPart /\ contentKeys = NoPart /\ vault = NoPart
            /\ held = NoPart /\ operations = NoPart /\ ensuring = NoPart
            /\ seen = NoPart /\ reply = NoPart /\ wire = NoPart
            /\ sealed = NoPart /\ staged = NoPart /\ given = NoPart
            /\ lag = NoPart
    /\ IF focus = "accounts" THEN AccessInit
       ELSE /\ credentials = NoPart /\ session = NoPart /\ device = NoPart
            /\ mailed = NoPart /\ bucket = NoPart /\ epoch = NoPart
            /\ begun = NoPart /\ jar = NoPart /\ request = NoPart
            /\ orphaned = NoPart
    /\ IF focus = "registry" THEN RegistryInit
       ELSE /\ intent = NoPart /\ mail = NoPart /\ holder = NoPart
            /\ rights = NoPart /\ partnered = NoPart /\ open = NoPart
            /\ renames = NoPart
    /\ IF focus = "lease" THEN LeaseInit
       ELSE /\ tabOf = NoPart /\ lease = NoPart /\ player = NoPart
            /\ claims = NoPart /\ panel = NoPart /\ leaked = NoPart
            /\ displaced = NoPart
    /\ IF focus = "capabilities" THEN CapabilityInit
       ELSE /\ partnership = NoPart /\ leaving = NoPart /\ endings = NoPart
            /\ letters = NoPart /\ metadata = NoPart /\ today = NoPart
    /\ IF focus = "drafts" THEN DraftInit
       ELSE /\ recordings = NoPart /\ composer = NoPart /\ shelf = NoPart
            /\ uploads = NoPart /\ pages = NoPart /\ outgoing = NoPart
            /\ written = NoPart /\ used = NoPart /\ removed = NoPart
            /\ repeated = NoPart /\ setbacks = NoPart
    /\ IF focus = "talk" THEN TalkInit
       ELSE /\ versions = NoPart /\ talk = NoPart /\ basis = NoPart
            /\ waiting = NoPart /\ executed = NoPart /\ overtaken = NoPart
            /\ troubles = NoPart
    /\ IF focus = "listings" THEN ListingInit
       ELSE /\ table = NoPart /\ instant = NoPart /\ couple = NoPart
            /\ listing = NoPart /\ asked = NoPart /\ reloading = NoPart
            /\ steady = NoPart /\ moved = NoPart /\ crossed = NoPart
            /\ touches = NoPart /\ refreshed = NoPart
    /\ IF focus = "days" THEN DayInit
       ELSE /\ startDate = NoPart /\ serverDate = NoPart /\ passed = NoPart
            /\ keepsakes = NoPart /\ yesterday = NoPart
    /\ IF focus = "receipts" THEN ReceiptsInit
       ELSE /\ thread = NoPart /\ receipt = NoPart /\ saved = NoPart
            /\ panels = NoPart /\ lookedAt = NoPart /\ jumped = NoPart
            /\ looks = NoPart /\ losses = NoPart
    /\ IF focus = "nicknames" THEN NameInit
       ELSE /\ names = NoPart /\ field = NoPart /\ behind = NoPart
            /\ refreshes = NoPart /\ faults = NoPart
    /\ IF focus = "keys" THEN KeyInit
       ELSE /\ keyScope = NoPart /\ stored = NoPart /\ attempts = NoPart
            /\ effects = NoPart /\ allowed = NoPart /\ keyAge = NoPart
            /\ turns = NoPart

StepFeed ==
    /\ focus = "feed"
    /\ UNCHANGED <<focus, cameraVars, mediaVars, callVars, signalVars,
                   messagingVars, spaceVars, cryptoVars, accessVars,
                   registryVars, leaseVars, capabilityVars, draftVars,
                   talkVars, listingVars, dayVars, receiptVars, nameVars,
                   keyVars>>
    /\ FeedNext

StepCamera ==
    /\ focus = "camera"
    /\ UNCHANGED <<focus, feedVars, mediaVars, callVars, signalVars,
                   messagingVars, spaceVars, cryptoVars, accessVars,
                   registryVars, leaseVars, capabilityVars, draftVars,
                   talkVars, listingVars, dayVars, receiptVars, nameVars,
                   keyVars>>
    /\ CameraNext

StepMedia ==
    /\ focus = "media"
    /\ UNCHANGED <<focus, feedVars, cameraVars, callVars, signalVars,
                   messagingVars, spaceVars, cryptoVars, accessVars,
                   registryVars, leaseVars, capabilityVars, draftVars,
                   talkVars, listingVars, dayVars, receiptVars, nameVars,
                   keyVars>>
    /\ MediaNext

StepCalls ==
    /\ focus = "calls"
    /\ UNCHANGED <<focus, feedVars, cameraVars, mediaVars, signalVars,
                   messagingVars, spaceVars, cryptoVars, accessVars,
                   registryVars, leaseVars, capabilityVars, draftVars,
                   talkVars, listingVars, dayVars, receiptVars, nameVars,
                   keyVars>>
    /\ CallsNext

StepSignaling ==
    /\ focus = "signaling"
    /\ UNCHANGED <<focus, feedVars, cameraVars, mediaVars, callVars,
                   messagingVars, spaceVars, cryptoVars, accessVars,
                   registryVars, leaseVars, capabilityVars, draftVars,
                   talkVars, listingVars, dayVars, receiptVars, nameVars,
                   keyVars>>
    /\ SignalingNext

StepMessaging ==
    /\ focus = "messages"
    /\ UNCHANGED <<focus, feedVars, cameraVars, mediaVars, callVars,
                   signalVars, spaceVars, cryptoVars, accessVars,
                   registryVars, leaseVars, capabilityVars, draftVars,
                   talkVars, listingVars, dayVars, receiptVars, nameVars,
                   keyVars>>
    /\ MessagingNext

\* Bounds: no account is being deleted while encryption comes to be required or once it is (a
\* deletion makes the items view-only, and what it does to the releases reads no content); and
\* what sets a deadline began at the clock's instant (a transaction waits for seconds, the
\* deadline is days away).
StepSpace ==
    /\ focus = "space"
    /\ UNCHANGED <<focus, feedVars, cameraVars, mediaVars, callVars,
                   signalVars, messagingVars, cryptoVars, accessVars,
                   registryVars, leaseVars, capabilityVars, draftVars,
                   talkVars, listingVars, dayVars, receiptVars, nameVars,
                   keyVars>>
    /\ SpaceNext
    /\ required' \/ requiring' => deletions' = [a \in Partners |-> Never]
    /\ breakupAt' \in {breakupAt, Never, clock + Grace}
    /\ \A a \in Partners : deletions'[a] \in {deletions[a], Never, clock + Grace}

StepCrypto ==
    /\ focus = "crypto"
    /\ UNCHANGED <<focus, feedVars, cameraVars, mediaVars, callVars,
                   signalVars, messagingVars, spaceVars, accessVars,
                   registryVars, leaseVars, capabilityVars, draftVars,
                   talkVars, listingVars, dayVars, receiptVars, nameVars,
                   keyVars>>
    /\ CryptoNext

StepAccess ==
    /\ focus = "accounts"
    /\ UNCHANGED <<focus, feedVars, cameraVars, mediaVars, callVars,
                   signalVars, messagingVars, spaceVars, cryptoVars,
                   registryVars, leaseVars, capabilityVars, draftVars,
                   talkVars, listingVars, dayVars, receiptVars, nameVars,
                   keyVars>>
    /\ AccessNext

StepRegistry ==
    /\ focus = "registry"
    /\ UNCHANGED <<focus, feedVars, cameraVars, mediaVars, callVars,
                   signalVars, messagingVars, spaceVars, cryptoVars,
                   accessVars, leaseVars, capabilityVars, draftVars, talkVars,
                   listingVars, dayVars, receiptVars, nameVars, keyVars>>
    /\ RegistryNext

StepLease ==
    /\ focus = "lease"
    /\ UNCHANGED <<focus, feedVars, cameraVars, mediaVars, callVars,
                   signalVars, messagingVars, spaceVars, cryptoVars,
                   accessVars, registryVars, capabilityVars, draftVars,
                   talkVars, listingVars, dayVars, receiptVars, nameVars,
                   keyVars>>
    /\ LeaseNext

StepCapability ==
    /\ focus = "capabilities"
    /\ UNCHANGED <<focus, feedVars, cameraVars, mediaVars, callVars,
                   signalVars, messagingVars, spaceVars, cryptoVars,
                   accessVars, registryVars, leaseVars, draftVars, talkVars,
                   listingVars, dayVars, receiptVars, nameVars, keyVars>>
    /\ CapabilityNext

StepDraft ==
    /\ focus = "drafts"
    /\ UNCHANGED <<focus, feedVars, cameraVars, mediaVars, callVars,
                   signalVars, messagingVars, spaceVars, cryptoVars,
                   accessVars, registryVars, leaseVars, capabilityVars,
                   talkVars, listingVars, dayVars, receiptVars, nameVars,
                   keyVars>>
    /\ DraftNext

StepTalk ==
    /\ focus = "talk"
    /\ UNCHANGED <<focus, feedVars, cameraVars, mediaVars, callVars,
                   signalVars, messagingVars, spaceVars, cryptoVars,
                   accessVars, registryVars, leaseVars, capabilityVars,
                   draftVars, listingVars, dayVars, receiptVars, nameVars,
                   keyVars>>
    /\ TalkNext

StepListing ==
    /\ focus = "listings"
    /\ UNCHANGED <<focus, feedVars, cameraVars, mediaVars, callVars,
                   signalVars, messagingVars, spaceVars, cryptoVars,
                   accessVars, registryVars, leaseVars, capabilityVars,
                   draftVars, talkVars, dayVars, receiptVars, nameVars,
                   keyVars>>
    /\ ListingNext

StepDay ==
    /\ focus = "days"
    /\ UNCHANGED <<focus, feedVars, cameraVars, mediaVars, callVars,
                   signalVars, messagingVars, spaceVars, cryptoVars,
                   accessVars, registryVars, leaseVars, capabilityVars,
                   draftVars, talkVars, listingVars, receiptVars, nameVars,
                   keyVars>>
    /\ DayNext

StepReceipts ==
    /\ focus = "receipts"
    /\ UNCHANGED <<focus, feedVars, cameraVars, mediaVars, callVars,
                   signalVars, messagingVars, spaceVars, cryptoVars,
                   accessVars, registryVars, leaseVars, capabilityVars,
                   draftVars, talkVars, listingVars, dayVars, nameVars,
                   keyVars>>
    /\ ReceiptsNext

StepName ==
    /\ focus = "nicknames"
    /\ UNCHANGED <<focus, feedVars, cameraVars, mediaVars, callVars,
                   signalVars, messagingVars, spaceVars, cryptoVars,
                   accessVars, registryVars, leaseVars, capabilityVars,
                   draftVars, talkVars, listingVars, dayVars, receiptVars,
                   keyVars>>
    /\ NameNext

StepKey ==
    /\ focus = "keys"
    /\ UNCHANGED <<focus, feedVars, cameraVars, mediaVars, callVars,
                   signalVars, messagingVars, spaceVars, cryptoVars,
                   accessVars, registryVars, leaseVars, capabilityVars,
                   draftVars, talkVars, listingVars, dayVars, receiptVars,
                   nameVars>>
    /\ KeyNext

Next ==
    \/ StepFeed \/ StepCamera \/ StepMedia \/ StepCalls \/ StepSignaling
    \/ StepMessaging \/ StepSpace \/ StepCrypto \/ StepAccess \/ StepRegistry
    \/ StepLease \/ StepCapability \/ StepDraft \/ StepTalk \/ StepListing
    \/ StepDay \/ StepReceipts \/ StepName \/ StepKey

Spec == Init /\ [][Next]_vars

TypeOK ==
    /\ focus = "feed" => FeedTypeOK
    /\ focus = "camera" => CameraTypeOK
    /\ focus = "media" => MediaTypeOK
    /\ focus = "calls" => CallsTypeOK
    /\ focus = "signaling" => SignalingTypeOK
    /\ focus = "messages" => MessagingTypeOK
    /\ focus = "space" => SpaceTypeOK
    /\ focus = "crypto" => CryptoTypeOK
    /\ focus = "accounts" => AccessTypeOK
    /\ focus = "registry" => RegistryTypeOK
    /\ focus = "lease" => LeaseTypeOK
    /\ focus = "capabilities" => CapabilityTypeOK
    /\ focus = "drafts" => DraftTypeOK
    /\ focus = "talk" => TalkTypeOK
    /\ focus = "listings" => ListingTypeOK
    /\ focus = "days" => DayTypeOK
    /\ focus = "receipts" => ReceiptsTypeOK
    /\ focus = "nicknames" => NameTypeOK
    /\ focus = "keys" => KeyTypeOK

\* The feed of a client that is live shows everything the server has published to it.
LiveFeed == focus = "feed" => LiveIsCurrent

\* Media objects, their rows and what the store holds agree, whatever failed between them.
MediaCorrect == focus = "media" => MediaAccounted

\* Messages, their reactions, receipts and counters agree with their history; so do the drafts
\* that become them, what a panel does to them and what it tells of them.
MessagesCorrect ==
    /\ focus = "messages" => MessagesAccounted
    /\ focus = "drafts" => DraftsAccounted
    /\ focus = "talk" => TalkAccounted
    /\ focus = "receipts" => ReceiptsAccounted
    /\ focus = "nicknames" => NicknamesAccounted

\* The shared items of a relationship are seen by whom they should be, and only when; none is
\* released while an account of the two is being deleted.
SpaceCorrect ==
    /\ [](focus = "space" => SpaceAccounted)
    /\ [][focus = "space" => DeletionHoldsReleases]_vars

\* What a member sees of the partnership: a listing read page by page has every row, once; the
\* days of the couple are counted right; and what a member is told, may do and can do agree in
\* every view.
ViewsCorrect ==
    /\ focus = "listings" => ListingsAccounted
    /\ focus = "days" => CalendarAgrees
    /\ focus = "capabilities" => CapabilitiesAgree

\* A group's devices, keys and recovery agree with what was committed.
CryptoCorrect == focus = "crypto" => CryptoAccounted

\* A call that is under way is scheduled to end, and its endpoints hold their sessions but for
\* those it has outlived; and what its two ends exchange and use is accounted for: the order of
\* their frames, the camera, and who owns the media of the call.
CallsCorrect ==
    /\ focus = "calls" => CallsAccounted
    /\ focus = "signaling" => SignalsInOrder
    /\ focus = "camera" => CameraMatchesState
    /\ focus = "lease" => OwnershipAccounted

\* Accounts: their sessions and cookies, the names and addresses they hold, and what was done
\* under their keys.
AccountsAccounted ==
    /\ focus = "accounts" => SessionsAccounted
    /\ focus = "registry" => RegistryAccounted
    /\ focus = "keys" => KeyAccounted

=============================================================================
