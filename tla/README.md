# A TLA+ model of the couple app's server

The repository is a private app for couples: two accounts form a *partnership*, share
messages, media, calls and a relationship space, and may part again. What is hard about
it is not the screens but the protocol between PostgreSQL rows, an API of many
concurrent transactions and a durable worker that acts on deadlines days later. So is
what the browsers do with it: several tabs that share queues, keys and the media of a call,
over requests whose answers are lost. This directory models both in TLA+, checks them with
TLC on small instances and proves the main invariants with TLAPS for every value of the
constants.

Paths below are relative to the repository's root.

## 1. Inventory

| Part | Where | State it keeps | Operations | Why it is hard |
|---|---|---|---|---|
| Partnership lifecycle | `apps/api/src/modules/partnerships`, `packages/db/src/repositories/partnership-lifecycle.ts` | `partnerships`, `partnership_members`, `breakup_processes`, `restore_intents`, `account_partner_eligibility`, `partnership_blocks` | form, initiate, cancel, restore intent, block, unblock | deadlines days ahead, competing members, generations |
| Account lifecycle | `apps/api/src/modules/accounts`, `repositories/account-auth.ts` | `accounts`, `account_deletion_requests`, sessions, devices, challenges, rate limits | request deletion, recover, finalize, sign in, reset | a pending deletion overlays the partnership |
| Finalizers | `apps/worker/src/partnerships`, `apps/worker/src/auth` | none of their own | breakup finalize, deletion finalize, one dissolution kernel | two workers may dissolve one partnership, late |
| Scheduled actions | `repositories/scheduled-actions.ts`, `apps/worker/src/scheduled` | `scheduled_actions` rows with lease, claim version, attempts | insert, cancel, claim, lock, complete, stale, fail, retry, reschedule | leases expire, workers die, acknowledgements are lost |
| Partner requests | `apps/api/src/modules/partner-requests`, `repositories/partner-requests.ts` | `partner_requests`, attempts, idempotency records | create, accept, decline, cancel, expire, invalidate | reciprocal requests, races with formation, rolling limits |
| Outbox | `repositories/outbox-events.ts`, `apps/worker/src/outbox` | `outbox_events` with lease | claim, renew, deliver, retry, fail | at-least-once delivery with external effects |
| Deletion manifests | `repositories/deletion-manifests.ts`, `apps/worker/src/deletion` | `deletion_manifests`, `deletion_targets` | create, claim, complete, retry, fail, resume | the manifest closes in a statement of its own |
| Calls | `apps/api/src/modules/calls`, `repositories/calls.ts`, `apps/worker/src/calls` | `calls`, participants, signalling connections | start, answer, connect, end, time out | timeouts race answers |
| Messaging | `apps/api/src/modules/messages`, `repositories/messaging.ts` | messages, change feed, receipts | send, edit, delete, read | sequence numbers, idempotent sends |
| Relationship space | `apps/api/src/modules/relationship-space`, its repository and release handler | items, versions, scheduled releases | create, edit, release, pause, wake | a release paused by a deletion, attempts that run out |
| Media | `apps/api/src/modules/media`, `apps/worker/src/media` | media objects, the object store | reserve, upload, bind, expire, delete | two stores, one transaction |
| Crypto groups | `apps/api/src/modules/crypto`, `repositories/crypto.ts` | devices, key packages, groups, epochs | register, initialise, commit, remove | epochs fence concurrent commits |
| Realtime | `apps/api/src/modules/realtime`, `apps/worker/src/realtime` | connections, scopes | subscribe, fan out, resync | events are hints and may be lost |
| Web client | `apps/web/src/lib`, `apps/web/src/features` | IndexedDB queues, drafts, MLS state, media-owner lease, panels | replay, synchronise, acquire, upload, send, acknowledge | tabs compete, accounts are switched, answers come late |
| Sign-in and accounts | `apps/api/src/modules/accounts` | sessions, devices, challenges, registrations, names | sign in, rotate, revoke, reset, register, rename | a session is read before the transaction that uses it |
| Idempotency | `reserveMutation`, `completeMutation` in `repositories/partnership-lifecycle.ts`, `partner-requests.ts`, `relationship-space-service.ts` | idempotency records | reserve, complete, replay | a repeat may find the state already gone |
| Domain | `packages/domain/src` | none: pure functions | capabilities, eligibility, dates | the guards of all of the above |

How they interact: every API handler and every worker handler runs in one
`READ COMMITTED` transaction (`packages/db/src/connection/transaction.ts`) that locks the
account rows of the pair, then the partnership row, and re-reads under those locks what it
decides on. Handlers talk to the future through `scheduled_actions`, to the outside
through `outbox_events`, both written in the same transaction as the state they follow
from. The worker claims such rows under a lease in a transaction of its own and executes
each in another. The client sees realtime hints and pulls.

What makes each part correct, in short: the *lifecycle* keeps its rows in agreement and
dissolves a partnership exactly once, at its earliest destructive deadline; an *account*
whose deletion is pending is eventually deleted or recovered, never both; a *scheduled
action* takes effect at most once and is not lost while attempts remain; a *partner
request* that is pending could still be accepted; an *outbox event* is delivered at least
once; a *deletion manifest* closes only when all its targets are erased; a partnership
has at most one current *call*, and a timeout waits to end it; *media* are readable or
accounted for; a group's *epoch* has one successor; a *client* that shows itself live shows
what it was told of. The hazards in
`PROJECT.json` name the line where each could go wrong.

## 2. Modules

| Module | What it is |
|---|---|
| `PartnershipLifecycle` | partnerships, breakups, deletions, cooldowns, blocks, and the finalizers |
| `ScheduledActions`, `AtMostOnceEffect` | the durable queue and the worker's consumer, statement by statement; what it promises |
| `PartnerRequests` | requests between accounts, and what formation, deletion and blocks do to them |
| `Outbox`, `AtLeastOnceDelivery` | outbox events, leases, handlers and recipients; what it promises |
| `DeletionManifests` | the erasure of a dissolved partnership, target by target |
| `OfflineReplay` | the queues a browser keeps in IndexedDB and the replay engines of its tabs |
| `ClientFeed` | the realtime hub's hints, the sync coordinator and the panel's cursor |
| `Calls` | the calls of a partnership, their timeouts and what ends them from outside |
| `CallSignaling`, `CallCamera`, `MediaOwnership` | frames between the ends of a call; the camera; the tab that owns the media |
| `MediaObjects` | uploads, bindings, expiry and deletion against the object store |
| `Messaging` | messages, reactions, nicknames, receipts and the change log, server side |
| `MediaDrafts`, `TalkActions`, `ReadReceipts`, `Nicknames` | what the messaging panel does with them, await by await |
| `RelationshipSpace`, `Listings`, `OurDays` | shared items and their release; paged listings; the calendar |
| `CryptoGroups`, `CryptoRuntime` | the encryption group on the server and on the devices |
| `AccountAccess`, `AccountRegistry` | sessions, codes and cookies; names and addresses |
| `Capabilities` | what the members may do, by the domain and by each service |
| `Idempotency` | one key and the requests that carry it |
| `MCPartnershipLifecycle`, `MCScheduledActions`, `MCPartnerRequests`, `MCDelivery`, `MCContent` | the modules TLC runs |
| `*Proofs` | the theorems of the module they are named after; `DeliveryProofs` those of the modules of `MCDelivery`, `PartsProofs`, `MessagesProofs` (the chat) and `SharingProofs` (the space and the encryption group) those of the parts of the content layer, `ContentProofs` what they give for `MCContent` |

### PartnershipLifecycle

State: one variable per table, reduced to the open row where the code reads no other
(`breakup[p]` is the one process with `status = 'open'`, `deletion[a]` the latest request,
`cooldown[a]` the row without `resolved_at`, `slots[a]` the memberships without
`released_at`). `breakupJobs` and `accountJobs` are the scheduled actions of the two
finalizers that can still act. Instants are small integers.

A handler holds its row locks from its first read to its commit, so it is **one action**,
with everything it calls: `FinalizePartneredAccount`, for example, dissolves the
partnership, closes its breakup, inserts the cooldowns, cancels the breakup's actions and
erases the account in one step. Two things are not atomic with a handler and stay visible:

* **Its timestamp.** `getTransactionTimestamp` is `transaction_timestamp()`, the time of
  BEGIN, and the handler may then wait for its locks. Every action picks `now` from
  `TxTimes`, up to `MaxLag` instants in the past. A caller names a row it has read, so its
  transaction began no earlier than that row became visible: the `visible` fields.
* **The claim of its action.** A worker claims (`ClaimBreakupJob`) in an earlier
  transaction; until it executes, the API may cancel, restore or extend, and a claimed
  action is not among those the API cancels. The generation guard (`DropStaleBreakupJob`)
  is what keeps it harmless.

The legacy action `account_deletion_breakup_precedence_finalize` is registered by the
worker but scheduled by no code, and is left out. A finalizer that runs before its deadline
throws and is retried; as the claim requires `execute_at` and BEGIN follows the claim,
`HandlerTimes` admits no such run.

### ScheduledActions

State: the rows (`action`), the generation of the aggregate each is about, what the
workers hold in memory (`claims`, each with a phase), and a history variable `effects`
that counts commits of a handler's mutation. Time is reduced to the two comparisons the
statements make: `ready` (`available_at` has come) and `expired` (`lease_expires_at` has
passed); `ExpireLease` may happen at any step, so every lease length is covered. The
phases are the awaits of `executeClaim`: claimed, locked (the row lock taken), guarded (the
generation guard passed), failing and retrying (the transaction is over, the statement on
the pool is still to come). A commit may be followed by an error at the worker
(`Committed`), a rolled back transaction is started again by `withTransaction`
(`Restart`), and a worker may stop anywhere (`Lose`).

### PartnerRequests

State: the `partner_requests` rows in the order of their insertion (`request[i]`, never
removed, so a property can speak of what became of earlier ones), and of the neighbours
what the request handlers read: account status, the current partner, the instant from
which an account may pair, blocks, and which pairs are former partners. Attempts need no
variable: each insertion of a request records one. The service runs in its `paired` mode.

`create` is one transaction under the locks of both accounts and three actions by its
outcome: `DenyRequest` (which keeps the expirations it made), `CreateRequest`, and
`CreateReciprocal`, which inserts the row and forms the partnership with the one it
crosses. `AcceptRequest`, `CancelRequest` and `DeclineRequest` name a request their caller
has seen (`visible`); an answer that comes too late is the same `ExpireRequest` as the
worker's. The neighbours' handlers are reduced to what they do to this state:
`RequestDeletion` and `BlockFormerPartner` with the invalidations they make, the finalizers
with a deadline that may lie any time in the past. A finalizer may end a partnership here
at any time: which partnerships end, and when, is the subject of `PartnershipLifecycle`.

### Outbox, DeletionManifests, OfflineReplay

Work that is claimed under a lease, done outside the claiming transaction and acknowledged.
Every statement is a transaction of its own and a step, so leases expire under a handler, a
second worker or tab takes over, and the first one's late statement must be refused by its
claim version.

* `Outbox`: `event` are the rows, `deliveries` what the workers hold in memory, with the
  recipients still to be reached; a handler's push, mail or hint is `Reach`ed before its
  acknowledgement, which may be lost. `sends` and `owed` are history: who was reached, and
  who has been due since the event was posted. The deletion of an account erases the row of a
  security mail, sent or not (`ScrubAccount`), and the worker then acknowledges an event
  nobody received: the mailbox of an erased account is no longer owed anything.
* `DeletionManifests`: `target` rows and `manifest`; `runs` are claimed targets in memory.
  `content` and `mediaRows` are what is still in the database, `stored` what is in the object
  store, outside every transaction; a device may upload as long as its URL is valid
  (`grants`). A target is completed and the manifest closed in two statements.
* `OfflineReplay`: `queued` are rows of the two queues, `replay` what each tab's engine is
  doing, `scope` whether the tab still shows the partnership. An IndexedDB transaction is one
  step, and while a request is under way anything happens in the other tabs and on the server.

### ClientFeed

The server numbers the changes (`feed`); `frames` only hint at them and may be lost. Every
await of the coordinator's pass and of the panel's `syncChanges` is a step: a pull reads the
changes after `cursor`, commits them, and reads what is newer than the newest it knows. The
answer to an own message moves `cursor` too, which is what `skipped` remembers.

### Calls, CallSignaling, CallCamera, MediaOwnership

`Calls`: a request is authenticated, then served later by one transaction under the locks of
the accounts, the lifecycle and the call; so a session may be revoked in between. `timeouts`
are the scheduled actions with the phase and generation they were made for. `outlived` are
the sessions whose revocation a live call has outlived: the request was under way, or the
revocation is one that ends no calls (password recovery, change of address).
`CallSignaling`: the hub runs one callback at a time and awaits the database in between; a
connection is replaced by a later generation. `CallCamera`: each await of `enable`, `disable`
and `switchFacingMode` is a step. `MediaOwnership`: a session of a tab acquires, renews and
loses the lease in IndexedDB; timers of a suspended tab may be missed any number of times.

### MediaObjects, Messaging, RelationshipSpace

API handlers lock the rows they change and are one step. The worker's media handlers load the
row without a lock and write it later; the object store is outside every transaction and is
not rolled back with it. `log` is the conversation's change feed, each entry with its request;
`events`, `releases` and `itemKeys` are the rows that must follow the items.

One statement is not one step: the `UPDATE` that requires encryption
(`activatePartnershipCryptoIfReady`) locks nothing before it runs. Its snapshot looks for plain
content, then it may wait for the partnership's row, which a plaintext write holds without
changing it, and goes on without looking again. So `Messaging` has `BeginActivation` and
`ActivateCrypto`, `RelationshipSpace` has `BeginRequiring` and `RequireCrypto`, and what is written plain
in between is remembered (`missed`, `unsealed`). In `MediaObjects` and `CryptoGroups`, whose
properties are about other things, the activation is one step.

### MediaDrafts, TalkActions, ReadReceipts, Nicknames

The messaging panel, each await a step, between a server that answers late or not at all and
other panels and devices of the same account. History variables name what the panel does
wrong by design or by oversight (`repeated`, `overtaken`, `jumped`, `moved`), and the
properties say that nothing else goes wrong.

### CryptoGroups, CryptoRuntime

`groups` are the generations of a partnership's group with members, epoch and log;
`contentKeys`, `recovery`, `spent` key packages the other tables. The runtime stages a change
in the device's vault, sends it, and promotes it only when it sees that the server accepted
it, however its answer was lost.

### AccountAccess, AccountRegistry, Idempotency, Capabilities, Listings, OurDays

A request reads its session or its password before the transaction that acts on it, and its
answer may be lost, so `AccountAccess` keeps requests in slots and cookies in browsers. In
`AccountRegistry` a name is found free by one statement and taken by another, and only the
unique index stands in between. `Idempotency` is one key under the three protocols the
services have for it. `Capabilities` compares the contexts in which the services ask for a
capability with each other and with the domain's transitions. `Listings` reads any of the five
keyset listings page by page while rows change and reloads overtake pages. `OurDays` is the
calendar, with dates as the eight digits that make them.

## 3. Runs

| Run | Instance | Question |
|---|---|---|
| `lifecycle_pair` | 2 accounts, 1 partnership, 4 generations, 2 deletions, lag 1 | do the rows agree, are finalizers armed, does the earliest deadline win, in every interleaving of a pair? |
| `lifecycle_reform` | 3 accounts, 2 partnerships, lag 1 | do slots, cooldowns and blocks hold across partnerships? |
| `lifecycle_liveness` | 2 accounts, 1 partnership, fairness | do every breakup and deletion end? |
| `lifecycle_double_deletion` | both members delete | **violated**: does the earliest deadline *always* win? |
| `lifecycle_late_recovery` | lag 2 | **violated**: is an open breakup always finalized? |
| `scheduled_actions` | 1 action, 2 workers, 3 attempts, 2 generations, fairness | is the effect applied at most once and fenced, does the action settle? |
| `scheduled_last_attempt` | 2 attempts, no fairness | **violated**: does an expired lease make the work reclaimable? |
| `requests_three` | 3 accounts, 2 requests, lag 1 | can what is pending be accepted, has a pair one pending request? |
| `requests_limits` | 2 accounts, 3 requests, 2 a month, lag 1 | do the cooldown after a decline and the monthly limit hold? |
| `requests_stale_count` | 2 accounts, 3 requests, 2 a month, lag 1 | **violated**: is the limit kept in *every* month? |
| `delivery` | 1 event and 1 device, 2 targets and 1 object, 2 queued operations; 2 workers or tabs each; fairness | is nothing acknowledged that was not done, and does everything settle? |
| `content` | nineteen parts, each alone on an instance of its own | do what clients show, what rows say and what was asked for agree in each part? |

`MCDelivery` and `MCContent` hold parts that share no state. A variable `focus`, chosen in the
initial state, says which one a behaviour is about; in `MCContent` the variables of the others
are `NoPart`. So one run explores the parts one after the other, never their product, and each
conjunct `focus = "x" => P` is an invariant of part x. Where parts interact, the neighbour is
reduced, in the module, to what it does to this part's state: `MediaObjects` to the
containers of messages in `Messaging`, the lifecycle to a phase, a policy or a deadline.

Bounds of the lifecycle, queue and request runs. The windows keep the order and the sums that
matter (`CancelWindow < BaseWindow < ExtendedWindow`, a recovery window equal to or shorter
than the breakup's so that either deadline may come first and both may coincide). Two accounts
are one pair, with both roles in each; the third account lets a dissolved member pair with
another; four generations allow initiate, first intent, restore and a second breakup. Two
deletions are one of each member, or a request, a recovery and a second request. `Horizon`
bounds the clock and `WithinHorizon` lets only what can reach its last deadline start, so no
property holds because time ran out. `MaxLag` is 1 in the passing runs: a transaction never
waits as long as the distance of two different deadlines (lock waits are bounded by
`lock_timeout`, deadlines are hours and days). `MaxLag = 2` removes that, and is the run
`lifecycle_late_recovery`. One action suffices for the queue, as actions share nothing but the
workers; two workers are a holder and a thief; three attempts leave one to waste. Two requests
among three accounts are the one that is accepted and one, in either direction, that it makes
impossible, or two that cross; three in one direction with a limit of two are one too many,
and a clock of three instants holds one rolling month.

Bounds of `delivery`. Two workers or tabs are a holder and one that takes over; two claims or
deliveries let it. Two targets, of which one is the media, let one be completed by each worker
at once, which is where closing the manifest is delicate; one object suffices, as a handler
treats them one by one. Faults and lapses are bounded by one, and what needs more of them is
one more round of the same.

Bounds of `content`. Two changes are one that is seen and one that comes meanwhile; two
uploads, one that expired and its successor; two sessions of one member and one of the other,
a device that takes the call over; two messages, a member and the other, with three
mutations, so that a repeat, an edit and a deletion meet; two tabs, panels or pages wherever
they compete; one loss or mishap each, at any place. The three crypto devices are one founder,
one to be added and the partner's. The items of the space get three versions
together, so that a reschedule is followed by a release, and a release by another or by a new
link; both partners may delete their accounts, at once or one after the other; one of the two
items refers to photos. `StepSpace` adds two bounds to the part: encryption is not required
while an account is being deleted nor the other way round, since one is about what may be written
and the other only about when it is released; and a deadline is counted from the clock's
instant, since locks are waited for seconds. The proofs of the part do without both.
`Listings` pages by one row of three, so that every row is a page's end. `OurDays` starts from month ends and leap days, on the days around them.

Deadlock checking is off because an instance really stops: at the horizon, with its only
action settled, or with all identifiers and mishaps used.

Fairness. Time passes (`Tick`, `Due`, `ExpireLease`). The worker's poll loop keeps claiming
what is due, so a claim that stays possible is made (weak fairness of the claims). A claimed
action is executed, and one that fails on a transient error is retried until an attempt
commits: the retry may interrupt it for ever in the model, so this is strong fairness of the
execution in `PartnershipLifecycle`. That module does not count attempts; what happens when
they run out is the subject of `ScheduledActions`, whose liveness (`ActionSettles`) admits
that outcome, that of an action rescheduled until none are left included, and assumes
nothing of `Lose`. In `MCDelivery` all fairness is weak: an event or
a target comes due and its lease runs out, the consumers' loops claim, a delivery or an
erasure that was begun goes on unless its worker dies; a queued retry comes due and a claim
lapses, an open tab becomes ready and its engine runs. `MCContent` states safety only and has
no fairness. No fairness is assumed of users.

Disagreements that a run shows (the `findings` of `PROJECT.json`):

1. With both members deleting, the later request may be finalized first and the partnership
   ends at the later deadline, though the design says the earliest wins.
2. A recovery decided at BEGIN's timestamp can commit after the breakup finalizer has
   yielded to that deletion: the breakup stays open with no action left. It needs a
   transaction older than the gap between the two deadlines, seconds when they are close.
3. An action whose worker dies in its last attempt stays `processing` for ever, though the
   design says an expired lease makes it reclaimable.
4. A request whose transaction began before others of the same sender and recipient that
   have since come and gone does not count them, and is one more than the limit of its month.
   `MonthlyLimitEnforced` states what does hold: requests stamped in the order of their
   insertion respect the limit.

Others, met while modelling. Where a property holds but for one of them, a history variable
(in parentheses) remembers the case and the property excepts it:

* After an own send the panel's cursor moves past changes of the partner it has not read
  (`MessagingPanel.tsx:1157`, `:470`; `skipped`), which are then acknowledged as read
  (`jumped`); `docs/architecture/M2_REALTIME_OFFLINE_DESIGN.md:839` wants every change applied.
* An answer of `refreshMessage` read before a pull and merged after it replaces newer content
  (`MessagingPanel.tsx:189`, `:508`; `overtaken`). A nickname typed on an older version is
  saved with the newest `expectedVersion` (`:328`, `:2075`; `moved`). `loadMore` of
  `useRelationshipItems` has no generation check (`data.ts:62`; `crossed`).
* Drafts: a message whose upload or refresh failed with a 4xx may be sent again under a new
  key (`MessagingPanel.tsx:1191`; `repeated`); a draft removed during its upload is written
  back (`media-runtime.ts:298`; `removed`); `Composer.tsx:410` keeps no key across presses.
* An upload expired by the worker while a handler binds it (`media-handlers.ts:63`;
  `expired`). An upload URL outlives the object's deletion (`late`, `strays`).
* `completePasswordRecovery` and `completeEmailChange` revoke sessions without ending their
  calls (`account-service.ts:971`, `:1128`; `outlived`), against
  `docs/architecture/C1_VOICE_CALLING_DESIGN.md:434`.
* A session stopped while `lease.acquire()` is pending is granted the lease and renews it
  (`media-controller.ts:103`; `leaked`); `onOwnershipLost` forgets the panel's session
  whichever one lost (`CallingPanel.tsx:232`; `displaced`). Overlapping camera operations can
  withdraw another's track (`camera-controller.ts:107`; `cleared`).
* A release seen by a worker after the last deadline is given up although a restore that began
  before commits later (`rules.ts:237`; `dropped`).
* A tab opened after the dissolution never purges the namespace of the old partnership, and
  one that purged may add to it (`runtime-context.tsx:186`; `strays`); the replay engine lets
  later operations overtake one that waits (`replay-engine.ts`).
* A change dispatched between the hub's reading of the latest change and its indexing of the
  connection is hinted by neither (`realtime-hub.ts:273`); the anti-entropy pass finds it.
* The start of a recovery set-up reads the group without a lock, and a reset in between leaves
  the policy on a generation that is superseded (`crypto-service.ts:880`); a founder who is
  revoked while alone leaves the group stuck (`:471`); five key packages are uploaded once and
  never again (`crypto-api.ts:105`).
* The statement that requires encryption misses what a plaintext write commits while it waits for
  the partnership's row (`crypto.ts:981`; `missed`, `unsealed`), against
  `docs/security/SECURITY_MODEL.md:412` and `docs/testing/TEST_STRATEGY.md:900`. A change of the
  group that adds a device is safe, as it locks the accounts first; one that removes or updates
  is not.
* A security mail whose account is deleted before it was sent is acknowledged unsent
  (`auth-email-handlers.ts:95`, `account-auth.ts:1478`; `owed` is adjusted).
* A password is verified before the transaction that opens the session, so a sign-in with the old
  one may outlast a reset (`account-service.ts:615`); `AccountsAccounted` counts its session as
  a current one.
* A call whose timeout action runs out of attempts is ended by nothing (`scheduled-actions.ts:136`);
  a release rescheduled once per deletion keeps the attempt it used (`:286`). `Calls` and
  `RelationshipSpace` count no attempts.
* `cancelBreakup` answers 404 to the repeat of a cancel that succeeded, before its idempotency
  record is read (`partnership-service.ts:592`).

## 4. Proofs

TLAPS proves, for every set of accounts and partnerships, every window, lag and bound
(under `AccountsAssumption`, `WindowsAssumption`, `BoundsAssumption`):

* `TypeCorrect`: `Spec => []TypeOK`, one lemma per handler: the types of the rows (`RowTypes`) and
  the constraints of their tables (`TableChecks`): a partnership has a reason exactly when it is
  terminated, a breakup is initiated and restored by members, and nobody blocks himself.
* `SlotsCorrect`: `SlotsFollowLifecycle`. Every step is first classified by what it does to
  the rows (`StepKinds`): it forms a partnership (`Forms`), moves its lifecycle (`Moves`),
  ends it (`Ends`), or leaves partnerships and slots alone. Each class preserves the
  invariant, which is inductive together with `TypeOK`.
* `BlocksCorrect`: `BlockedPairApart`. The inductive invariant is `BlocksInv`, which adds
  that nobody blocks himself (`BlocksOfOthers`): formation needs no block, and a block needs
  a caller who is not in a partnership with its target, which the slots tell.
* `BreakupCorrect`: `BreakupMatchesLifecycle`, by the same classes of steps, inductive
  together with `TypeOK`.
* `FinalizerAlwaysArmed`: `FinalizerArmed`, inductive together with `TypeOK`. A handler that
  cancels a breakup's actions inserts the one that replaces them or closes the breakup; a
  worker drops only an action that is not of the current generation, and yields or
  finalizes only when the deadline has passed.
* `DeletionAlwaysArmed`: `DeletionArmed`, proved for each account by itself
  (`ArmedAccount`), inductive together with `TypeOK`: a new request comes with its action,
  and that action goes only with the request.
* `EndsAtEarliestDeadline`, `DeletionAlwaysFreezes`, `GenerationsFence`: the action properties
  `EarliestDeadlineWins`, `DeletionFreezes` and `GenerationFences`. They hold of every step
  from a state in which the rows agree, and follow from the invariants above.
* `CooldownsNeverCollide`: `NoCooldownCollision`. Formation asks that both accounts carry no
  open cooldown, and one is opened only by the dissolution that frees its accounts.
* `CooldownsEnforced`: `CooldownEnforced`, with `CooldownInv`: a member of an ended
  partnership is deleted, still sits its cooldown out, or is in a partnership that began after
  it (`CooldownsServed`), and the instants in a row are in their order (`RowsInOrder`). It needs `LagAssumption`,
  `MaxLag <= RecoveryWindow`: a transaction that waited longer than the recovery window could
  form a partnership dated before the end of the last one.
* `BreakupsAbandonedByLateRecovery`, for every lag: a breakup is never open without an action that
  ends it and without a deletion, due before it, that will (`Abandoned`), unless a member
  recovered after the breakup's deadline on a timestamp from before the end of its own window
  (`LateRecovery`). `BreakupNeverOrphaned` forbids the case altogether and is checked at a lag of
  one, where no recovery can be that late; `lifecycle_late_recovery` shows it at two.

for every number of actions, workers and attempts (`WorkersAssumption`,
`LimitsAssumption`):

* `ScheduledActionsProofs!TypeCorrect`.
* `ExecutionOwns`: `ExecutionOwnsRow`. The inductive invariant `IInv` adds to the types that
  a claim version in memory never exceeds the row's, with one claim per version (`Fenced`).
* `EffectsFenced`: `EffectFenced`, an action property that follows from the types.
* `ImplementsAtMostOnceEffect`: `Spec => AtMostOnce!Spec`, a refinement. On top of `IInv`,
  `EffectsOnce` says that an effect has happened at most once and then only of a row in a
  final status; each step is shown to leave the outcome of an action alone or to move it
  as the abstract specification allows (`Moves`, `MovesRefine`).

for every set of accounts, every period, limit and lag (`PairAssumption`,
`PeriodsAssumption`, `RequestBoundsAssumption`):

* `PartnerRequestsProofs!TypeCorrect`. A step closes pending requests (`Closes`) or adds one
  and closes the others of its pair (`Adds`); the next three theorems use no more.
* `RequestsUncrossed`: `NoCrossedRequests`, inductive together with `TypeOK`.
* `CooldownAfterDecline`: `DeclineCooldownEnforced`. The inductive invariant `CooldownInv`
  adds that rows fill the identifiers in order (`Contiguous`) and that the earlier of two
  requests in one direction is no longer pending (`EarlierClosed`), so it cannot be declined
  after the later one was sent.
* `MonthlyLimitHolds`: `MonthlyLimitEnforced`. The request that would be too many is the last
  one stamped; the sender's earlier ones of the month are then all counted by the check.
* `PendingCanBeAccepted`: `PendingAcceptable`, inductive together with `PartnersMutual`: the
  partnership that ends is that of both its members, and neither has a pending request.

for every number of events, devices, workers, targets, objects, operations, tabs and attempts
(the assumptions of `Outbox`, `DeletionManifests` and `OfflineReplay`):

* `DeliversAtLeastOnce`: `OutboxSpec => ImplementsAtLeastOnce`, a refinement (the mailbox of an
  erased account is owed nothing), and
  `OutboxTypeCorrect`. `OutboxInv` says at each step of a delivery in memory
  whom it has reached (`DeliveriesOnTrack`: whoever is owed and not reached is still on its
  list, so none is when it is done) and whom an event can be owed at all (`OwedByKind`);
  `SendsWithinAttempts` counts the sends that every overlapping delivery may still make
  against the attempts of the row.
* `ManifestCorrect`: `ManifestMatchesTargets`, with `DeletionTypeCorrect` and the action
  property `CompletionFinal`. `DeletionInv` adds that a run that is done has erased its target
  and forgets a row only when its object was deleted from the store (`RunsErase`), that a
  completed target stays erased (`CompletedErased`), and that an object is back in the store
  only by an upload (`ObjectGoesFirst`).
* `QueueCorrect`: `QueueReflectsServer`, and `OfflineTypeCorrect`. `OfflineInv` adds that a
  tab works on one operation at a time, that an answer it holds is to an operation the server
  has applied (`AnswersApplied`), that a tab leaves only a partnership that ended
  (`LeftWhenDissolved`), and that what was queued after that was never answered
  (`StraysUnanswered`).
* `DeliveryTypesHold`: `MCDelivery`'s `TypeOK`, and `DeliveryHolds`: the refinement and the
  properties above for the composition. A step of it is one of each part or leaves it alone
  (`StepsOfParts`), so a behaviour of it is one of every part (`BehavesAsParts`).

for every set of sessions, calls, media, uploads, changes, losses, tabs, frames and camera
operations, browsers, requests, names and payloads (the assumptions of `Calls`,
`MediaObjects`, `ClientFeed`, `CallCamera`, `MediaOwnership`, `CallSignaling`,
`AccountRegistry` and `AccountAccess`), over the specification of `MCContent`:

* `MediaReadableOrAccounted`: `MediaCorrect`. `MediaInv` adds what is still true of the row a
  worker has loaded (`ExecutionsKnown`: it is being deleted, or its expiry is on record) and of
  the object the API has verified (`ChecksHold`), and the shape of a row (`RowShape`).
* `LiveShowsWhatItWasTold`: `LiveFeed`. `FeedInv` adds that the cursor never stands beyond what
  is shown or was skipped (`CursorCovered`), and that a pass that finds nothing new was aimed
  at all the coordinator had been told of (`RunCovered`). Without them the property is not
  inductive: it speaks only of a client that is live already.

* `CallsHold`: `CallsCorrect`, from a theorem of each of its parts (`PartsProofs`), whose
  inductive invariants TLC confirmed first:
  * `CallsAlwaysAccounted`: `CallsAccounted`. `CallsInv` adds that every transition gives a call
    a version and a generation of its own (`VersionOfPhase`), so a timeout of an earlier phase
    never fits the current one.
  * `CameraEndsAsShown`: `CameraMatchesState`, which speaks only of the camera at rest.
    `CameraInv` says how it gets there: an open track is the controller's, or an enable's
    still at work, or about to be closed by an entry of the chain (`LiveAccounted`); a
    state that is not what the tracks say has an entry that will set it (`StateAccounted`,
    `Settling`); an enable that a disable waits behind was overtaken (`ChainInOrder`).
  * `OwnershipAlwaysAccounted`: `OwnershipAccounted`. `LeaseInv` is mostly about one session at
    a time: from the grant to the stop its renewals run and are watched (`WatchedRow`), a stop
    leaves nothing behind and arms no timer later (`StoppedRow`, `Leaks`), and a session in
    play is in its panel's hand (`InHand`). `PlayersAssumption`: the value that stands for no
    session is none.
  * `SignalsNeverSkip`: `SignalsInOrder`. `SignalInv` numbers the frames along their way: what
    awaits the database ends with the last frame sent (`SenderInOrder`), the backlog is one
    sender's whose peer is not connected and ends where what awaits begins (`BacklogInOrder`),
    and what has been received ends there too, or is of an earlier connection
    (`ReceiverInOrder`). Frames are filtered by a recursive function (`Filtered`); that a
    filter keeps all or nothing is shown from the least counterexample (`FilteredAll`,
    `FilteredNone`), as no induction theorem can be instantiated.

* `AccountsHold`: `AccountsAccounted`, from a theorem of each of its parts (`PartsProofs`):
  * `SignedOutForGood`: `SessionsAccounted`. That a signed-out session stays out
    (`SignedOutStaysOut`) is kept by every step as it is. That a live token is held is not:
    `AccessInv` adds that the token an answer carries is the current one of its session and
    that no browser, answer or running request has the same (`AnswerAlone`), which is what the
    comparison of generations before a rotation is for, that a token is never ahead of its
    session (`TokenKnown`), and that sessions and devices are numbered as they come
    (`NumberedInTurn`), so that a new one is not one that was revoked.
  * `NamesAreHeldOnce`: `RegistryAccounted`. `RegistryInv` adds what a transaction may rely on
    of what it found (`Found`) and that a member of a partnership keeps the name it was paired
    under (`PairedAsNamed`). `RegistryAssumption`: "none" is nobody's name.
  * `KeysExecuteOnce`: `KeyAccounted`. `KeyInv` adds that the stored answer is that of an
    execution of the stored request (`StoredTrue`), that nothing was executed without a record
    that outlives it (`EffectsRecorded`), and that a partner request is answered by the one
    record there will ever be (`AnswerStored`).

* `ChatHolds`: `MessagesCorrect`, from a theorem of each of its parts, all in `MessagesProofs`:
  * `KeysMatchWhatIsSealed`: `MessagesAccounted`. `MessagesInv` adds that no two rows share a
    key (`RowsApart`), that what is plain while the activating statement waits was written since
    its snapshot, that the log holds every request once and ends with the last change of
    each message (`LogInOrder`), and what an open freeze keeps away from a message
    (`FreezeHolds`).
  * `TalkNeverRepeats`: `TalkAccounted`. `TalkInv` adds that a version of the text is a version
    of the row and has one author (`VersionsInOrder`), that a waiting operation carries the
    version its member was looking at (`Grounded`), and that a panel no answer has overtaken
    shows at least what it has pulled (`PanelCurrent`).
  * `ReceiptsClaimWhatIsThere`: `ReceiptsAccounted`. `ReceiptsInv` says of whatever holds a
    receipt, on the server, on the device or in a panel's hand, that it claims what the device
    has (`RowSound`), and of a panel that it shows everything below its cursor and its newest
    message, except while it loads (`PanelReady`).
  * `NicknamesReplaceWhatWasSeen`: `NicknamesAccounted`, inductive together with its types.
  * `DraftsLeaveOnlyWhenSent`: `DraftsAccounted`. `DraftsInv` says of a draft what may have
    become of its object (`ShelfHolds`), of a page what it still knows of the draft it works on
    (`TaskHolds`), that a key is of one page and one sending (`KeysHold`), that what is bound
    was sent once (`BoundHolds`), and that the sendings of a text have one key until it is sent
    again on purpose (`TextsHold`). The attempt to prove it showed that the property was false
    for more keys than the runs use: a message changed after a send without an answer, and
    changed back, is sent under a new key, and the replaced sending was not in `repeated`.
    `Overtaken` records it now.

* `SpaceHolds`: `Spec => SpaceCorrect`, from `SpaceHoldsTogether` and `ReleasesWaitForDeletions`
  (`SharingProofs`). The first is the invariant `SpaceAccounted`; the second the action property
  `DeletionHoldsReleases`, that nothing is released while a deletion is pending, which
  holds of each step, as the release handler reads the deletions under its locks.
  `SpaceInv` adds that a waiting item has one action of its generation (`ArmedSound`, which is
  `ReleaseArmed` in the terms a step changes), that no action is ahead of its item and a
  claimed one is due (`ReleasesSound`), and that the events of an item are numbered and only a
  released one has that of a release (`EventsSound`), from which their number follows. An item
  is never linked to itself (`LinksSound`). `SpaceAssumption`: the values that stand for a free
  and a deleted photo name no item.

* `CryptoHolds`: `CryptoCorrect`, from `CryptoHoldsTogether` (`SharingProofs`):
  `CryptoAccounted`. None of its conjuncts is inductive, because what a device will do depends on
  requests that are staged, on the wire, or answered and not yet seen. `CryptoInv` adds what these
  hold:
  * the log of a generation is its commits, one epoch each, after the reset that founded it
    (`GroupsSound`);
  * a staged commit continues a state the group had, and an id belongs to one request, sent once
    (`OpsSound`, `OnceStaged`); what the server has under that id is what was staged
    (`OpsLogged`); a founding that may still be accepted, or was accepted without its device
    knowing, is still in the vault (`WireSound`, `ResetsKept`). This is why a founder whose answer
    was lost can join its own group;
  * a copy of the active group is a prefix of it (`CopiesSound`), an answer speaks of the newest
    request of its device and says what happened (`WaitingSound`), and what a device has loaded is
    old but of its own making (`LoadedSound`);
  * a sealed content key is of the state it was checked against (`EnvelopesSound`), and a recovery
    setup names a generation there was (`SetupSound`).

  A member can join (`JoinSound`) in terms of its own requests, copy and welcomes, from which the
  recovered reset of `MembersCanJoin` follows. The one assumption, `CryptoBounds`, is that the
  bounds of the model are numbers.

The composition of the content layer is handled once: `PartsInv` is the conjunction of the parts' invariants under
their focus, `PartsStep` shows that a step of another part leaves a part's variables alone.

Only model-checked: all liveness (`BreakupResolves`, `DeletionResolves`, `ActionSettles`,
`EventSettles`, `TargetSettles`, `QueueSettles`), as liveness under fairness is outside what
the prover handles; `ViewsCorrect`, whose parts fold over pages, count days, which is induction
over data, or speak of ENABLED (`CapabilitiesAgree`); the types of `MCContent`: the parts' inductive invariants hold what of them the
proofs need, and the rest includes pages that are sorted and durations that are counted, whose
types are inductions over data too.

## 5. Not modelled

Listed per component in `PROJECT.json`. Of the server: notices, emails' wording, audit events,
rate limits but those of sign-in, the legacy precedence action, reminders, the image pipeline,
TURN credentials, key rotation of HMACs. Of the clients: rendering, WebRTC negotiation, the
MLS library and what ciphertexts contain, layout, typing and presence. Within the modelled
parts, each module's header says what it leaves out.

## 6. Plan

1. Lifecycle, queue, requests, outbox, manifests, offline queue, calls and what their ends
   exchange, media, feed, accounts: modelled,
   checked and proved but for liveness. Left: the pure
   `packages/domain/src/partnership/state-machine.ts` as the abstract specification of
   `PartnershipLifecycle` (`Capabilities` compares the two on an instance), and the neighbours
   of `PartnerRequests` as a refinement of it.
2. Content layer: every safety invariant of `MCContent` is proved but `ViewsCorrect`. Left: the
   liveness of the devices (a member that can join does join), which the runs do not check either,
   and a proof of the pages of `Listings` by an induction over their order.
