------------------------ MODULE PartnershipLifecycle ------------------------
(***************************************************************************)
(* The lifecycle of partnerships and of the accounts in them, as the       *)
(* PostgreSQL rows carry it: formation, breakup (initiate, cancel, restore,*)
(* finalize), account deletion (request, recover, finalize), the cooldown  *)
(* that follows a dissolution and the block of a former partner.           *)
(*                                                                         *)
(* Every handler runs in one READ COMMITTED transaction that first locks   *)
(* the account rows of the pair and then the partnership row, and re-reads *)
(* what it decides on under those locks, so a handler is one action.  Two  *)
(* things are NOT atomic with it and are kept: the transaction timestamp   *)
(* is that of BEGIN, before the lock waits (TxTimes), and a scheduled      *)
(* action is claimed by a worker in an earlier transaction (ClaimBreakup-  *)
(* Job, ClaimAccountJob), after which the API may still change the rows.   *)
(***************************************************************************)
EXTENDS Integers
LOCAL INSTANCE FiniteSetsExt

CONSTANTS
    Accounts,            \* account ids
    Partnerships,        \* partnership ids the model may create
    NoAccount,           \* the initiator of no breakup
    CancelWindow,        \* one hour in the code
    BaseWindow,          \* seven days
    ExtendedWindow,      \* ten days
    RecoveryWindow,      \* seven days
    BreakupCooldown,     \* three months
    DeletionCooldown,    \* one month
    MaxLag,              \* bound: how old a transaction timestamp may be
    MaxGeneration,       \* bound: no breakup starts at this generation
    MaxDeletions,        \* bound: deletion requests in all
    Horizon              \* bound: last instant of the clock

ASSUME AccountsAssumption == NoAccount \notin Accounts
ASSUME WindowsAssumption ==
    /\ CancelWindow \in Nat /\ BaseWindow \in Nat /\ ExtendedWindow \in Nat
    /\ 0 < CancelWindow /\ CancelWindow < BaseWindow /\ BaseWindow < ExtendedWindow
    /\ RecoveryWindow \in Nat /\ 0 < RecoveryWindow
    /\ BreakupCooldown \in Nat /\ DeletionCooldown \in Nat
    /\ 0 < BreakupCooldown /\ 0 < DeletionCooldown
ASSUME BoundsAssumption ==
    /\ MaxLag \in Nat /\ MaxGeneration \in Nat /\ MaxDeletions \in Nat /\ Horizon \in Nat
\* No transaction waits for its locks as long as a recovery window lasts.
ASSUME LagAssumption == MaxLag <= RecoveryWindow

VARIABLES
    clock,         \* clock_timestamp() of the database
    account,       \* accounts.status
    deletion,      \* the latest account_deletion_requests row of an account
    partnership,   \* partnerships rows
    slots,         \* partnership_members rows of an account with released_at null
    breakup,       \* the open breakup_processes row of a partnership
    cooldown,      \* the open account_partner_eligibility row of an account
    blocks,        \* active former-partner blocks
    breakupJobs,   \* live partnership_breakup_finalize scheduled actions
    accountJobs    \* live account_deletion_finalize scheduled actions

rowVars  == <<account, deletion, partnership, slots, breakup, cooldown, blocks>>
jobVars  == <<breakupJobs, accountJobs>>
vars     == <<clock, rowVars, jobVars>>

AccountStatus     == {"active", "deletion_pending", "deleted"}
LifecycleState    == {"none", "active", "breakup_pending", "terminated"}
TerminationReason == {"none", "breakup", "partner_account_deleted"}
JobStatus         == {"pending", "processing"}

PartnershipRow == [state : LifecycleState, members : SUBSET Accounts, generation : Nat,
                   visible : Nat, activatedAt : Nat, terminatedAt : Nat, reason : TerminationReason]
\* `process' stands for breakup_processes.id: the generation at which it was opened.
BreakupRow     == [open : BOOLEAN, process : Nat, initiator : Accounts \cup {NoAccount},
                   visible : Nat, initiatedAt : Nat, finalDeadline : Nat, generation : Nat,
                   intents : SUBSET Accounts]
DeletionRow    == [pending : BOOLEAN, visible : Nat, requestedAt : Nat, recoverUntil : Nat,
                   generation : Nat]
CooldownRow    == [open : BOOLEAN, eligibleAt : Nat]
BlockRow       == [blocker : Accounts, blocked : Accounts, source : Partnerships]
BreakupJob     == [partnership : Partnerships, process : Nat, generation : Nat,
                   executeAt : Nat, status : JobStatus]
AccountJob     == [account : Accounts, generation : Nat, executeAt : Nat, status : JobStatus]

NoPartnership == [state |-> "none", members |-> {}, generation |-> 0,
                  visible |-> 0, activatedAt |-> 0, terminatedAt |-> 0, reason |-> "none"]
NoBreakup     == [open |-> FALSE, process |-> 0, initiator |-> NoAccount, visible |-> 0,
                  initiatedAt |-> 0, finalDeadline |-> 0, generation |-> 0, intents |-> {}]
NoDeletion(g) == [pending |-> FALSE, visible |-> 0, requestedAt |-> 0, recoverUntil |-> 0,
                  generation |-> g]
NoCooldown    == [open |-> FALSE, eligibleAt |-> 0]

RowTypes ==
    /\ clock \in Nat
    /\ account \in [Accounts -> AccountStatus]
    /\ deletion \in [Accounts -> DeletionRow]
    /\ partnership \in [Partnerships -> PartnershipRow]
    /\ slots \in [Accounts -> SUBSET Partnerships]
    /\ breakup \in [Partnerships -> BreakupRow]
    /\ cooldown \in [Accounts -> CooldownRow]
    /\ blocks \subseteq BlockRow
    /\ breakupJobs \subseteq BreakupJob
    /\ accountJobs \subseteq AccountJob

\* Constraints of the tables that relate the columns of a row, or the row to its
\* members: partnerships_termination_shape, breakup_processes_member_fk,
\* breakup_restore_intents_member_fk and partnership_blocks_not_self.
TableChecks ==
    /\ \A p \in Partnerships :
           /\ partnership[p].state = "terminated" <=> partnership[p].reason # "none"
           /\ breakup[p].open => /\ partnership[p].state # "none"
                                 /\ breakup[p].initiator \in partnership[p].members
                                 /\ breakup[p].intents \subseteq partnership[p].members
    /\ \A r \in blocks : r.blocker # r.blocked

\* The rows have the types their columns declare and meet the constraints of their
\* tables: no handler or worker is turned away by one.
TypeOK == RowTypes /\ TableChecks

Init ==
    /\ clock = 0
    /\ account = [a \in Accounts |-> "active"]
    /\ deletion = [a \in Accounts |-> NoDeletion(0)]
    /\ partnership = [p \in Partnerships |-> NoPartnership]
    /\ slots = [a \in Accounts |-> {}]
    /\ breakup = [p \in Partnerships |-> NoBreakup]
    /\ cooldown = [a \in Accounts |-> NoCooldown]
    /\ blocks = {}
    /\ breakupJobs = {}
    /\ accountJobs = {}

-----------------------------------------------------------------------------
(* Time.  getTransactionTimestamp returns the time of BEGIN: a handler that *)
(* waited for its locks works with a timestamp older than the clock.        *)

TxTimes == {t \in 0 .. clock : clock - t <= MaxLag}

\* Bound: only what can run to its last deadline before the horizon is started.
WithinHorizon(t) == t <= Horizon

Tick ==
    /\ clock < Horizon
    /\ clock' = clock + 1
    /\ UNCHANGED <<rowVars, jobVars>>

-----------------------------------------------------------------------------
(* What the handlers read under the locks.                                  *)

Live(p) == partnership[p].state \in {"active", "breakup_pending"}

\* Members with a pending deletion request.
Overlays(p) == {a \in partnership[p].members : deletion[a].pending}

\* The row lockPartnershipLifecycle reports: ORDER BY requested_at ... LIMIT 1.
ReportedOverlay(p) ==
    {a \in Overlays(p) : \A b \in Overlays(p) : deletion[a].requestedAt <= deletion[b].requestedAt}

\* Mutation: only the actor's own deletion locks.
Unlocked_OwnDeletion(p, a) == a \in partnership[p].members /\ account[a] = "active"

\* The accountLocked and view-only denials of evaluateCapability.
Unlocked(p, a) ==
    /\ a \in partnership[p].members
    /\ account[a] = "active"
    /\ Overlays(p) = {}

MayInitiate(p, a) == Unlocked(p, a) /\ partnership[p].state = "active"

MayCancel(p, a, now) ==
    /\ Unlocked(p, a)
    /\ partnership[p].state = "breakup_pending" /\ breakup[p].open
    /\ breakup[p].initiator = a
    /\ now < breakup[p].initiatedAt + CancelWindow

MaySubmitIntent(p, a, now) ==
    /\ Unlocked(p, a)
    /\ partnership[p].state = "breakup_pending" /\ breakup[p].open
    /\ breakup[p].initiatedAt + CancelWindow <= now
    /\ now < breakup[p].finalDeadline
    /\ a \notin breakup[p].intents

\* Mutation: an occupied account is eligible.
Eligible_Occupied(a, now) ==
    account[a] = "active" /\ (cooldown[a].open => cooldown[a].eligibleAt <= now)

\* Mutation: the cooldown is not looked at.
Eligible_OnCooldown(a, now) == account[a] = "active" /\ slots[a] = {}

\* Mutation: the cooldown is compared with the clock, not with BEGIN's timestamp.
Eligible_ByClock(a, now) ==
    account[a] = "active" /\ slots[a] = {} /\ (cooldown[a].open => cooldown[a].eligibleAt <= clock)

\* resolveExpiredPartnerEligibility at `now', then the check of the open row.
Eligible(a, now) ==
    /\ account[a] = "active"
    /\ slots[a] = {}
    /\ cooldown[a].open => cooldown[a].eligibleAt <= now

\* resolveExpiredPartnerEligibility on one row.
ResolvedCooldown(a, at) ==
    IF cooldown[a].open /\ cooldown[a].eligibleAt <= at THEN NoCooldown ELSE cooldown[a]

\* Mutation: only the caller's own blocks count.
BlockedPair_OneWay(a, b) == \E r \in blocks : r.blocker = a /\ r.blocked = b

BlockedPair(a, b) == \E r \in blocks : {r.blocker, r.blocked} = {a, b}

-----------------------------------------------------------------------------
(* Scheduled actions.  Rows that reached a final status are never read      *)
(* again and are dropped.                                                   *)

\* Mutation: the action expects the generation the breakup was opened with.
FinalizerFor_OpeningGeneration(p, row) ==
    [partnership |-> p, process |-> row.process, generation |-> row.process,
     executeAt |-> row.finalDeadline, status |-> "pending"]

FinalizerFor(p, row) ==
    [partnership |-> p, process |-> row.process, generation |-> row.generation,
     executeAt |-> row.finalDeadline, status |-> "pending"]

\* cancelPendingScheduledActionsForAggregate: a claimed action is not pending.
WithoutPendingFinalizers(p) ==
    {j \in breakupJobs :
        ~ (j.partnership = p /\ j.process = breakup[p].process /\ j.status = "pending")}

ClaimBreakupJob(j) ==
    /\ j.status = "pending" /\ j.executeAt <= clock
    /\ breakupJobs' = (breakupJobs \ {j}) \cup {[j EXCEPT !.status = "processing"]}
    /\ UNCHANGED <<clock, rowVars, accountJobs>>

ClaimAccountJob(j) ==
    /\ j.status = "pending" /\ j.executeAt <= clock
    /\ accountJobs' = (accountJobs \ {j}) \cup {[j EXCEPT !.status = "processing"]}
    /\ UNCHANGED <<clock, rowVars, breakupJobs>>

\* The handler's transaction rolled back on a retryable error: the action is
\* pending again.
RetryBreakupJob(j) ==
    /\ j.status = "processing"
    /\ breakupJobs' = (breakupJobs \ {j}) \cup {[j EXCEPT !.status = "pending"]}
    /\ UNCHANGED <<clock, rowVars, accountJobs>>

RetryAccountJob(j) ==
    /\ j.status = "processing"
    /\ accountJobs' = (accountJobs \ {j}) \cup {[j EXCEPT !.status = "pending"]}
    /\ UNCHANGED <<clock, rowVars, breakupJobs>>

-----------------------------------------------------------------------------
(* Formation and breakup: the API's handlers.  `now' is the transaction     *)
(* timestamp.  A caller names a row it has already read, so its transaction *)
(* began after that row was committed (`visible').                          *)

\* Mutation: the lifecycle changes under the same generation.
Moved_SameGeneration(p, state) == [partnership EXCEPT ![p].state = state]

\* setPartnershipBreakupPending, markBreakupCancelled, extendBreakupDeadline and
\* restorePartnership on the partnership row.
Moved(p, state) == [partnership EXCEPT ![p].state = state, ![p].generation = @ + 1]

FormPartnership(p, a, b, now) ==
    /\ a # b /\ partnership[p].state = "none"
    /\ now \in TxTimes
    /\ Eligible(a, now) /\ Eligible(b, now)
    /\ ~ BlockedPair(a, b)
    /\ partnership' = [partnership EXCEPT ![p] =
            [NoPartnership EXCEPT !.state = "active", !.members = {a, b},
                                  !.generation = 1, !.visible = clock,
                                  !.activatedAt = now]]
    /\ slots' = [slots EXCEPT ![a] = @ \cup {p}, ![b] = @ \cup {p}]
    /\ cooldown' = [cooldown EXCEPT ![a] = ResolvedCooldown(a, now),
                                    ![b] = ResolvedCooldown(b, now)]
    /\ UNCHANGED <<clock, account, deletion, breakup, blocks, jobVars>>

InitiateBreakup(p, a, now) ==
    /\ now \in TxTimes /\ partnership[p].visible <= now
    /\ WithinHorizon(now + ExtendedWindow)
    /\ partnership[p].generation < MaxGeneration
    /\ MayInitiate(p, a)
    /\ LET g   == partnership[p].generation + 1
           row == [open |-> TRUE, process |-> g, initiator |-> a, visible |-> clock,
                   initiatedAt |-> now, finalDeadline |-> now + BaseWindow, generation |-> g, intents |-> {}]
       IN  /\ partnership' = Moved(p, "breakup_pending")
           /\ breakup' = [breakup EXCEPT ![p] = row]
           /\ breakupJobs' = breakupJobs \cup {FinalizerFor(p, row)}
    /\ UNCHANGED <<clock, account, deletion, slots, cooldown, blocks, accountJobs>>

CancelBreakup(p, a, now) ==
    /\ now \in TxTimes /\ breakup[p].visible <= now
    /\ MayCancel(p, a, now)
    /\ partnership' = Moved(p, "active")
    /\ breakup' = [breakup EXCEPT ![p] = NoBreakup]
    /\ breakupJobs' = WithoutPendingFinalizers(p)
    /\ UNCHANGED <<clock, account, deletion, slots, cooldown, blocks, accountJobs>>

\* The first intent extends the deadline and re-arms the finalizer under a new
\* generation.  extendBreakupDeadline expects the breakup's own generation on
\* the partnership row.
SubmitFirstIntent(p, a, now) ==
    /\ now \in TxTimes /\ breakup[p].visible <= now
    /\ MaySubmitIntent(p, a, now)
    /\ breakup[p].intents = {}
    /\ partnership[p].generation = breakup[p].generation
    /\ LET row == [breakup[p] EXCEPT !.finalDeadline = breakup[p].initiatedAt + ExtendedWindow,
                                     !.generation = @ + 1,
                                     !.intents = {a}]
       IN  /\ partnership' = Moved(p, "breakup_pending")
           /\ breakup' = [breakup EXCEPT ![p] = row]
           /\ breakupJobs' = WithoutPendingFinalizers(p) \cup {FinalizerFor(p, row)}
    /\ UNCHANGED <<clock, account, deletion, slots, cooldown, blocks, accountJobs>>

\* The second member's intent restores the partnership.
SubmitSecondIntent(p, a, now) ==
    /\ now \in TxTimes /\ breakup[p].visible <= now
    /\ MaySubmitIntent(p, a, now)
    /\ breakup[p].intents # {}
    /\ partnership' = Moved(p, "active")
    /\ breakup' = [breakup EXCEPT ![p] = NoBreakup]
    /\ breakupJobs' = WithoutPendingFinalizers(p)
    /\ UNCHANGED <<clock, account, deletion, slots, cooldown, blocks, accountJobs>>

-----------------------------------------------------------------------------
(* Account deletion and the block of a former partner.                      *)

DeletionRequests == MapThenSumSet(LAMBDA b : deletion[b].generation, Accounts)

RequestDeletion(a, now) ==
    /\ now \in TxTimes
    /\ WithinHorizon(now + RecoveryWindow)
    /\ DeletionRequests < MaxDeletions
    /\ account[a] = "active"
    /\ LET g   == deletion[a].generation + 1
           end == now + RecoveryWindow
       IN  /\ deletion' = [deletion EXCEPT ![a] =
                  [pending |-> TRUE, visible |-> clock, requestedAt |-> now, recoverUntil |-> end,
                   generation |-> g]]
           /\ accountJobs' = accountJobs \cup
                  {[account |-> a, generation |-> g, executeAt |-> end, status |-> "pending"]}
    /\ account' = [account EXCEPT ![a] = "deletion_pending"]
    /\ UNCHANGED <<clock, partnership, slots, breakup, cooldown, blocks, breakupJobs>>

RecoverAccount(a, now) ==
    /\ now \in TxTimes /\ deletion[a].visible <= now
    /\ deletion[a].pending
    /\ now < deletion[a].recoverUntil
    /\ account' = [account EXCEPT ![a] = "active"]
    /\ deletion' = [deletion EXCEPT ![a] = NoDeletion(@.generation)]
    /\ UNCHANGED <<clock, partnership, slots, breakup, cooldown, blocks, jobVars>>

\* The session was checked before the transaction, so the caller may have begun a
\* deletion meanwhile.  An active block of the same direction keeps its row,
\* whatever partnership it came from.
BlockFormerPartner(p, a, b) ==
    /\ partnership[p].state = "terminated"
    /\ partnership[p].members = {a, b} /\ a # b
    /\ account[a] # "deleted"
    /\ ~ \E q \in slots[a] : b \in partnership[q].members
    /\ blocks' = IF \E r \in blocks : r.blocker = a /\ r.blocked = b
                 THEN blocks
                 ELSE blocks \cup {[blocker |-> a, blocked |-> b, source |-> p]}
    /\ UNCHANGED <<clock, account, deletion, partnership, slots, breakup, cooldown, jobVars>>

UnblockFormerPartner(p, a) ==
    /\ partnership[p].state = "terminated"
    /\ a \in partnership[p].members
    /\ account[a] # "deleted"
    /\ blocks' = {r \in blocks : ~ (r.blocker = a /\ r.source = p)}
    /\ UNCHANGED <<clock, account, deletion, partnership, slots, breakup, cooldown, jobVars>>

-----------------------------------------------------------------------------
(* dissolvePartnership: the one kernel that terminates a partnership.       *)

\* Members that receive a cooldown.
Cooled(p, why, leaving) ==
    IF why = "breakup" THEN partnership[p].members ELSE partnership[p].members \ {leaving}

CooldownLength(why) == IF why = "breakup" THEN BreakupCooldown ELSE DeletionCooldown

\* Mutation: the reason is not written with the state and the time.
TerminateRows_NoReason(p, why, at) ==
    /\ partnership' = [Moved(p, "terminated") EXCEPT ![p].terminatedAt = at]
    /\ slots' = [a \in Accounts |-> slots[a] \ {p}]

\* terminatePartnershipLifecycle.
TerminateRows(p, why, at) ==
    /\ partnership' = [Moved(p, "terminated") EXCEPT ![p].terminatedAt = at, ![p].reason = why]
    /\ slots' = [a \in Accounts |-> slots[a] \ {p}]

\* Mutation: the deletion of a member leaves the breakup process open.
CloseBreakup_OnlyDissolved(p, why) ==
    breakup' = IF why = "breakup" THEN [breakup EXCEPT ![p] = NoBreakup] ELSE breakup

\* markBreakupDissolved, which must find the process open, or
\* markOpenBreakupSuperseded.
CloseBreakup(p, why) ==
    /\ why = "breakup" => breakup[p].open
    /\ breakup' = [breakup EXCEPT ![p] = NoBreakup]

\* insertPartnerCooldown for each member that receives one, after the expired
\* ones are resolved; the unique index on open cooldowns fails the transaction.
InsertCooldowns(p, why, at, leaving) ==
    /\ \A a \in Cooled(p, why, leaving) : ~ ResolvedCooldown(a, at).open
    /\ cooldown' = [a \in Accounts |->
            IF a \in Cooled(p, why, leaving)
            THEN [open |-> TRUE, eligibleAt |-> at + CooldownLength(why)]
            ELSE IF a \in partnership[p].members THEN ResolvedCooldown(a, at) ELSE cooldown[a]]

Dissolve(p, why, at, leaving) ==
    /\ Live(p)
    /\ TerminateRows(p, why, at)
    /\ CloseBreakup(p, why)
    /\ InsertCooldowns(p, why, at, leaving)

-----------------------------------------------------------------------------
(* The worker's handlers on a claimed action.  The claim came first, so the *)
(* transaction timestamp is not before executeAt.                           *)

HandlerTimes(j) == {t \in TxTimes : j.executeAt <= t}

\* executeClaim's generation guard: not the open process, or not its generation.
CurrentBreakupJob(j) ==
    /\ breakup[j.partnership].open
    /\ breakup[j.partnership].process = j.process
    /\ breakup[j.partnership].generation = j.generation

DropStaleBreakupJob(j) ==
    /\ j.status = "processing"
    /\ ~ CurrentBreakupJob(j)
    /\ breakupJobs' = breakupJobs \ {j}
    /\ UNCHANGED <<clock, rowVars, accountJobs>>

\* Mutation: the worker does not look for a deletion.
DeletionDueFirst_Never(p) == FALSE

\* Mutation: any pending deletion makes it yield.
DeletionDueFirst_Any(p) == Overlays(p) # {}

DeletionDueFirst(p) ==
    \E a \in ReportedOverlay(p) : deletion[a].recoverUntil < breakup[p].finalDeadline

\* The handler returns without effect and the action is completed.
YieldToDeletion(j, now) ==
    /\ j.status = "processing" /\ now \in HandlerTimes(j)
    /\ CurrentBreakupJob(j)
    /\ breakup[j.partnership].finalDeadline <= now
    /\ DeletionDueFirst(j.partnership)
    /\ breakupJobs' = breakupJobs \ {j}
    /\ UNCHANGED <<clock, rowVars, accountJobs>>

FinalizeBreakup(j, now) ==
    LET p == j.partnership IN
    /\ j.status = "processing" /\ now \in HandlerTimes(j)
    /\ CurrentBreakupJob(j)
    /\ breakup[p].finalDeadline <= now
    /\ ~ DeletionDueFirst(p)
    /\ Dissolve(p, "breakup", breakup[p].finalDeadline, NoAccount)
    /\ breakupJobs' = WithoutPendingFinalizers(p) \ {j}
    /\ UNCHANGED <<clock, account, deletion, blocks, accountJobs>>

CurrentAccountJob(j) ==
    deletion[j.account].pending /\ deletion[j.account].generation = j.generation

DropStaleAccountJob(j) ==
    /\ j.status = "processing"
    /\ ~ CurrentAccountJob(j)
    /\ accountJobs' = accountJobs \ {j}
    /\ UNCHANGED <<clock, rowVars, breakupJobs>>

\* Mutation: the request stays pending.
AccountErased_RequestKept(a) ==
    account' = [account EXCEPT ![a] = "deleted"] /\ deletion' = deletion

AccountErased(a) ==
    /\ account' = [account EXCEPT ![a] = "deleted"]
    /\ deletion' = [deletion EXCEPT ![a] = NoDeletion(@.generation)]

BreakupWins(p, a) ==
    breakup[p].open /\ breakup[p].finalDeadline <= deletion[a].recoverUntil

FinalizeSingleAccount(j, now) ==
    LET a == j.account IN
    /\ j.status = "processing" /\ now \in HandlerTimes(j)
    /\ CurrentAccountJob(j)
    /\ deletion[a].recoverUntil <= now
    /\ slots[a] = {}
    /\ AccountErased(a)
    /\ accountJobs' = accountJobs \ {j}
    /\ UNCHANGED <<clock, partnership, slots, breakup, cooldown, blocks, breakupJobs>>

FinalizePartneredAccount(j, p, now) ==
    LET a == j.account IN
    /\ j.status = "processing" /\ now \in HandlerTimes(j)
    /\ CurrentAccountJob(j)
    /\ deletion[a].recoverUntil <= now
    /\ p \in slots[a]
    /\ IF BreakupWins(p, a)
       THEN Dissolve(p, "breakup", breakup[p].finalDeadline, NoAccount)
       ELSE Dissolve(p, "partner_account_deleted", deletion[a].recoverUntil, a)
    /\ AccountErased(a)
    /\ breakupJobs' = IF breakup[p].open THEN WithoutPendingFinalizers(p) ELSE breakupJobs
    /\ accountJobs' = accountJobs \ {j}
    /\ UNCHANGED <<clock, blocks>>

-----------------------------------------------------------------------------
ApiStep ==
    \/ \E p \in Partnerships, a, b \in Accounts, now \in TxTimes : FormPartnership(p, a, b, now)
    \/ \E p \in Partnerships, a \in Accounts, now \in TxTimes : InitiateBreakup(p, a, now)
    \/ \E p \in Partnerships, a \in Accounts, now \in TxTimes : CancelBreakup(p, a, now)
    \/ \E p \in Partnerships, a \in Accounts, now \in TxTimes : SubmitFirstIntent(p, a, now)
    \/ \E p \in Partnerships, a \in Accounts, now \in TxTimes : SubmitSecondIntent(p, a, now)
    \/ \E a \in Accounts, now \in TxTimes : RequestDeletion(a, now)
    \/ \E a \in Accounts, now \in TxTimes : RecoverAccount(a, now)
    \/ \E p \in Partnerships, a, b \in Accounts : BlockFormerPartner(p, a, b)
    \/ \E p \in Partnerships, a \in Accounts : UnblockFormerPartner(p, a)

BreakupWorkerStep(j) ==
    \/ DropStaleBreakupJob(j)
    \/ \E now \in TxTimes : YieldToDeletion(j, now)
    \/ \E now \in TxTimes : FinalizeBreakup(j, now)

AccountWorkerStep(j) ==
    \/ DropStaleAccountJob(j)
    \/ \E now \in TxTimes : FinalizeSingleAccount(j, now)
    \/ \E p \in Partnerships, now \in TxTimes : FinalizePartneredAccount(j, p, now)

Next ==
    \/ Tick
    \/ ApiStep
    \/ \E j \in breakupJobs : ClaimBreakupJob(j) \/ RetryBreakupJob(j) \/ BreakupWorkerStep(j)
    \/ \E j \in accountJobs : ClaimAccountJob(j) \/ RetryAccountJob(j) \/ AccountWorkerStep(j)

Spec == Init /\ [][Next]_vars

\* The worker polls for due actions of every kind, and an action that fails on a
\* transient error is retried until one attempt commits.
ClaimSomeBreakupJob(p)   == \E j \in breakupJobs : j.partnership = p /\ ClaimBreakupJob(j)
ExecuteSomeBreakupJob(p) == \E j \in breakupJobs : j.partnership = p /\ BreakupWorkerStep(j)
ClaimSomeAccountJob(a)   == \E j \in accountJobs : j.account = a /\ ClaimAccountJob(j)
ExecuteSomeAccountJob(a) == \E j \in accountJobs : j.account = a /\ AccountWorkerStep(j)

Fairness ==
    /\ WF_vars(Tick)
    /\ \A p \in Partnerships :
           WF_vars(ClaimSomeBreakupJob(p)) /\ SF_vars(ExecuteSomeBreakupJob(p))
    /\ \A a \in Accounts :
           WF_vars(ClaimSomeAccountJob(a)) /\ SF_vars(ExecuteSomeAccountJob(a))

FairSpec == Spec /\ Fairness

-----------------------------------------------------------------------------
(* Safety.                                                                  *)

\* An account holds at most one partnership slot, and holds the slot of a
\* partnership exactly while it is a member of it and it is not terminated:
\* what authorizes a member (partnership_members.released_at) never disagrees
\* with the lifecycle, through dissolutions by either worker.
SlotsFollowLifecycle ==
    /\ \A a \in Accounts : \A p, q \in slots[a] : p = q
    /\ \A a \in Accounts, p \in Partnerships :
           p \in slots[a] <=> a \in partnership[p].members /\ Live(p)

\* The two rows of a breakup agree: the partnership is breakup_pending exactly
\* while its process is open, both carry the same generation, one intent is
\* what separates the extended deadline from the base one.
BreakupMatchesLifecycle ==
    \A p \in Partnerships :
        /\ partnership[p].state = "breakup_pending" <=> breakup[p].open
        /\ breakup[p].open =>
            /\ breakup[p].generation = partnership[p].generation
            /\ breakup[p].initiator \in partnership[p].members
            /\ breakup[p].finalDeadline = breakup[p].initiatedAt +
                   (IF breakup[p].intents = {} THEN BaseWindow ELSE ExtendedWindow)

\* The account is deletion_pending exactly while its request is pending, and a
\* pending request has a live finalize action for its generation and deadline:
\* no interleaving of recovery, a new request and a late worker disarms it.
DeletionArmed ==
    \A a \in Accounts :
        /\ deletion[a].pending <=> account[a] = "deletion_pending"
        /\ deletion[a].pending =>
               \E j \in accountJobs :
                   /\ j.account = a
                   /\ j.generation = deletion[a].generation
                   /\ j.executeAt = deletion[a].recoverUntil

Armed(p) == \E j \in breakupJobs :
    /\ j.partnership = p
    /\ j.process = breakup[p].process
    /\ j.generation = breakup[p].generation
    /\ j.executeAt = breakup[p].finalDeadline

\* Until its final deadline an open breakup keeps a live finalize action for
\* its current generation and deadline, whichever of the actions of earlier
\* generations were cancelled, already claimed or dropped as stale.
FinalizerArmed ==
    \A p \in Partnerships :
        breakup[p].open /\ clock < breakup[p].finalDeadline => Armed(p)

\* An open breakup without a live finalize action only waits for the deletion
\* of a member, whose finalizer will dissolve the partnership.
BreakupNeverOrphaned ==
    \A p \in Partnerships : breakup[p].open /\ Overlays(p) = {} => Armed(p)

\* No account in a partnership carries an open cooldown, so the cooldown a
\* dissolution inserts never meets the unique index that would abort it.
NoCooldownCollision ==
    \A p \in Partnerships : Live(p) => \A a \in partnership[p].members : ~ cooldown[a].open

\* A member that dissolution put on cooldown enters no partnership before the
\* cooldown ended, although formation reads a timestamp older than the clock.
CooldownEnforced ==
    \A p, q \in Partnerships, a \in Accounts :
        /\ p # q
        /\ a \in partnership[p].members /\ a \in partnership[q].members
        /\ partnership[p].reason # "none"
        /\ partnership[p].activatedAt <= partnership[q].activatedAt
        => partnership[p].terminatedAt
               + (IF partnership[p].reason = "breakup" THEN BreakupCooldown ELSE DeletionCooldown)
               <= partnership[q].activatedAt

\* Two accounts with an active block between them, in either direction, are
\* not in a partnership.
BlockedPairApart ==
    \A r \in blocks, p \in Partnerships :
        Live(p) => ~ (r.blocker \in partnership[p].members /\ r.blocked \in partnership[p].members)

-----------------------------------------------------------------------------
(* What a step may never do.                                                *)

\* The destructive deadlines of a partnership.
Deadlines(p) ==
    (IF breakup[p].open THEN {breakup[p].finalDeadline} ELSE {})
        \cup {deletion[a].recoverUntil : a \in Overlays(p)}

\* A partnership is terminated at the earliest of its destructive deadlines.
EarliestDeadline(p) ==
    Live(p) /\ partnership'[p].state = "terminated" =>
        /\ partnership'[p].terminatedAt \in Deadlines(p)
        /\ \A d \in Deadlines(p) : partnership'[p].terminatedAt <= d

\* A partnership is terminated at the earliest of its destructive deadlines,
\* whichever worker comes first and however late, when at most one of its
\* members is being deleted; and never before that deadline.
EarliestDeadlineWins ==
    [][\A p \in Partnerships :
          /\ (\A a, b \in Overlays(p) : a = b) => EarliestDeadline(p)
          /\ Live(p) /\ partnership'[p].state = "terminated"
                => partnership'[p].terminatedAt <= clock]_vars

\* As documented: the earliest deadline wins, with no condition.
EarliestDeadlineAlwaysWins == [][\A p \in Partnerships : EarliestDeadline(p)]_vars

\* While a member's deletion is pending the partnership and its breakup stay
\* as they are until the partnership is terminated: a breakup resumes after a
\* recovery with its process, deadline, generation and intents.
DeletionFreezes ==
    [][\A p \in Partnerships :
          Live(p) /\ Overlays(p) # {} =>
              \/ partnership'[p].state = "terminated"
              \/ partnership'[p] = partnership[p] /\ breakup'[p] = breakup[p]]_vars

\* The lifecycle generation fences: it grows by one with every change of a
\* lifecycle row, never otherwise, and a terminated partnership never changes.
GenerationFences ==
    [][\A p \in Partnerships :
          /\ partnership'[p].generation \in
                 {partnership[p].generation, partnership[p].generation + 1}
          /\ partnership'[p].generation = partnership[p].generation =>
                 partnership'[p] = partnership[p] /\ breakup'[p] = breakup[p]
          /\ partnership[p].state = "terminated" => partnership'[p] = partnership[p]]_vars

-----------------------------------------------------------------------------
(* Liveness.                                                                *)

\* Every breakup ends: cancelled, restored, or dissolved by one of the workers,
\* whatever deletions and recoveries the members start meanwhile.
BreakupResolves ==
    \A p \in Partnerships, g \in 1 .. MaxGeneration :
        breakup[p].open /\ breakup[p].process = g ~> ~ (breakup[p].open /\ breakup[p].process = g)

\* Every deletion request ends, in a recovery or with the account deleted.
DeletionResolves == \A a \in Accounts : deletion[a].pending ~> ~ deletion[a].pending

=============================================================================
